---------------------------- MODULE Kernel_proofs ----------------------------
(***************************************************************************)
(* A kernel that does one job at a time does each as it is specified:      *)
(*                                                                         *)
(* The executor, for plans of any size and shape whose targets exist: an   *)
(* unwind waits for every branch, goes strictly backwards through what was *)
(* committed, and is reported as it was; what runs once is done once and   *)
(* what depends on it is undone before it.  The walks in progress form a   *)
(* tree of paths: above a walk there are only walks that wait for it, and  *)
(* where two paths part they take branches of one fork, since a loop has   *)
(* one item at a time.  So a walk that raises takes with it all that is    *)
(* below its catcher, and when nothing catches it there was no other walk. *)
(*                                                                         *)
(* Contracts: a walk along a schema and a path of an answer are compared   *)
(* one segment at a time.  Repairs: a proposal is for what has no id yet,  *)
(* so that proposals which all got one are of different entities.  Sagas:  *)
(* a visit of the planner has settled what it has passed, so what it plans *)
(* finds what it needs; what is undone is the end of what was made.        *)
(*                                                                         *)
(* The validator: the count it keeps of a node is of the edges into it     *)
(* from what is not emitted, so the sort leaves over what cannot be        *)
(* sorted, in which whatever is left follows something left; whether a     *)
(* plan is admitted is a formula of the plan, since a plan with one root   *)
(* has one order.  Straight plans: a run that does not fork is one walk,   *)
(* and what leads to its node has an output or was refused.                *)
(***************************************************************************)
EXTENDS Kernel, TLAPS, SequenceTheorems, WellFoundedInduction, FiniteSetTheorems

\* A bounded set of numbers has a greatest one.
LEMMA Greatest ==
  ASSUME NEW n \in Nat, NEW T \in SUBSET (0..n), T # {}
  PROVE  \E x \in T : \A y \in T : y <= x
<1> DEFINE U == {m \in Nat : \E t \in T : m = n - t}
<1>1. U # {}
  <2>1. PICK t \in T : t \in 0..n
    OBVIOUS
  <2>2. n - t \in U
    BY <2>1
  <2> QED BY <2>2
<1>2. PICK u \in U : \A v \in U : ~(<<v, u>> \in OpToRel(<, Nat))
  BY <1>1, NatLessThanWellFounded, WFMin
<1>3. PICK x \in T : u = n - x
  BY <1>2
<1>4. ASSUME NEW y \in T PROVE y <= x
  <2>1. n - y \in U
    OBVIOUS
  <2>2. ~(n - y < n - x)
    BY <1>2, <1>3, <2>1 DEF OpToRel
  <2> QED BY <2>2
<1> QED BY <1>4

\* A path goes by branches and items.
LEMMA HopIsBranchOrItem ==
  ASSUME NEW h \in Hops PROVE h[1] = "branch" \/ h[1] = "item"
BY DEF Hops

\* A prefix of a path is a path.
LEMMA Cut ==
  ASSUME NEW u \in Seq(Hops), NEW k \in 0..Len(u)
  PROVE  /\ SubSeq(u, 1, k) \in Seq(Hops)
         /\ Len(SubSeq(u, 1, k)) = k
         /\ \A i \in 1..k : SubSeq(u, 1, k)[i] = u[i]
<1>1. \A i \in 1..k : u[i] \in Hops
  OBVIOUS
<1>2. k = 0 \/ 1 <= k
  OBVIOUS
<1> QED BY <1>1, <1>2, SubSeqProperties

\* To be above is to agree on every hop one has.
LEMMA AboveIsPointwise ==
  ASSUME NEW v \in Seq(Hops), NEW w \in Seq(Hops)
  PROVE  IsAbove(v, w) <=> Len(v) <= Len(w) /\ \A i \in 1..Len(v) : v[i] = w[i]
<1> SUFFICES ASSUME Len(v) <= Len(w)
             PROVE  v = SubSeq(w, 1, Len(v)) <=> \A i \in 1..Len(v) : v[i] = w[i]
  BY DEF IsAbove
<1>1. Len(v) \in 0..Len(w)
  OBVIOUS
<1> QED BY <1>1, Cut, SeqEqual

\* Every path is above itself.
LEMMA AboveIsReflexive ==
  ASSUME NEW v \in Seq(Hops)
  PROVE  IsAbove(v, v)
<1>1. Len(v) \in Nat
  OBVIOUS
<1> QED BY <1>1, AboveIsPointwise

\* The catcher is above its walk, with only items in between.
LEMMA CatcherIsAbove ==
  ASSUME NEW w \in Seq(Hops)
  PROVE  \E k \in 0..Len(w) :
           /\ Catcher(w) = SubSeq(w, 1, k)
           /\ \A i \in (k + 1)..Len(w) : w[i][1] = "item"
<1> DEFINE T == {k \in 0..Len(w) : k = 0 \/ w[k][1] = "branch"}
<1>1. PICK k \in T : \A j \in T : j <= k
  <2>1. 0 \in T /\ Len(w) \in Nat
    OBVIOUS
  <2> QED BY <2>1, Greatest
<1> DEFINE c == SubSeq(w, 1, k)
<1>2. c \in Seq(Hops) /\ Len(c) = k /\ \A i \in 1..k : c[i] = w[i]
  BY Cut
<1>3. c = << >> \/ c[Len(c)][1] = "branch"
  BY <1>2, EmptySeq
<1>4. ASSUME NEW i \in (k + 1)..Len(w) PROVE w[i][1] = "item"
  <2>1. w[i] \in Hops /\ i \notin T
    BY <1>1
  <2> QED BY <2>1, HopIsBranchOrItem
<1>5. c \in {SubSeq(w, 1, j) : j \in 0..Len(w)}
  OBVIOUS
<1>6. /\ Catcher(w) \in {SubSeq(w, 1, j) : j \in 0..Len(w)}
      /\ \A i \in (Len(Catcher(w)) + 1)..Len(w) : w[i][1] = "item"
  <2> HIDE DEF c
  <2> QED BY <1>2, <1>3, <1>4, <1>5 DEF Catcher
<1>7. PICK j \in 0..Len(w) : Catcher(w) = SubSeq(w, 1, j)
  BY <1>6
<1> QED BY <1>6, <1>7, Cut

-----------------------------------------------------------------------------

\* Above a walk there are only walks that wait for what is below them.
Tree ==
  \A u \in DOMAIN walk : \A k \in 0..(Len(u) - 1) :
    /\ SubSeq(u, 1, k) \in DOMAIN walk
    /\ walk[SubSeq(u, 1, k)].pc \in {"join", "loop"}

\* Where two paths part, they go different branches.
Parted(u, v) ==
  \E k \in Nat :
    /\ k < Len(u) /\ k < Len(v)
    /\ \A i \in 1..k : u[i] = v[i]
    /\ u[k + 1] # v[k + 1] /\ u[k + 1][1] = "branch" /\ v[k + 1][1] = "branch"

Forked == \A u, v \in DOMAIN walk : IsAbove(u, v) \/ IsAbove(v, u) \/ Parted(u, v)

\* No walk is below w.
Alone(w) == \A u \in DOMAIN walk : IsAbove(w, u) => u = w

Paths == DOMAIN walk \subseteq Seq(Hops)

\* A walk that does not wait has none below it.
LEMMA LeafIsAlone ==
  ASSUME Paths, Tree, NEW w \in DOMAIN walk, walk[w].pc \notin {"join", "loop"}
  PROVE  Alone(w)
<1> SUFFICES ASSUME NEW u \in DOMAIN walk, IsAbove(w, u) PROVE u = w
  BY DEF Alone
<1>1. u \in Seq(Hops) /\ w \in Seq(Hops)
  BY DEF Paths
<1>2. w = SubSeq(u, 1, Len(w)) /\ Len(w) <= Len(u)
  BY DEF IsAbove
<1>3. Len(w) \notin 0..(Len(u) - 1)
  BY <1>2 DEF Tree
<1>4. Len(w) = Len(u)
  BY <1>1, <1>2, <1>3
<1> QED BY <1>1, <1>4, AboveIsPointwise, SeqEqual

\* Neither has one that waits for nobody any more.
LEMMA ChildlessIsAlone ==
  ASSUME Paths, Tree, NEW w \in DOMAIN walk, Children(w) = {}
  PROVE  Alone(w)
<1> SUFFICES ASSUME NEW u \in DOMAIN walk, IsAbove(w, u), Len(w) < Len(u) PROVE FALSE
  BY AboveIsPointwise, SeqEqual DEF Alone, Paths, IsAbove
<1>1. u \in Seq(Hops) /\ w \in Seq(Hops)
  BY DEF Paths
<1> DEFINE c == SubSeq(u, 1, Len(w) + 1)
<1>2. Len(w) + 1 \in 0..Len(u)
  BY <1>1
<1>3. c \in Seq(Hops) /\ Len(c) = Len(w) + 1 /\ \A i \in 1..(Len(w) + 1) : c[i] = u[i]
  BY <1>1, <1>2, Cut
<1>4. \A i \in 1..Len(w) : w[i] = u[i]
  BY <1>1, AboveIsPointwise
<1>5. IsAbove(w, c)
  <2> HIDE DEF c
  <2>1. Len(w) <= Len(c) /\ \A i \in 1..Len(w) : w[i] = c[i]
    BY <1>1, <1>3, <1>4
  <2> QED BY <1>1, <1>3, <2>1, AboveIsPointwise
<1>6. c \in DOMAIN walk
  <2>1. CASE Len(w) + 1 = Len(u)
    <3>1. c = u
      BY <1>1, <1>3, <2>1, SeqEqual
    <3> QED BY <3>1
  <2>2. CASE Len(w) + 1 # Len(u)
    BY <1>1, <1>2, <2>2 DEF Tree
  <2> QED BY <2>1, <2>2
<1> QED BY <1>3, <1>5, <1>6 DEF Children

\* A walk that has none below it may take any step of its own, or end.
LEMMA StepKeepsTree ==
  ASSUME Paths, Tree, Forked, NEW w \in DOMAIN walk, Alone(w),
         DOMAIN walk' = DOMAIN walk \/ DOMAIN walk' = DOMAIN walk \ {w},
         \A v \in DOMAIN walk' \ {w} : walk'[v] = walk[v]
  PROVE  Paths' /\ Tree' /\ Forked'
<1>1. ASSUME NEW u \in DOMAIN walk', NEW k \in 0..(Len(u) - 1)
      PROVE  SubSeq(u, 1, k) \in DOMAIN walk' /\ walk'[SubSeq(u, 1, k)].pc \in {"join", "loop"}
  <2>1. u \in DOMAIN walk /\ u \in Seq(Hops)
    BY DEF Paths
  <2>2. SubSeq(u, 1, k) \in DOMAIN walk /\ walk[SubSeq(u, 1, k)].pc \in {"join", "loop"}
    BY <2>1 DEF Tree
  <2>3. Len(SubSeq(u, 1, k)) = k /\ IsAbove(SubSeq(u, 1, k), u) /\ Len(u) # k
    BY <2>1, Cut DEF IsAbove
  <2>4. SubSeq(u, 1, k) # w
    BY <2>1, <2>3 DEF Alone
  <2> QED BY <2>2, <2>4
<1>2. DOMAIN walk' \subseteq DOMAIN walk
  OBVIOUS
<1>3. Tree'
  BY <1>1 DEF Tree
<1>4. Forked'
  BY <1>2 DEF Forked
<1> QED BY <1>2, <1>3, <1>4 DEF Paths

\* A walk that raises takes with it those between it and its catcher, and these have
\* no other walk below them.
LEMMA RaiseKeepsTree ==
  ASSUME Paths, Tree, Forked, NEW w \in DOMAIN walk, Alone(w),
         walk' = Without({v \in DOMAIN walk : IsAbove(Catcher(w), v) /\ IsAbove(v, w)})
  PROVE  /\ Paths' /\ Tree' /\ Forked'
         /\ Catcher(w) = << >> => DOMAIN walk' = {}
<1> DEFINE c == Catcher(w)
           gone == {v \in DOMAIN walk : IsAbove(c, v) /\ IsAbove(v, w)}
<1>1. w \in Seq(Hops)
  BY DEF Paths
<1>2. PICK n \in 0..Len(w) : /\ c = SubSeq(w, 1, n)
                             /\ \A i \in (n + 1)..Len(w) : w[i][1] = "item"
  BY <1>1, CatcherIsAbove
<1>3. c \in Seq(Hops) /\ Len(c) = n /\ \A i \in 1..n : c[i] = w[i]
  BY <1>1, <1>2, Cut
<1>4. DOMAIN walk' = DOMAIN walk \ gone /\ \A v \in DOMAIN walk' : walk'[v] = walk[v]
  BY DEF Without
\* Whatever is below one that goes, goes.
<1>5. ASSUME NEW u \in DOMAIN walk, NEW v \in gone, IsAbove(v, u)
      PROVE  u \in gone
  <2>1. u \in Seq(Hops) /\ v \in Seq(Hops) /\ v \in DOMAIN walk
    BY DEF Paths
  <2>2. /\ Len(v) <= Len(u) /\ \A i \in 1..Len(v) : v[i] = u[i]
        /\ Len(v) <= Len(w) /\ \A i \in 1..Len(v) : v[i] = w[i]
        /\ n <= Len(v) /\ \A i \in 1..n : c[i] = v[i]
    <3>1. IsAbove(c, v) /\ IsAbove(v, w)
      OBVIOUS
    <3>2. c \in Seq(Hops) /\ Len(c) = n
      BY <1>3
    <3>3. Len(c) <= Len(v) /\ \A i \in 1..Len(c) : c[i] = v[i]
      BY <2>1, <3>1, <3>2, AboveIsPointwise
    <3>4. Len(v) <= Len(w) /\ \A i \in 1..Len(v) : v[i] = w[i]
      BY <1>1, <2>1, <3>1, AboveIsPointwise
    <3>5. Len(v) <= Len(u) /\ \A i \in 1..Len(v) : v[i] = u[i]
      BY <1>5, <2>1, AboveIsPointwise
    <3> QED BY <3>2, <3>3, <3>4, <3>5
  <2>3. IsAbove(c, u)
    BY <1>3, <2>1, <2>2, AboveIsPointwise
  <2>4. ~Parted(u, w)
    <3> SUFFICES ASSUME NEW k \in Nat, k < Len(u), k < Len(w), \A i \in 1..k : u[i] = w[i],
                        u[k + 1] # w[k + 1], w[k + 1][1] = "branch"
                 PROVE  FALSE
      BY DEF Parted
    <3>1. k >= Len(v)
      BY <1>1, <2>1, <2>2
    <3>2. k + 1 \in (n + 1)..Len(w)
      BY <1>1, <2>1, <2>2, <3>1
    <3> QED BY <1>2, <3>2
  <2>5. IsAbove(u, w) \/ u = w
    BY <2>4 DEF Forked, Alone
  <2>6. IsAbove(u, w)
    BY <1>1, <2>5, AboveIsPointwise
  <2> QED BY <2>3, <2>6
<1>6. ASSUME NEW u \in DOMAIN walk', NEW k \in 0..(Len(u) - 1)
      PROVE  SubSeq(u, 1, k) \in DOMAIN walk' /\ walk'[SubSeq(u, 1, k)].pc \in {"join", "loop"}
  <2>1. u \in DOMAIN walk /\ u \in Seq(Hops)
    BY <1>4 DEF Paths
  <2>2. SubSeq(u, 1, k) \in DOMAIN walk /\ walk[SubSeq(u, 1, k)].pc \in {"join", "loop"}
    BY <2>1 DEF Tree
  <2>3. IsAbove(SubSeq(u, 1, k), u)
    BY <2>1, Cut DEF IsAbove
  <2> QED BY <1>4, <1>5, <2>1, <2>2, <2>3
<1>7. Tree'
  BY <1>6 DEF Tree
<1>8. Paths' /\ Forked'
  BY <1>4 DEF Paths, Forked
<1>9. ASSUME c = << >> PROVE DOMAIN walk' = {}
  <2>1. IsAbove(c, c) /\ \A u \in DOMAIN walk : IsAbove(c, u)
    <3> HIDE DEF c
    <3>1. c \in Seq(Hops) /\ Len(c) = 0
      BY <1>3, <1>9
    <3>2. ASSUME NEW u \in Seq(Hops) PROVE IsAbove(c, u)
      <4>1. Len(c) <= Len(u) /\ \A i \in 1..Len(c) : c[i] = u[i]
        BY <3>1
      <4> QED BY <3>1, <4>1, AboveIsPointwise
    <3> QED BY <3>1, <3>2 DEF Paths
  <2>2. w \in gone
    BY <1>1, <2>1, AboveIsPointwise
  <2>3. ASSUME NEW u \in DOMAIN walk PROVE u \in gone
    <3>1. ~Parted(u, w)
      <4> SUFFICES ASSUME NEW k \in Nat, k < Len(w), w[k + 1][1] = "branch"
                   PROVE  FALSE
        BY DEF Parted
      <4>1. n = 0
        BY <1>3, <1>9
      <4> QED BY <1>1, <1>2, <4>1
    <3>2. IsAbove(u, w) \/ u = w
      BY <3>1 DEF Forked, Alone
    <3> QED BY <2>1, <2>2, <3>2
  <2> QED BY <1>4, <2>3
<1> QED BY <1>7, <1>8, <1>9

\* A walk that has none below it may start some: several branches, or one item.
LEMMA AddKeepsTree ==
  ASSUME Paths, Tree, Forked, NEW w \in DOMAIN walk, Alone(w),
         NEW below \in SUBSET Seq(Hops),
         \A c \in below : Len(c) = Len(w) + 1 /\ \A i \in 1..Len(w) : c[i] = w[i],
         \A c, d \in below : c = d \/ (c[Len(c)][1] = "branch" /\ d[Len(d)][1] = "branch"),
         DOMAIN walk' = DOMAIN walk \cup below,
         \A v \in DOMAIN walk \ {w} : walk'[v] = walk[v],
         walk'[w].pc \in {"join", "loop"}
  PROVE  Paths' /\ Tree' /\ Forked'
<1>1. Paths' /\ w \in Seq(Hops) /\ DOMAIN walk \subseteq Seq(Hops)
  BY DEF Paths
<1>2. ASSUME NEW v \in DOMAIN walk, walk[v].pc \in {"join", "loop"}
      PROVE  v \in DOMAIN walk' /\ walk'[v].pc \in {"join", "loop"}
  BY <1>2
<1>3. ASSUME NEW u \in DOMAIN walk', NEW k \in 0..(Len(u) - 1)
      PROVE  SubSeq(u, 1, k) \in DOMAIN walk' /\ walk'[SubSeq(u, 1, k)].pc \in {"join", "loop"}
  <2>1. CASE u \in DOMAIN walk
    BY <1>2, <2>1 DEF Tree
  <2>2. CASE u \in below
    <3>1. /\ u \in Seq(Hops) /\ Len(u) = Len(w) + 1 /\ Len(w) \in Nat
          /\ \A i \in 1..Len(w) : u[i] = w[i]
      BY <1>1, <2>2
    <3>2. k \in 0..Len(w) /\ k \in 0..Len(u)
      BY <3>1
    <3>3. SubSeq(u, 1, k) = SubSeq(w, 1, k)
      <4> DEFINE x == SubSeq(u, 1, k)
                 y == SubSeq(w, 1, k)
      <4>1. x \in Seq(Hops) /\ Len(x) = k /\ \A i \in 1..k : x[i] = u[i]
        BY <3>1, <3>2, Cut
      <4>2. y \in Seq(Hops) /\ Len(y) = k /\ \A i \in 1..k : y[i] = w[i]
        BY <1>1, <3>2, Cut
      <4> HIDE DEF x, y
      <4>3. ASSUME NEW i \in 1..Len(x) PROVE x[i] = y[i]
        <5>1. i \in 1..k /\ i \in 1..Len(w)
          BY <3>1, <3>2, <4>1
        <5> QED BY <3>1, <4>1, <4>2, <5>1
      <4>4. x = y
        BY <4>1, <4>2, <4>3, SeqEqual
      <4> QED BY <4>4 DEF x, y
    <3>4. CASE k = Len(w)
      <4>1. SubSeq(w, 1, k) = w
        <5> DEFINE y == SubSeq(w, 1, k)
        <5>1. y \in Seq(Hops) /\ Len(y) = k /\ \A i \in 1..k : y[i] = w[i]
          BY <1>1, <3>2, Cut
        <5> HIDE DEF y
        <5>2. y = w
          BY <1>1, <3>4, <5>1, SeqEqual
        <5> QED BY <5>2 DEF y
      <4> QED BY <3>3, <4>1
    <3>5. CASE k # Len(w)
      <4>1. k \in 0..(Len(w) - 1)
        BY <3>1, <3>2, <3>5
      <4>2. SubSeq(w, 1, k) \in DOMAIN walk /\ walk[SubSeq(w, 1, k)].pc \in {"join", "loop"}
        BY <4>1 DEF Tree
      <4> QED BY <1>2, <3>3, <4>2
    <3> QED BY <3>4, <3>5
  <2> QED BY <2>1, <2>2
<1>4. Tree'
  BY <1>3 DEF Tree
<1>5. ASSUME NEW c \in below, NEW v \in DOMAIN walk
      PROVE  IsAbove(v, c) \/ (Parted(c, v) /\ Parted(v, c))
  <2>1. /\ c \in Seq(Hops) /\ v \in Seq(Hops)
        /\ Len(c) = Len(w) + 1 /\ \A i \in 1..Len(w) : c[i] = w[i]
    BY <1>1
  <2>2. CASE IsAbove(w, v) \/ IsAbove(v, w)
    <3>1. IsAbove(v, w)
      BY <1>1, <2>2, AboveIsPointwise DEF Alone
    <3>2. Len(v) <= Len(w) /\ \A i \in 1..Len(v) : v[i] = w[i]
      BY <1>1, <3>1, AboveIsPointwise
    <3>3. Len(v) <= Len(c) /\ \A i \in 1..Len(v) : v[i] = c[i]
      BY <1>1, <2>1, <3>2
    <3> QED BY <2>1, <3>3, AboveIsPointwise
  <2>3. CASE Parted(w, v)
    <3>1. PICK k \in Nat : /\ k < Len(w) /\ k < Len(v)
                           /\ \A i \in 1..k : w[i] = v[i]
                           /\ w[k + 1] # v[k + 1]
                           /\ w[k + 1][1] = "branch" /\ v[k + 1][1] = "branch"
      BY <2>3 DEF Parted
    <3>2. k < Len(c) /\ c[k + 1] = w[k + 1] /\ \A i \in 1..k : c[i] = w[i]
      BY <1>1, <2>1, <3>1
    <3> QED BY <3>1, <3>2 DEF Parted
  <2> QED BY <2>2, <2>3 DEF Forked
<1>6. ASSUME NEW c \in below, NEW d \in below
      PROVE  IsAbove(c, d) \/ Parted(c, d)
  <2>1. /\ c \in Seq(Hops) /\ Len(c) = Len(w) + 1 /\ \A i \in 1..Len(w) : c[i] = w[i]
        /\ d \in Seq(Hops) /\ Len(d) = Len(w) + 1 /\ \A i \in 1..Len(w) : d[i] = w[i]
        /\ Len(w) \in Nat
    BY <1>1
  <2>2. CASE c = d
    BY <2>1, <2>2, AboveIsPointwise
  <2>3. CASE c # d
    <3>1. c[Len(w) + 1] # d[Len(w) + 1]
      <4> SUFFICES ASSUME c[Len(w) + 1] = d[Len(w) + 1] PROVE FALSE
        OBVIOUS
      <4>1. \A i \in 1..Len(c) : c[i] = d[i]
        BY <2>1
      <4> QED BY <2>1, <2>3, <4>1, SeqEqual
    <3>2. c[Len(w) + 1][1] = "branch" /\ d[Len(w) + 1][1] = "branch"
      BY <2>1, <2>3
    <3> QED BY <2>1, <3>1, <3>2 DEF Parted
  <2> QED BY <2>2, <2>3
<1>7. Forked'
  BY <1>5, <1>6 DEF Forked
<1> QED BY <1>1, <1>4, <1>7

-----------------------------------------------------------------------------

\* Every target of a node is a node of the plan: what validate() admits.
Closed(p) ==
  LET known == DOMAIN p.nodes IN
  /\ p.entry \in known
  /\ \A n \in known :
       LET m == p.nodes[n] IN
       /\ m.type \notin {"await_approval"} => m.next \in known \cup {End}
       /\ m.type = "condition" =>
            m.on_true \in known /\ m.on_false \in known \cup {End}
       /\ m.type = "await_approval" =>
            /\ m.on_approved \in known
            /\ {m.on_rejected, m.on_timeout} \subseteq known \cup {End}
       /\ m.type = "parallel" =>
            \A i \in DOMAIN m.branches : m.branches[i] \in known
       /\ m.type = "foreach" => m.body \in known

\* A walk is at a node of the plan, and waits only where nodes make walks wait.
Placed ==
  \A w \in DOMAIN walk :
    /\ walk[w].at \in DOMAIN program.nodes
    /\ walk[w].pc \in {"proposed", "sent"} => node(w).type = "action"
    /\ walk[w].pc = "join" => node(w).type = "parallel"
    /\ walk[w].pc = "loop" => node(w).type = "foreach"

WalksTyped ==
  \A w \in DOMAIN walk :
    walk[w] \in [at : Nodes, pc : {"start", "proposed", "sent", "join", "loop"},
                 left : 0..MaxItems]

\* Nothing is left of walks of which none is left.
LEMMA NoWalks ==
  ASSUME NEW D, D = {}, NEW f, f = [v \in D |-> walk[v]]
  PROVE  f = << >>
<1>1. f \in [1..0 -> {}]
  BY SMT
<1>2. f \in Seq({}) /\ Len(f) = 0
  BY <1>1, SeqDef, LenProperties
<1> QED BY <1>2, EmptySeq

\* What a step of one walk leaves of the invariant for the walks.
Walks == Paths /\ WalksTyped /\ Placed /\ Tree /\ Forked /\ QuietUnwind

IInv ==
  /\ TypeOK
  /\ program \in Programs /\ Closed(program)
  /\ Walks
  /\ phase = "undoing" => pending # << >>

Known == DOMAIN program.nodes

\* What the step of a node may leave it with.
Gives(n, output) ==
  \/ output \in Outputs(program.nodes[n])
  \/ /\ output \in {"refused", "outcome", "branches", "count"}
     /\ program.nodes[n].type \in {"action", "parallel", "foreach"}

\* Where a node leads to is a node of the plan or the end.
LEMMA NextIsKnown ==
  ASSUME IsBounded, program \in Programs, Closed(program),
         NEW n \in Known, NEW output, Gives(n, output)
  PROVE  NextAfter(program.nodes[n], output) \in Known \cup {End}
<1>1. program.nodes[n] \in Node
  BY DEF IsBounded, IsProgram, Known
<1> DEFINE m == program.nodes[n]
<1>3. CASE m.type = "condition"
  BY <1>1, <1>3 DEF Closed, Known, NextAfter, Outputs, Gives
<1>4. CASE m.type = "await_approval"
  BY <1>1, <1>4 DEF Closed, Known, NextAfter, Outputs, Gives
<1>5. CASE m.type \notin {"condition", "await_approval"}
  BY <1>1, <1>5 DEF Closed, Known, NextAfter, Outputs, Gives
<1> QED BY <1>3, <1>4, <1>5

\* A walk that leaves its node keeps the walks in order.
LEMMA AdvanceKeepsWalks ==
  ASSUME IsBounded, program \in Programs, Closed(program), program' = program,
         Walks, phase = "walking", ctx \subseteq Nodes,
         NEW w \in DOMAIN walk, Alone(w), NEW output, Gives(walk[w].at, output),
         Advance(w, output)
  PROVE  Walks' /\ ctx' \subseteq Nodes /\ phase' \in {"walking", "completed"}
<1> DEFINE next == NextAfter(node(w), output)
<1>1. /\ walk[w].at \in Known /\ Known \subseteq Nodes
      /\ next \in Known \cup {End}
  BY NextIsKnown DEF Walks, Placed, Known, IsBounded, IsProgram, node
<1>2. /\ walk' = IF next = End THEN Without({w}) ELSE [walk EXCEPT ![w] = At(next)]
      /\ phase' = IF next = End /\ w = << >> THEN "completed" ELSE phase
      /\ ctx' \subseteq Nodes
  BY <1>1 DEF Advance
<1> HIDE DEF next
<1>3. /\ DOMAIN walk' = DOMAIN walk \/ DOMAIN walk' = DOMAIN walk \ {w}
      /\ \A v \in DOMAIN walk' \ {w} : walk'[v] = walk[v]
      /\ w \in DOMAIN walk' => next # End /\ walk'[w] = At(next)
  BY <1>2 DEF Without
<1>4. Paths' /\ Tree' /\ Forked'
  BY <1>3, StepKeepsTree DEF Walks
<1>5. WalksTyped' /\ Placed'
  <2> SUFFICES ASSUME NEW v \in DOMAIN walk'
               PROVE  /\ walk'[v] \in [at : Nodes, left : 0..MaxItems,
                                pc : {"start", "proposed", "sent", "join", "loop"}]
                      /\ walk'[v].at \in DOMAIN program'.nodes
                      /\ walk'[v].pc \in {"proposed", "sent"} => node(v)'.type = "action"
                      /\ walk'[v].pc = "join" => node(v)'.type = "parallel"
                      /\ walk'[v].pc = "loop" => node(v)'.type = "foreach"
    BY DEF WalksTyped, Placed
  <2>1. CASE v = w
    <3>1. walk'[v] = At(next) /\ next \in Known /\ next \in Nodes
      BY <1>1, <1>3, <2>1
    <3>2. 0 \in 0..MaxItems
      BY DEF IsBounded
    <3> QED BY <3>1, <3>2 DEF At, Known
  <2>2. CASE v # w
    <3>1. v \in DOMAIN walk /\ walk'[v] = walk[v]
      BY <1>3, <2>2
    <3> QED BY <3>1 DEF Walks, WalksTyped, Placed, node
  <2> QED BY <2>1, <2>2
<1>6. QuietUnwind'
  <2>1. CASE phase' = "walking"
    BY <2>1 DEF QuietUnwind
  <2>2. CASE phase' # "walking"
    <3>1. w = << >> /\ walk' = Without({w})
      BY <1>2, <2>2
    <3>2. ASSUME NEW u \in DOMAIN walk PROVE u = w
      <4>1. u \in Seq(Hops) /\ w \in Seq(Hops) /\ Len(w) = 0
        BY <3>1, EmptySeq DEF Walks, Paths
      <4>2. Len(w) <= Len(u) /\ \A i \in 1..Len(w) : w[i] = u[i]
        BY <4>1
      <4>3. IsAbove(w, u)
        BY <4>1, <4>2, AboveIsPointwise
      <4> QED BY <4>3 DEF Alone
    <3>3. DOMAIN walk \ {w} = {}
      BY <3>2
    <3>4. walk' = << >>
      BY <3>1, <3>3, NoWalks DEF Without
    <3> QED BY <3>4 DEF QuietUnwind
  <2> QED BY <2>1, <2>2
<1>7. phase' \in {"walking", "completed"}
  BY <1>2
<1> QED BY <1>2, <1>4, <1>5, <1>6, <1>7 DEF Walks

\* So does one that raises.
LEMMA RaiseKeepsWalks ==
  ASSUME Walks, phase = "walking", program' = program, ctx \subseteq Nodes,
         pending \in Seq(Nodes), committed \in Seq(Nodes),
         NEW w \in DOMAIN walk, Alone(w),
         NEW ending \in {"unwinding", "failed"}, Raise(w, ending)
  PROVE  /\ Walks' /\ ctx' \subseteq Nodes /\ pending' \in Seq(Nodes)
         /\ phase' \in {"walking", "unwinding", "failed"}
<1>1. /\ walk' = Without({v \in DOMAIN walk : IsAbove(Catcher(w), v) /\ IsAbove(v, w)})
      /\ phase' = IF Catcher(w) = << >> THEN ending ELSE phase
      /\ ctx' = ctx /\ pending' \in Seq(Nodes)
  BY DEF Raise
<1>2. Paths' /\ Tree' /\ Forked' /\ (Catcher(w) = << >> => DOMAIN walk' = {})
  BY <1>1, RaiseKeepsTree DEF Walks
<1>3. DOMAIN walk' \subseteq DOMAIN walk /\ \A v \in DOMAIN walk' : walk'[v] = walk[v]
  BY <1>1 DEF Without
<1>4. WalksTyped' /\ Placed'
  BY <1>3 DEF Walks, WalksTyped, Placed, node
<1>5. QuietUnwind'
  <2>1. CASE phase' = "walking"
    BY <2>1 DEF QuietUnwind
  <2>2. CASE phase' # "walking"
    <3>1. DOMAIN walk' = {}
      BY <1>1, <1>2, <2>2
    <3> DEFINE D == DOMAIN walk \ {v \in DOMAIN walk : IsAbove(Catcher(w), v) /\ IsAbove(v, w)}
    <3>2. walk' = [v \in D |-> walk[v]]
      BY <1>1 DEF Without
    <3> HIDE DEF D
    <3>3. D = {}
      BY <3>1, <3>2
    <3>4. walk' = << >>
      BY <3>2, <3>3, NoWalks
    <3> QED BY <3>4 DEF QuietUnwind
  <2> QED BY <2>1, <2>2
<1> QED BY <1>1, <1>2, <1>4, <1>5 DEF Walks
-----------------------------------------------------------------------------

Writes == Whats \X Nodes \X Seq(Hops)

\* What a walk's step owes besides the walks.
LEMMA StepKeepsInv ==
  ASSUME IInv, Walks', program' = program, ctx' \subseteq Nodes, committed' \in Seq(Nodes),
         phase' \in {"walking", "unwinding", "completed", "failed"}, pending' \in Seq(Nodes),
         compensated' = compensated, sent' \subseteq Nodes \X Seq(Hops), effects' \subseteq Writes
  PROVE  IInv'
BY DEF IInv, TypeOK, Walks, Paths, WalksTyped, Writes

\* The adapter writes what it is asked to.
LEMMA HandleIsTyped ==
  ASSUME effects \subseteq Writes, NEW what \in {"do", "undo"}, NEW n \in Nodes,
         NEW path \in Seq(Hops), Handle(what, n, path)
  PROVE  effects' \subseteq Writes
<1>1. what \in Whats /\ Rejected(what) \in Whats
  BY DEF Rejected, Whats
<1> DEFINE e == <<what, n, path>>
           r == <<Rejected(what), n, path>>
<1>2. e \in Writes /\ r \in Writes
  BY <1>1 DEF Writes
<1>3. effects' = effects \/ effects' = effects \cup {e} \/ effects' = effects \cup {r}
  BY DEF Handle
<1> HIDE DEF e, r
<1> QED BY <1>2, <1>3

\* What the lemmas on steps start from.
LEMMA Ready ==
  ASSUME IInv, NEW w \in DOMAIN walk
  PROVE  /\ phase = "walking" /\ w \in Seq(Hops) /\ walk[w].at \in Nodes
         /\ ctx \subseteq Nodes /\ pending \in Seq(Nodes) /\ committed \in Seq(Nodes)
         /\ sent \subseteq Nodes \X Seq(Hops) /\ effects \subseteq Writes
         /\ Walks /\ program \in Programs /\ Closed(program)
         /\ walk[w].pc \notin {"join", "loop"} => Alone(w)
         /\ Children(w) = {} => Alone(w)
<1>1. phase = "walking"
  BY EmptySeq DEF IInv, Walks, QuietUnwind
<1>2. /\ walk[w].pc \notin {"join", "loop"} => Alone(w)
      /\ Children(w) = {} => Alone(w)
  BY LeafIsAlone, ChildlessIsAlone DEF IInv, Walks
<1> QED BY <1>1, <1>2 DEF IInv, TypeOK, Writes

\* A step that raises keeps the invariant.
LEMMA RaisingKeepsInv ==
  ASSUME IInv, NEW w \in DOMAIN walk, Alone(w),
         NEW ending \in {"unwinding", "failed"}, Raise(w, ending),
         UNCHANGED <<program, committed, compensated, adapter>>
  PROVE  IInv'
<1>1. /\ Walks' /\ ctx' \subseteq Nodes /\ pending' \in Seq(Nodes)
      /\ phase' \in {"walking", "unwinding", "failed"}
  BY Ready, RaiseKeepsWalks
<1> QED BY <1>1, Ready, StepKeepsInv DEF adapter

\* So does one that goes on.
LEMMA AdvancingKeepsInv ==
  ASSUME IsBounded, IInv, NEW w \in DOMAIN walk, Alone(w), NEW output,
         Gives(walk[w].at, output), Advance(w, output),
         committed' \in Seq(Nodes), UNCHANGED <<program, pending, compensated, adapter>>
  PROVE  IInv'
<1>1. Walks' /\ ctx' \subseteq Nodes /\ phase' \in {"walking", "completed"}
  BY Ready, AdvanceKeepsWalks
<1> QED BY <1>1, Ready, StepKeepsInv DEF adapter

\* A step after which its walk is where it was.
LEMMA StayingKeepsInv ==
  ASSUME IInv, NEW w \in DOMAIN walk, Alone(w),
         DOMAIN walk' = DOMAIN walk, \A v \in DOMAIN walk \ {w} : walk'[v] = walk[v],
         walk'[w].at = walk[w].at,
         walk'[w] \in [at : Nodes, pc : {"start", "proposed", "sent", "join", "loop"},
                       left : 0..MaxItems],
         walk'[w].pc \in {"proposed", "sent"} => node(w).type = "action",
         walk'[w].pc = "join" => node(w).type = "parallel",
         walk'[w].pc = "loop" => node(w).type = "foreach",
         sent' \subseteq Nodes \X Seq(Hops), effects' \subseteq Writes,
         UNCHANGED <<program, ctx, committed, phase, unwind>>
  PROVE  IInv'
<1>1. Paths' /\ Tree' /\ Forked'
  BY StepKeepsTree DEF IInv, Walks
<1>2. WalksTyped'
  BY DEF IInv, Walks, WalksTyped
<1>3. Placed'
  BY DEF IInv, Walks, Placed, node
<1>4. QuietUnwind'
  BY Ready DEF QuietUnwind
<1>5. Walks'
  BY <1>1, <1>2, <1>3, <1>4 DEF Walks
<1> QED BY <1>5, Ready, StepKeepsInv DEF unwind, IInv, TypeOK
-----------------------------------------------------------------------------
(* One lemma per action.                                                    *)

LEMMA UnresolvedKeeps ==
  ASSUME IsBounded, IInv, NEW w \in DOMAIN walk, Unresolved(w)
  PROVE  IInv'
BY Ready, RaisingKeepsInv DEF Unresolved

LEMMA ProposeKeeps ==
  ASSUME IsBounded, IInv, NEW w \in DOMAIN walk, Propose(w)
  PROVE  IInv'
<1>1. /\ walk[w].pc = "start" /\ node(w).type = "action" /\ Alone(w)
      /\ UNCHANGED <<program, committed, compensated, adapter>>
  BY Ready DEF Propose
<1>2. CASE /\ walk' = [walk EXCEPT ![w].pc = "proposed"]
           /\ UNCHANGED <<ctx, phase, pending>>
  BY <1>1, <1>2, Ready, StayingKeepsInv DEF adapter, unwind, IInv, Walks, WalksTyped
<1>3. CASE Raise(w, "unwinding")
  BY <1>1, <1>3, RaisingKeepsInv
<1>4. CASE Advance(w, "refused") /\ UNCHANGED pending
  <2>1. Gives(walk[w].at, "refused")
    BY <1>1 DEF Gives, node
  <2> QED BY <1>1, <1>4, <2>1, Ready, AdvancingKeepsInv
<1>5. CASE Raise(w, "failed")
  BY <1>1, <1>5, RaisingKeepsInv
<1> QED BY <1>2, <1>3, <1>4, <1>5 DEF Propose

LEMMA SendCommitKeeps ==
  ASSUME IsBounded, IInv, NEW w \in DOMAIN walk, SendCommit(w)
  PROVE  IInv'
<1>1. /\ walk[w].pc = "proposed" /\ Alone(w) /\ node(w).type = "action"
      /\ walk' = [walk EXCEPT ![w].pc = "sent"]
  BY Ready DEF SendCommit, IInv, Walks, Placed
<1>2. effects' \subseteq Writes /\ sent' \subseteq Nodes \X Seq(Hops)
  BY Ready, HandleIsTyped DEF SendCommit
<1> QED BY <1>1, <1>2, StayingKeepsInv DEF SendCommit, IInv, Walks, WalksTyped

LEMMA CommittedKeeps ==
  ASSUME IsBounded, IInv, NEW w \in DOMAIN walk, Committed(w)
  PROVE  IInv'
<1>1. walk[w].pc = "sent" /\ Alone(w) /\ node(w).type = "action"
  BY Ready DEF Committed, IInv, Walks, Placed
<1>2. Gives(walk[w].at, "outcome")
  BY <1>1 DEF Gives, node
<1>3. committed' \in Seq(Nodes)
  BY Ready, AppendProperties DEF Committed
<1> QED BY <1>1, <1>2, <1>3, AdvancingKeepsInv DEF Committed, unwind

LEMMA CommitLostKeeps ==
  ASSUME IsBounded, IInv, NEW w \in DOMAIN walk, CommitLost(w)
  PROVE  IInv'
BY Ready, RaisingKeepsInv DEF CommitLost

LEMMA ComputeKeeps ==
  ASSUME IsBounded, IInv, NEW w \in DOMAIN walk, Compute(w)
  PROVE  IInv'
<1>1. Alone(w) /\ UNCHANGED <<program, committed, compensated, adapter>>
  BY Ready DEF Compute
<1>2. ASSUME NEW output \in Outputs(node(w)), Advance(w, output), UNCHANGED pending
      PROVE  IInv'
  <2>1. Gives(walk[w].at, output)
    BY DEF Gives, node
  <2> QED BY <1>1, <1>2, <2>1, Ready, AdvancingKeepsInv
<1>3. CASE Raise(w, "failed")
  BY <1>1, <1>3, RaisingKeepsInv
<1> QED BY <1>2, <1>3 DEF Compute

LEMMA JoinKeeps ==
  ASSUME IsBounded, IInv, NEW w \in DOMAIN walk, Join(w)
  PROVE  IInv'
<1>1. Alone(w) /\ node(w).type = "parallel"
  BY Ready DEF Join, IInv, Walks, Placed
<1>2. Gives(walk[w].at, "branches")
  BY <1>1 DEF Gives, node
<1> QED BY <1>1, <1>2, Ready, AdvancingKeepsInv DEF Join, unwind

LEMMA LoopKeeps ==
  ASSUME IsBounded, IInv, NEW w \in DOMAIN walk, Loop(w)
  PROVE  IInv'
<1>1. walk[w].pc = "start" /\ node(w).type = "foreach" /\ Alone(w)
  BY Ready DEF Loop
<1>2. PICK k \in 0..MaxItems : walk' = [walk EXCEPT ![w].pc = "loop", ![w].left = k]
  BY DEF Loop
<1>3. /\ walk'[w].at = walk[w].at /\ walk'[w].pc = "loop"
      /\ walk'[w] \in [at : Nodes, pc : {"start", "proposed", "sent", "join", "loop"},
                       left : 0..MaxItems]
      /\ DOMAIN walk' = DOMAIN walk /\ \A v \in DOMAIN walk \ {w} : walk'[v] = walk[v]
  BY <1>2 DEF IInv, Walks, WalksTyped
<1>4. /\ UNCHANGED <<program, ctx, committed, phase, unwind>>
      /\ sent' \subseteq Nodes \X Seq(Hops) /\ effects' \subseteq Writes
  BY Ready DEF Loop, adapter
<1> QED BY <1>1, <1>3, <1>4, StayingKeepsInv
-----------------------------------------------------------------------------

\* A step that starts walks.
LEMMA StartingKeepsInv ==
  ASSUME IsBounded, IInv, NEW w \in DOMAIN walk, Alone(w),
         NEW below \in SUBSET Seq(Hops),
         \A c \in below : Len(c) = Len(w) + 1 /\ \A i \in 1..Len(w) : c[i] = w[i],
         \A c, d \in below : c = d \/ (c[Len(c)][1] = "branch" /\ d[Len(d)][1] = "branch"),
         DOMAIN walk' = DOMAIN walk \cup below,
         \A v \in DOMAIN walk \ {w} : walk'[v] = walk[v],
         \A c \in below : \E n \in Known : walk'[c] = At(n),
         walk'[w].at = walk[w].at,
         walk'[w] \in [at : Nodes, pc : {"join", "loop"}, left : 0..MaxItems],
         walk'[w].pc = "join" => node(w).type = "parallel",
         walk'[w].pc = "loop" => node(w).type = "foreach",
         UNCHANGED <<program, ctx, committed, phase, unwind, adapter>>
  PROVE  IInv'
<1>1. Paths' /\ Tree' /\ Forked'
  BY AddKeepsTree DEF IInv, Walks
<1>2. ASSUME NEW v \in DOMAIN walk'
      PROVE  /\ walk'[v] \in [at : Nodes, left : 0..MaxItems,
                       pc : {"start", "proposed", "sent", "join", "loop"}]
             /\ walk'[v].at \in DOMAIN program'.nodes
             /\ walk'[v].pc \in {"proposed", "sent"} => node(v)'.type = "action"
             /\ walk'[v].pc = "join" => node(v)'.type = "parallel"
             /\ walk'[v].pc = "loop" => node(v)'.type = "foreach"
  <2>1. CASE v = w
    BY <2>1 DEF node, IInv, Walks, Placed
  <2>2. CASE v \in DOMAIN walk \ {w}
    BY <2>2 DEF IInv, Walks, WalksTyped, Placed, node
  <2>3. CASE v \in below
    <3>1. PICK n \in Known : walk'[v] = At(n)
      BY <2>3
    <3>2. n \in Nodes /\ n \in DOMAIN program'.nodes /\ 0 \in 0..MaxItems
      BY DEF Known, IsBounded, IsProgram, IInv
    <3> QED BY <3>1, <3>2 DEF At
  <2> QED BY <2>1, <2>2, <2>3
<1>3. WalksTyped' /\ Placed'
  BY <1>2 DEF WalksTyped, Placed
<1>4. QuietUnwind'
  BY Ready DEF QuietUnwind
<1>5. Walks'
  BY <1>1, <1>3, <1>4 DEF Walks
<1> QED BY <1>5, Ready, StepKeepsInv DEF unwind, adapter, IInv, TypeOK

\* The path of a branch or an item of a walk.
LEMMA Below ==
  ASSUME NEW w \in Seq(Hops), NEW kind \in {"branch", "item"}, NEW i \in Nat \ {0}
  PROVE  /\ Append(w, <<kind, i>>) \in Seq(Hops)
         /\ Len(Append(w, <<kind, i>>)) = Len(w) + 1
         /\ \A j \in 1..Len(w) : Append(w, <<kind, i>>)[j] = w[j]
         /\ Append(w, <<kind, i>>)[Len(w) + 1] = <<kind, i>>
<1>1. <<kind, i>> \in Hops
  BY DEF Hops
<1> QED BY <1>1, AppendProperties

LEMMA ForkKeeps ==
  ASSUME IsBounded, IInv, NEW w \in DOMAIN walk, Fork(w)
  PROVE  IInv'
<1> DEFINE branches == node(w).branches
           below == {Append(w, <<"branch", i>>) : i \in DOMAIN branches}
<1>1. walk[w].pc = "start" /\ node(w).type = "parallel" /\ Alone(w) /\ w \in Seq(Hops)
  BY Ready DEF Fork
<1>2. node(w) \in Node /\ walk[w].at \in Known
  BY DEF node, Known, IInv, Walks, Placed, IsBounded, IsProgram
<1>3. branches \in Seq(Nodes) /\ DOMAIN branches \subseteq Nat \ {0}
  BY <1>1, <1>2 DEF Node
<1>4. \A i \in DOMAIN branches : branches[i] \in Known
  BY <1>1, <1>2 DEF Closed, IInv, Known, node
<1>5. walk' = [v \in DOMAIN walk \cup below |->
                 IF v = w THEN [walk[w] EXCEPT !.pc = "join"]
                 ELSE IF v \in below THEN At(branches[v[Len(v)][2]])
                 ELSE walk[v]]
  BY DEF Fork
<1>6. ASSUME NEW c \in below
      PROVE  /\ c \in Seq(Hops) /\ Len(c) = Len(w) + 1
             /\ \A j \in 1..Len(w) : c[j] = w[j]
             /\ c[Len(c)][1] = "branch" /\ c[Len(c)][2] \in DOMAIN branches
  <2>1. PICK i \in DOMAIN branches : c = Append(w, <<"branch", i>>)
    OBVIOUS
  <2> QED BY <1>1, <1>3, <2>1, Below
<1>7. ASSUME NEW v \in DOMAIN walk, v # w PROVE v \notin below
  <2> SUFFICES ASSUME v \in below PROVE FALSE
    OBVIOUS
  <2>1. Len(v) = Len(w) + 1 /\ v \in Seq(Hops) /\ \A j \in 1..Len(w) : w[j] = v[j]
    BY <1>6
  <2>2. Len(w) <= Len(v)
    BY <1>1, <2>1
  <2>3. IsAbove(w, v)
    BY <1>1, <2>1, <2>2, AboveIsPointwise
  <2> QED BY <1>1, <1>7, <2>3 DEF Alone
<1>8. w \notin below
  BY <1>1, <1>6
<1>9. ASSUME NEW c \in below PROVE \E n \in Known : walk'[c] = At(n)
  <2>1. c # w /\ walk'[c] = At(branches[c[Len(c)][2]])
    BY <1>5, <1>8
  <2> QED BY <1>4, <1>6, <2>1
<1>10. /\ DOMAIN walk' = DOMAIN walk \cup below
       /\ \A v \in DOMAIN walk \ {w} : walk'[v] = walk[v]
       /\ walk'[w] = [walk[w] EXCEPT !.pc = "join"]
  BY <1>5, <1>7
<1>11. /\ walk'[w].at = walk[w].at /\ walk'[w].pc = "join"
       /\ walk'[w] \in [at : Nodes, pc : {"join", "loop"}, left : 0..MaxItems]
  BY <1>10 DEF IInv, Walks, WalksTyped
<1>12. UNCHANGED <<program, ctx, committed, phase, unwind, adapter>>
  BY DEF Fork
<1> HIDE DEF below, branches
<1>13. /\ below \in SUBSET Seq(Hops)
       /\ \A c \in below : Len(c) = Len(w) + 1 /\ \A i \in 1..Len(w) : c[i] = w[i]
       /\ \A c, d \in below : c = d \/ (c[Len(c)][1] = "branch" /\ d[Len(d)][1] = "branch")
       /\ \A c \in below : \E n \in Known : walk'[c] = At(n)
  BY <1>6, <1>9
<1>14. /\ walk'[w].pc = "join" => node(w).type = "parallel"
       /\ walk'[w].pc = "loop" => node(w).type = "foreach"
  BY <1>1, <1>11
<1> QED BY <1>1, <1>10, <1>11, <1>12, <1>13, <1>14, StartingKeepsInv, ZenonT(40)

LEMMA NextItemKeeps ==
  ASSUME IsBounded, IInv, NEW w \in DOMAIN walk, NextItem(w)
  PROVE  IInv'
<1>1. /\ walk[w].pc = "loop" /\ node(w).type = "foreach" /\ Alone(w) /\ w \in Seq(Hops)
      /\ walk[w].at \in Known
  BY Ready DEF NextItem, IInv, Walks, Placed, Known
<1>2. CASE walk[w].left = 0 /\ Advance(w, "count")
  <2>1. Gives(walk[w].at, "count")
    BY <1>1 DEF Gives, node
  <2> QED BY <1>1, <1>2, <2>1, Ready, AdvancingKeepsInv DEF NextItem, unwind
<1>3. CASE walk[w].left > 0
  <2> DEFINE child == Append(w, <<"item", walk[w].left>>)
             below == {child}
  <2>1. walk[w].left \in Nat \ {0} /\ walk[w].left - 1 \in 0..MaxItems
    BY <1>3 DEF IInv, Walks, WalksTyped, IsBounded
  <2>2. /\ child \in Seq(Hops) /\ Len(child) = Len(w) + 1
        /\ \A j \in 1..Len(w) : child[j] = w[j]
    BY <1>1, <2>1, Below
  <2>3. node(w).body \in Known
    BY <1>1 DEF Closed, IInv, Known, node
  <2>4. walk' = [v \in DOMAIN walk \cup {child} |->
                   IF v = w THEN [walk[w] EXCEPT !.left = @ - 1]
                   ELSE IF v = child THEN At(node(w).body)
                   ELSE walk[v]]
    BY <1>3 DEF NextItem
  <2>5. UNCHANGED <<program, ctx, committed, phase, unwind, adapter>>
    BY <1>3 DEF NextItem
  <2>6. w # child
    BY <1>1, <2>2
  <2>7. ASSUME NEW v \in DOMAIN walk, v # w PROVE v # child
    <3> SUFFICES ASSUME v = child PROVE FALSE
      OBVIOUS
    <3>1. Len(w) <= Len(v) /\ v \in Seq(Hops) /\ \A j \in 1..Len(w) : w[j] = v[j]
      BY <1>1, <2>2
    <3>2. IsAbove(w, v)
      BY <1>1, <3>1, AboveIsPointwise
    <3> QED BY <1>1, <2>7, <3>2 DEF Alone
  <2> HIDE DEF child
  <2>8. /\ DOMAIN walk' = DOMAIN walk \cup below
        /\ \A v \in DOMAIN walk \ {w} : walk'[v] = walk[v]
        /\ walk'[w] = [walk[w] EXCEPT !.left = @ - 1]
        /\ \A c \in below : \E n \in Known : walk'[c] = At(n)
    BY <2>3, <2>4, <2>6, <2>7
  <2>9. /\ walk'[w].at = walk[w].at /\ walk'[w].pc = "loop"
        /\ walk'[w] \in [at : Nodes, pc : {"join", "loop"}, left : 0..MaxItems]
    BY <1>1, <2>1, <2>8 DEF IInv, Walks, WalksTyped
  <2>10. /\ below \in SUBSET Seq(Hops)
         /\ \A c \in below : Len(c) = Len(w) + 1 /\ \A i \in 1..Len(w) : c[i] = w[i]
         /\ \A c, d \in below : c = d \/ (c[Len(c)][1] = "branch" /\ d[Len(d)][1] = "branch")
    BY <2>2
  <2>11. /\ walk'[w].pc = "join" => node(w).type = "parallel"
         /\ walk'[w].pc = "loop" => node(w).type = "foreach"
    BY <1>1, <2>9
  <2> HIDE DEF below
  <2> QED BY <1>1, <2>5, <2>8, <2>9, <2>10, <2>11, StartingKeepsInv, ZenonT(40)
<1> QED BY <1>2, <1>3 DEF NextItem
-----------------------------------------------------------------------------

\* The steps of the unwind keep the invariant.
LEMMA UndoKeeps ==
  ASSUME IsBounded, IInv, UndoPropose \/ UndoCommit
  PROVE  IInv'
<1>1. /\ walk = << >> /\ UNCHANGED <<walk, program, ctx, committed, sent>>
      /\ phase' \in {"unwinding", "undoing", "halted", "failed"}
  BY DEF UndoPropose, UndoCommit, Ends, unwind, adapter, IInv, Walks, QuietUnwind
<1>2. Walks'
  BY <1>1 DEF IInv, Walks, Paths, WalksTyped, Placed, node, Tree, Forked, Parted, QuietUnwind
<1>3. CASE UndoPropose
  <2>1. UNCHANGED <<unwind, effects>> /\ (phase' = "undoing" => pending # << >>)
    BY <1>3 DEF UndoPropose, Ends, adapter
  <2> QED BY <1>1, <1>2, <2>1 DEF IInv, TypeOK, unwind
<1>4. CASE UndoCommit
  <2>1. pending # << >> /\ pending \in Seq(Nodes) /\ compensated \in Seq(Nodes)
    BY <1>4 DEF UndoCommit, IInv, TypeOK
  <2>2. /\ Newest(pending) \in Nodes
        /\ SubSeq(pending, 1, Len(pending) - 1) \in Seq(Nodes)
    BY <2>1 DEF Newest
  <2>3. pending' \in Seq(Nodes) /\ compensated' \in Seq(Nodes) /\ phase' # "undoing"
    <3>1. CASE /\ phase' = "unwinding"
               /\ compensated' = Append(compensated, Newest(pending))
               /\ pending' = SubSeq(pending, 1, Len(pending) - 1)
      BY <2>1, <2>2, <3>1, AppendProperties
    <3>2. CASE phase' = "failed" /\ UNCHANGED unwind
      BY <2>1, <3>2 DEF unwind
    <3> QED BY <1>4, <3>1, <3>2 DEF UndoCommit
  <2>4. effects' \subseteq Writes
    <3>1. effects \subseteq Writes /\ << >> \in Seq(Hops)
      BY EmptySeq DEF IInv, TypeOK, Writes
    <3> QED BY <1>4, <2>2, <3>1, HandleIsTyped DEF UndoCommit
  <2> QED BY <1>1, <1>2, <2>3, <2>4 DEF IInv, TypeOK, Writes
<1> QED BY <1>3, <1>4

\* It holds at the start.
LEMMA InitInv ==
  ASSUME IsBounded, NEW p \in Programs, Begin(p), Closed(p)
  PROVE  IInv
<1>2. /\ program = p /\ IsProgram(p) /\ 0 \in 0..MaxItems
      /\ << >> \in Seq(Hops) /\ << >> \in Seq(Nodes)
  BY EmptySeq DEF IsBounded, Begin
<1>3. /\ DOMAIN walk = {<< >>} /\ walk[<< >>] = At(p.entry)
      /\ p.entry \in DOMAIN p.nodes /\ p.entry \in Nodes
  BY <1>2 DEF Begin, Closed, IsProgram
<1>4. Paths /\ WalksTyped /\ Placed /\ QuietUnwind
  BY <1>2, <1>3 DEF Paths, WalksTyped, Placed, QuietUnwind, At, node, Begin
<1>5. Tree /\ Forked
  <2>1. Len(<< >>) = 0 /\ IsAbove(<< >>, << >>)
    <3>1. Len(<< >>) = 0
      BY EmptySeq
    <3>2. IsAbove(<< >>, << >>)
      BY <1>2, AboveIsReflexive
    <3> QED BY <3>1, <3>2
  <2> QED BY <1>3, <2>1 DEF Tree, Forked
<1> QED BY <1>2, <1>3, <1>4, <1>5 DEF IInv, Walks, TypeOK, Begin, Paths, WalksTyped

\* Every step keeps it.
LEMMA NextInv ==
  ASSUME IsBounded, IInv, [Next]_vars
  PROVE  IInv'
<1>1. ASSUME NEW w \in DOMAIN walk, WalkStep(w) PROVE IInv'
  BY <1>1, UnresolvedKeeps, ProposeKeeps, SendCommitKeeps, CommittedKeeps, CommitLostKeeps,
     ComputeKeeps, ForkKeeps, JoinKeeps, LoopKeeps, NextItemKeeps DEF WalkStep
<1>2. CASE UndoPropose \/ UndoCommit
  BY <1>2, UndoKeeps
<1>3. CASE UNCHANGED vars
  BY <1>3 DEF vars, unwind, adapter, IInv, TypeOK, Walks, Paths, WalksTyped, Placed, node,
              Tree, Forked, Parted, QuietUnwind
<1> QED BY <1>1, <1>2, <1>3 DEF Next, Walk

\* A walk's step undoes nothing, and starts the unwind with all that is committed.
LEMMA WalkUndoesNothing ==
  ASSUME IsBounded, IInv, NEW w \in DOMAIN walk, WalkStep(w)
  PROVE  /\ phase = "walking" /\ compensated' = compensated
         /\ \A n \in Nodes : Tried("undo", n)' <=> Tried("undo", n)
         /\ phase' \in {"unwinding", "undoing", "halted"} =>
              pending' = committed /\ committed' = committed
<1>1. phase = "walking"
  BY Ready
<1>2. compensated' = compensated
  BY DEF WalkStep, Unresolved, Propose, SendCommit, Committed, CommitLost, Compute, Fork,
         Join, Loop, NextItem, unwind
<1>3. \A n \in Nodes : Tried("undo", n)' <=> Tried("undo", n)
  <2>1. CASE UNCHANGED effects
    BY <2>1 DEF Tried
  <2>2. CASE SendCommit(w)
    <3>1. PICK what \in {"do", "do rejected"} :
            effects' = effects \/ effects' = effects \cup {<<what, walk[w].at, w>>}
      BY <2>2 DEF SendCommit, Handle, Rejected
    <3> DEFINE e == <<what, walk[w].at, w>>
    <3>2. /\ e[1] \notin {"undo", Rejected("undo")}
          /\ effects' = effects \/ effects' = effects \cup {e}
      BY <3>1 DEF Rejected
    <3> HIDE DEF e
    <3> QED BY <3>2 DEF Tried
  <2> QED BY <2>1, <2>2 DEF WalkStep, Unresolved, Propose, Committed, CommitLost, Compute,
                           Fork, Join, Loop, NextItem, adapter
<1>4. ASSUME phase' \in {"unwinding", "undoing", "halted"}
      PROVE  pending' = committed /\ committed' = committed
  <2>1. ASSUME NEW output, Advance(w, output) PROVE FALSE
    BY <1>1, <1>4, <2>1 DEF Advance
  <2>2. phase' # phase
    BY <1>1, <1>4
  <2>3. ~UNCHANGED <<ctx, phase>> /\ ~UNCHANGED <<program, ctx, committed, phase, unwind>>
    BY <2>2
  <2>4. /\ ~SendCommit(w) /\ ~Committed(w) /\ ~Join(w) /\ ~NextItem(w)
        /\ ~Fork(w) /\ ~Loop(w)
    BY <2>1, <2>2, <2>3 DEF SendCommit, Committed, Join, NextItem, Fork, Loop
  <2>5. ASSUME NEW ending \in {"unwinding", "failed"}, Raise(w, ending)
        PROVE  pending' = committed
    BY <1>1, <1>4, <2>5 DEF Raise
  <2>6. CASE Unresolved(w) \/ CommitLost(w)
    BY <2>5, <2>6 DEF Unresolved, CommitLost
  <2>7. CASE Propose(w)
    BY <2>1, <2>2, <2>5, <2>7 DEF Propose
  <2>8. CASE Compute(w)
    BY <2>1, <2>5, <2>8 DEF Compute
  <2> QED BY <2>4, <2>6, <2>7, <2>8 DEF WalkStep
<1> QED BY <1>1, <1>2, <1>3, <1>4

\* What the unwind has not reached is what was committed before what it has undone.
Backwards ==
  /\ phase = "walking" => compensated = << >>
  /\ phase \in {"unwinding", "undoing", "halted"} =>
       pending = SubSeq(committed, 1, Len(committed) - Len(compensated))
  /\ UndoneBackwards

\* The unwind keeps its place.
LEMMA BackwardsStep ==
  ASSUME IsBounded, IInv, Backwards, [Next]_vars
  PROVE  Backwards'
<1>1. ASSUME NEW w \in DOMAIN walk, WalkStep(w) PROVE Backwards'
  <2>1. compensated' = << >> /\ Len(compensated') = 0
    BY <1>1, WalkUndoesNothing, EmptySeq DEF Backwards
  <2>2. committed \in Seq(Nodes) /\ committed' \in Seq(Nodes)
    BY <1>1, NextInv DEF IInv, TypeOK, Next, Walk
  <2>3. phase' \in {"unwinding", "undoing", "halted"} =>
          pending' = SubSeq(committed', 1, Len(committed') - Len(compensated'))
    <3>1. committed = SubSeq(committed, 1, Len(committed))
      BY <2>2
    <3> QED BY <1>1, <2>1, <2>2, <3>1, WalkUndoesNothing
  <2> QED BY <2>1, <2>2, <2>3 DEF Backwards, UndoneBackwards
<1>2. CASE UndoPropose
  <2>1. phase = "unwinding" /\ UNCHANGED <<committed, pending, compensated>> /\ phase' # "walking"
    BY <1>2 DEF UndoPropose, Ends, unwind
  <2> QED BY <2>1 DEF Backwards, UndoneBackwards
<1>3. CASE UndoCommit
  <2>1. CASE phase' = "failed"
    BY <2>1 DEF Backwards, UndoneBackwards
  <2>2. CASE /\ phase' = "unwinding"
             /\ compensated' = Append(compensated, Newest(pending))
             /\ pending' = SubSeq(pending, 1, Len(pending) - 1)
    <3> DEFINE k == Len(compensated)
               m == Len(committed)
    <3>1. /\ committed \in Seq(Nodes) /\ compensated \in Seq(Nodes) /\ pending \in Seq(Nodes)
          /\ committed' = committed /\ pending # << >> /\ phase = "undoing"
          /\ k \in Nat /\ m \in Nat
      BY <1>3 DEF UndoCommit, IInv, TypeOK
    <3>2. /\ pending = SubSeq(committed, 1, m - k) /\ k <= m
          /\ \A i \in 1..k : compensated[i] = committed[m + 1 - i]
      BY <3>1 DEF Backwards, UndoneBackwards
    <3>3. k < m /\ Len(pending) = m - k /\ \A i \in 1..(m - k) : pending[i] = committed[i]
      BY <3>1, <3>2, SubSeqProperties, EmptySeq
    <3>4. Newest(pending) = committed[m - k]
      BY <3>1, <3>3 DEF Newest
    <3>5. /\ compensated' \in Seq(Nodes) /\ Len(compensated') = k + 1
          /\ \A i \in 1..k : compensated'[i] = compensated[i]
          /\ compensated'[k + 1] = committed[m - k]
      BY <2>2, <3>1, <3>3, <3>4, AppendProperties
    <3>6. pending' = SubSeq(committed', 1, Len(committed') - Len(compensated'))
      <4>1. SubSeq(pending, 1, m - k - 1) = SubSeq(committed, 1, m - k - 1)
        BY <3>1, <3>2, <3>3, SubSeqProperties
      <4> QED BY <2>2, <3>1, <3>3, <3>5, <4>1
    <3>7. ASSUME NEW i \in 1..Len(compensated')
          PROVE  compensated'[i] = committed'[Len(committed') + 1 - i]
      <4>1. CASE i = k + 1
        BY <3>1, <3>5, <4>1
      <4>2. CASE i \in 1..k
        BY <3>1, <3>2, <3>5, <4>2
      <4> QED BY <3>1, <3>5, <4>1, <4>2
    <3>8. Len(compensated') <= Len(committed')
      BY <3>1, <3>3, <3>5
    <3> QED BY <2>2, <3>6, <3>7, <3>8 DEF Backwards, UndoneBackwards
  <2> QED BY <1>3, <2>1, <2>2 DEF UndoCommit
<1>4. CASE UNCHANGED vars
  BY <1>4 DEF vars, unwind, Backwards, UndoneBackwards
<1> QED BY <1>1, <1>2, <1>3, <1>4 DEF Next, Walk

\* The adapter has written or rejected step n's compensation.
Attempted(n, writes) == \E e \in writes : e[1] \in {"undo", "undo rejected"} /\ e[2] = n

\* The unwind's COMMIT is for the newest step that is pending, and no other.
LEMMA UndoWrites ==
  ASSUME UndoCommit, NEW n
  PROVE  Attempted(n, effects') <=> Attempted(n, effects) \/ n = Newest(pending)
<1>1. \/ effects' = effects /\ Attempted(Newest(pending), effects)
      \/ \E what \in {"undo", "undo rejected"} :
           effects' = effects \cup {<<what, Newest(pending), << >>>>}
  BY DEF UndoCommit, Handle, Key, Attempted, Rejected
<1>2. CASE effects' = effects /\ Attempted(Newest(pending), effects)
  BY <1>2
<1>3. ASSUME NEW what \in {"undo", "undo rejected"},
             effects' = effects \cup {<<what, Newest(pending), << >>>>}
      PROVE  Attempted(n, effects') <=> Attempted(n, effects) \/ n = Newest(pending)
  <2> DEFINE e == <<what, Newest(pending), << >>>>
  <2>1. e[1] \in {"undo", "undo rejected"} /\ e[2] = Newest(pending) /\ effects' = effects \cup {e}
    BY <1>3
  <2> HIDE DEF e
  <2>2. CASE n = Newest(pending)
    BY <2>1, <2>2 DEF Attempted
  <2>3. CASE n # Newest(pending)
    BY <2>1, <2>3 DEF Attempted
  <2> QED BY <2>2, <2>3
<1> QED BY <1>1, <1>2, <1>3

\* What is undone or rejected is reported, and nothing else.
LEMMA ReportStep ==
  ASSUME IsBounded, IInv, ReportIsTrue, [Next]_vars
  PROVE  ReportIsTrue'
<1>1. ASSUME NEW w \in DOMAIN walk, WalkStep(w) PROVE ReportIsTrue'
  BY <1>1, WalkUndoesNothing DEF ReportIsTrue
<1>2. CASE UndoPropose
  <2>1. phase # "failed" /\ UNCHANGED <<compensated, effects>>
    BY <1>2 DEF UndoPropose, Ends, unwind, adapter
  <2> QED BY <2>1 DEF ReportIsTrue, Tried
<1>3. CASE UndoCommit
  <2>1. CASE phase' = "failed"
    BY <2>1 DEF ReportIsTrue
  <2>2. CASE phase' = "unwinding" /\ compensated' = Append(compensated, Newest(pending))
    <3>1. /\ phase # "failed" /\ compensated \in Seq(Nodes) /\ Newest(pending) \in Nodes
          /\ Len(compensated) \in Nat
      BY <1>3 DEF UndoCommit, IInv, TypeOK, Newest
    <3>2. ASSUME NEW n \in Nodes
          PROVE  Tried("undo", n)' <=> Tried("undo", n) \/ n = Newest(pending)
      <4>1. Tried("undo", n)' <=> Attempted(n, effects')
        BY DEF Tried, Attempted, Rejected
      <4>2. Tried("undo", n) <=> Attempted(n, effects)
        BY DEF Tried, Attempted, Rejected
      <4> QED BY <1>3, <4>1, <4>2, UndoWrites
    <3>3. ASSUME NEW n \in Nodes
          PROVE  (\E i \in 1..Len(compensated') : compensated'[i] = n)
                   <=> (\E i \in 1..Len(compensated) : compensated[i] = n) \/ n = Newest(pending)
      <4>1. /\ Len(compensated') = Len(compensated) + 1
            /\ \A i \in 1..Len(compensated) : compensated'[i] = compensated[i]
            /\ compensated'[Len(compensated) + 1] = Newest(pending)
        BY <2>2, <3>1, AppendProperties
      <4> QED BY <3>1, <4>1
    <3> QED BY <3>1, <3>2, <3>3 DEF ReportIsTrue
  <2> QED BY <1>3, <2>1, <2>2 DEF UndoCommit
<1>4. CASE UNCHANGED vars
  BY <1>4 DEF vars, unwind, adapter, ReportIsTrue, Tried
<1> QED BY <1>1, <1>2, <1>3, <1>4 DEF Next, Walk
-----------------------------------------------------------------------------

\* Step n of plan p is an action.
IsAction(p, n) == n \in DOMAIN p.nodes /\ p.nodes[n].type = "action"

Before(steps, n, i) == \E j \in 1..(i - 1) : steps[j] = n

\* An output that is known is a step's that was committed, so a step comes after those
\* whose output it uses.
Grounded(p, steps, known) ==
  /\ \A n \in known : IsAction(p, n) => Before(steps, n, Len(steps) + 1)
  /\ \A i \in 1..Len(steps) :
       /\ IsAction(p, steps[i])
       /\ \A n \in p.nodes[steps[i]].uses : IsAction(p, n) => Before(steps, n, i)

\* A proposal was made with what its step uses.
Supplied == \A w \in DOMAIN walk : walk[w].pc \in {"proposed", "sent"} => node(w).uses \subseteq ctx

Sourced == Grounded(program, committed, ctx) /\ Supplied

\* What was known for a proposal stays known.
LEMMA SuppliesStay ==
  ASSUME Supplied, program' = program, ctx \subseteq ctx',
         \A v \in DOMAIN walk' : walk'[v].pc \in {"proposed", "sent"} =>
           \/ v \in DOMAIN walk /\ walk[v] = walk'[v]
           \/ v \in DOMAIN walk /\ walk[v].at = walk'[v].at /\ node(v).uses \subseteq ctx
  PROVE  Supplied'
<1> SUFFICES ASSUME NEW v \in DOMAIN walk', walk'[v].pc \in {"proposed", "sent"}
             PROVE  program'.nodes[walk'[v].at].uses \subseteq ctx'
  BY DEF Supplied, node
<1> QED BY DEF Supplied, node

\* A step that commits nothing and makes no action's output known.
LEMMA NothingNewSources ==
  ASSUME Sourced, UNCHANGED <<program, committed>>, ctx \subseteq ctx',
         \A n \in ctx' \ ctx : ~IsAction(program, n),
         \A v \in DOMAIN walk' : walk'[v].pc \in {"proposed", "sent"} =>
           \/ v \in DOMAIN walk /\ walk[v] = walk'[v]
           \/ v \in DOMAIN walk /\ walk[v].at = walk'[v].at /\ node(v).uses \subseteq ctx
  PROVE  Sourced'
<1>1. Supplied'
  BY SuppliesStay DEF Sourced
<1>2. Grounded(program, committed, ctx')
  BY DEF Sourced, Grounded
<1> QED BY <1>1, <1>2 DEF Sourced

\* A walk that goes on starts its next step.
LEMMA AdvanceStarts ==
  ASSUME NEW w \in DOMAIN walk, NEW output, Advance(w, output)
  PROVE  /\ \A v \in DOMAIN walk' : walk'[v].pc \in {"proposed", "sent"} =>
              v \in DOMAIN walk /\ walk[v] = walk'[v]
         /\ ctx' = ctx \/ ctx' = ctx \cup {walk[w].at}
         /\ output = "refused" => ctx' = ctx
BY DEF Advance, Without, At

\* A walk that raises starts none.
LEMMA RaiseStarts ==
  ASSUME NEW w \in DOMAIN walk, NEW ending, Raise(w, ending)
  PROVE  /\ \A v \in DOMAIN walk' : v \in DOMAIN walk /\ walk[v] = walk'[v]
         /\ ctx' = ctx
BY DEF Raise, Without

LEMMA RaisingSources ==
  ASSUME Sourced, NEW w \in DOMAIN walk, NEW ending, Raise(w, ending),
         UNCHANGED <<program, committed>>
  PROVE  Sourced'
BY RaiseStarts, NothingNewSources

\* A step that is no action's.
LEMMA AdvancingSources ==
  ASSUME Sourced, NEW w \in DOMAIN walk, NEW output, Advance(w, output),
         node(w).type # "action" \/ output = "refused", UNCHANGED <<program, committed>>
  PROVE  Sourced'
<1>1. \A n \in ctx' \ ctx : ~IsAction(program, n)
  BY AdvanceStarts DEF IsAction, node
<1>2. ctx \subseteq ctx'
  BY AdvanceStarts
<1> QED BY <1>1, <1>2, AdvanceStarts, NothingNewSources

\* One more step that has what it uses.
LEMMA OneMore ==
  ASSUME NEW p, NEW steps \in Seq(Nodes), NEW known, Grounded(p, steps, known),
         NEW a \in Nodes, IsAction(p, a), p.nodes[a].uses \subseteq known,
         NEW more, more \subseteq known \cup {a}
  PROVE  Grounded(p, Append(steps, a), more)
<1> DEFINE m == Len(steps)
           t == Append(steps, a)
<1>1. /\ m \in Nat /\ Len(t) = m + 1 /\ t[m + 1] = a
      /\ \A i \in 1..m : t[i] = steps[i]
  BY AppendProperties
<1> HIDE DEF t
<1>2. ASSUME NEW n, NEW i \in 1..(m + 1), Before(steps, n, i) PROVE Before(t, n, i)
  <2>1. PICK j \in 1..(i - 1) : steps[j] = n
    BY <1>2 DEF Before
  <2>2. j \in 1..m
    BY <1>1
  <2> QED BY <1>1, <2>1, <2>2 DEF Before
<1>3. ASSUME NEW n \in more, IsAction(p, n) PROVE Before(t, n, Len(t) + 1)
  <2>1. CASE n = a
    <3>1. m + 1 \in 1..(Len(t) + 1 - 1) /\ t[m + 1] = n
      BY <1>1, <2>1
    <3> QED BY <3>1 DEF Before
  <2>2. CASE n \in known
    <3>1. PICK j \in 1..(m + 1 - 1) : steps[j] = n
      BY <1>3, <2>2 DEF Grounded, Before
    <3>2. j \in 1..m /\ j \in 1..(Len(t) + 1 - 1)
      BY <1>1
    <3> QED BY <1>1, <3>1, <3>2 DEF Before
  <2> QED BY <2>1, <2>2
<1>4. ASSUME NEW i \in 1..Len(t)
      PROVE  /\ IsAction(p, t[i])
             /\ \A n \in p.nodes[t[i]].uses : IsAction(p, n) => Before(t, n, i)
  <2>1. CASE i = m + 1
    <3>1. \A n \in p.nodes[a].uses : IsAction(p, n) => Before(steps, n, m + 1)
      BY DEF Grounded
    <3>2. m + 1 \in 1..(m + 1) /\ t[i] = a
      BY <1>1, <2>1
    <3> QED BY <1>2, <2>1, <3>1, <3>2
  <2>2. CASE i \in 1..m
    <3>1. t[i] = steps[i] /\ i \in 1..(m + 1)
      BY <1>1, <2>2
    <3>2. /\ IsAction(p, steps[i])
          /\ \A n \in p.nodes[steps[i]].uses : IsAction(p, n) => Before(steps, n, i)
      BY <2>2 DEF Grounded
    <3> QED BY <1>2, <3>1, <3>2
  <2> QED BY <1>1, <2>1, <2>2
<1>5. Grounded(p, t, more)
  BY <1>3, <1>4 DEF Grounded
<1> QED BY <1>5 DEF t

\* Something is committed before it counts as known, and was proposed with what it uses.
LEMMA CommittedSources ==
  ASSUME IInv, Sourced, NEW w \in DOMAIN walk, Committed(w)
  PROVE  Sourced'
<1> DEFINE a == walk[w].at
<1>1. /\ committed \in Seq(Nodes) /\ a \in Nodes
      /\ committed' = Append(committed, a) /\ program' = program
      /\ walk[w].pc = "sent" /\ Advance(w, "outcome")
  BY Ready DEF Committed
<1>2. ctx' \subseteq ctx \cup {a} /\ ctx \subseteq ctx'
  BY <1>1, AdvanceStarts
<1>3. IsAction(program, a) /\ program.nodes[a].uses \subseteq ctx
  BY <1>1 DEF IsAction, IInv, Walks, Placed, node, Sourced, Supplied
<1>4. Grounded(program, committed, ctx)
  BY DEF Sourced
<1>5. Grounded(program, Append(committed, a), ctx')
  BY <1>1, <1>2, <1>3, <1>4, OneMore
<1>6. Supplied'
  BY <1>1, <1>2, AdvanceStarts, SuppliesStay DEF Sourced
<1> QED BY <1>1, <1>5, <1>6 DEF Sourced

\* The walks and the unwind keep it.
LEMMA SourcedStep ==
  ASSUME IsBounded, IInv, Sourced, [Next]_vars
  PROVE  Sourced'
<1>1. ASSUME NEW w \in DOMAIN walk, Unresolved(w) \/ CommitLost(w) PROVE Sourced'
  BY <1>1, RaisingSources DEF Unresolved, CommitLost
<1>2. ASSUME NEW w \in DOMAIN walk, Propose(w) PROVE Sourced'
  <2>1. UNCHANGED <<program, committed>>
    BY <1>2 DEF Propose
  <2>2. CASE Raise(w, "unwinding") \/ Raise(w, "failed")
    BY <2>1, <2>2, RaisingSources
  <2>3. CASE Advance(w, "refused")
    BY <2>1, <2>3, AdvancingSources
  <2>4. CASE walk' = [walk EXCEPT ![w].pc = "proposed"] /\ UNCHANGED ctx
    <3>1. node(w).uses \subseteq ctx
      BY <1>2 DEF Propose, Resolved
    <3>2. \A v \in DOMAIN walk' : /\ v \in DOMAIN walk /\ walk[v].at = walk'[v].at
                                  /\ v # w => walk'[v] = walk[v]
      BY <2>4, Ready DEF IInv, Walks, WalksTyped
    <3> QED BY <2>1, <2>4, <3>1, <3>2, NothingNewSources
  <2> QED BY <1>2, <2>2, <2>3, <2>4 DEF Propose
<1>3. ASSUME NEW w \in DOMAIN walk, SendCommit(w) PROVE Sourced'
  <2>1. /\ node(w).uses \subseteq ctx /\ UNCHANGED <<program, committed, ctx>>
        /\ walk' = [walk EXCEPT ![w].pc = "sent"]
    BY <1>3 DEF SendCommit, Sourced, Supplied
  <2>2. \A v \in DOMAIN walk' : /\ v \in DOMAIN walk /\ walk[v].at = walk'[v].at
                                /\ v # w => walk'[v] = walk[v]
    BY <2>1, Ready DEF IInv, Walks, WalksTyped
  <2> QED BY <2>1, <2>2, NothingNewSources
<1>4. ASSUME NEW w \in DOMAIN walk, Committed(w) PROVE Sourced'
  BY <1>4, CommittedSources
<1>5. ASSUME NEW w \in DOMAIN walk, Compute(w) PROVE Sourced'
  BY <1>5, RaisingSources, AdvancingSources DEF Compute
<1>6. ASSUME NEW w \in DOMAIN walk, Join(w) PROVE Sourced'
  <2>1. node(w).type # "action" /\ Advance(w, "branches") /\ UNCHANGED <<program, committed>>
    BY <1>6 DEF Join, IInv, Walks, Placed
  <2> QED BY <2>1, AdvancingSources
<1>7. ASSUME NEW w \in DOMAIN walk, Fork(w) \/ Loop(w) PROVE Sourced'
  <2>1. UNCHANGED <<program, committed, ctx>>
    BY <1>7 DEF Fork, Loop
  <2>2. /\ walk[w] \in [at : Nodes, pc : {"start", "proposed", "sent", "join", "loop"},
                        left : 0..MaxItems]
        /\ walk[w].pc = "start"
    BY <1>7 DEF Fork, Loop, IInv, Walks, WalksTyped
  <2>3. CASE Fork(w)
    <3> DEFINE below == {Append(w, <<"branch", i>>) : i \in DOMAIN node(w).branches}
    <3>1. walk' = [v \in DOMAIN walk \cup below |->
                     IF v = w THEN [walk[w] EXCEPT !.pc = "join"]
                     ELSE IF v \in below THEN At(node(w).branches[v[Len(v)][2]])
                     ELSE walk[v]]
      BY <2>3 DEF Fork
    <3> HIDE DEF below
    <3>2. \A v \in DOMAIN walk' : walk'[v].pc \in {"proposed", "sent"} =>
            v \in DOMAIN walk /\ walk[v] = walk'[v]
      BY <2>2, <3>1 DEF At
    <3> QED BY <2>1, <3>2, NothingNewSources
  <2>4. CASE Loop(w)
    <3>1. PICK k \in 0..MaxItems : walk' = [walk EXCEPT ![w].pc = "loop", ![w].left = k]
      BY <2>4 DEF Loop
    <3>2. \A v \in DOMAIN walk' : walk'[v].pc \in {"proposed", "sent"} =>
            v \in DOMAIN walk /\ walk[v] = walk'[v]
      BY <2>2, <3>1
    <3> QED BY <2>1, <3>2, NothingNewSources
  <2> QED BY <1>7, <2>3, <2>4
<1>8. ASSUME NEW w \in DOMAIN walk, NextItem(w) PROVE Sourced'
  <2>1. node(w).type # "action" /\ UNCHANGED <<program, committed>> /\ walk[w].pc = "loop"
    BY <1>8 DEF NextItem, IInv, Walks, Placed
  <2>2. CASE Advance(w, "count")
    BY <2>1, <2>2, AdvancingSources
  <2>3. CASE ~Advance(w, "count")
    <3> DEFINE child == Append(w, <<"item", walk[w].left>>)
    <3>1. /\ UNCHANGED ctx
          /\ walk' = [v \in DOMAIN walk \cup {child} |->
                        IF v = w THEN [walk[w] EXCEPT !.left = @ - 1]
                        ELSE IF v = child THEN At(node(w).body)
                        ELSE walk[v]]
      BY <1>8, <2>3 DEF NextItem
    <3>2. walk[w] \in [at : Nodes, pc : {"start", "proposed", "sent", "join", "loop"},
                       left : 0..MaxItems]
      BY DEF IInv, Walks, WalksTyped
    <3> HIDE DEF child
    <3>3. \A v \in DOMAIN walk' : walk'[v].pc \in {"proposed", "sent"} =>
            v \in DOMAIN walk /\ walk[v] = walk'[v]
      BY <2>1, <3>1, <3>2 DEF At
    <3> QED BY <2>1, <3>1, <3>3, NothingNewSources
  <2> QED BY <2>2, <2>3
<1>9. CASE UndoPropose \/ UndoCommit
  <2>1. UNCHANGED <<program, committed, ctx, walk>>
    BY <1>9 DEF UndoPropose, UndoCommit, Ends
  <2> QED BY <2>1, NothingNewSources
<1>10. CASE UNCHANGED vars
  BY <1>10, NothingNewSources DEF vars
<1> QED BY <1>1, <1>2, <1>3, <1>4, <1>5, <1>6, <1>7, <1>8, <1>9, <1>10 DEF Next, Walk, WalkStep
-----------------------------------------------------------------------------

\* How far the unwind of m steps has come: the newest k are undone, and of the others at
\* most the next, when its answer was lost.
ComeTo(m, k, steps, writes, reason) ==
  /\ k <= m
  /\ \A n \in Nodes : Attempted(n, writes) =>
       \E i \in 1..m : steps[i] = n /\ (i > m - k \/ (reason = "failed" /\ i = m - k))
  /\ \A i \in (m - k + 1)..m : Attempted(steps[i], writes)

Reached == ComeTo(Len(committed), Len(compensated), committed, effects, phase)

\* One more is undone, and its answer arrives or is lost.
LEMMA OneFurther ==
  ASSUME NEW m \in Nat, NEW k \in Nat, k < m, NEW steps, NEW writes, NEW more,
         ComeTo(m, k, steps, writes, "undoing"),
         \A i \in 1..m : steps[i] \in Nodes,
         \A n \in Nodes : Attempted(n, more) <=> Attempted(n, writes) \/ n = steps[m - k]
  PROVE  ComeTo(m, k, steps, more, "failed") /\ ComeTo(m, k + 1, steps, more, "unwinding")
<1>1. m - k \in 1..m
  OBVIOUS
<1>2. ASSUME NEW n \in Nodes, Attempted(n, more)
      PROVE  \E i \in 1..m : steps[i] = n /\ (i > m - k \/ i = m - k)
  <2>1. CASE n = steps[m - k]
    BY <1>1, <2>1
  <2>2. CASE Attempted(n, writes)
    BY <1>2, <2>2 DEF ComeTo
  <2> QED BY <1>2, <2>1, <2>2
<1>3. ASSUME NEW i \in (m - k)..m PROVE Attempted(steps[i], more)
  <2>1. i \in 1..m /\ steps[i] \in Nodes
    BY <1>1
  <2>2. CASE i = m - k
    BY <2>1, <2>2
  <2>3. CASE i \in (m - k + 1)..m
    <3>1. Attempted(steps[i], writes)
      BY <2>3 DEF ComeTo
    <3> QED BY <2>1, <3>1
  <2> QED BY <1>1, <2>2, <2>3
<1>4. ComeTo(m, k, steps, more, "failed")
  BY <1>2, <1>3 DEF ComeTo
<1>5. \A n \in Nodes : Attempted(n, more) => \E i \in 1..m : steps[i] = n /\ i > m - (k + 1)
  BY <1>2
<1>6. \A i \in (m - (k + 1) + 1)..m : Attempted(steps[i], more)
  <2>1. m - (k + 1) + 1 = m - k
    OBVIOUS
  <2> QED BY <1>3, <2>1
<1>7. ComeTo(m, k + 1, steps, more, "unwinding")
  BY <1>5, <1>6 DEF ComeTo
<1> QED BY <1>4, <1>7

\* The unwind comes one step further.
LEMMA ReachedStep ==
  ASSUME IsBounded, IInv, Backwards, Reached, [Next]_vars
  PROVE  Reached'
<1> DEFINE m == Len(committed)
           k == Len(compensated)
<1>1. /\ committed \in Seq(Nodes) /\ compensated \in Seq(Nodes) /\ pending \in Seq(Nodes)
      /\ m \in Nat /\ k \in Nat /\ k <= m
  BY DEF IInv, TypeOK, Reached, ComeTo
<1>2. ASSUME NEW w \in DOMAIN walk, WalkStep(w) PROVE Reached'
  <2>1. /\ compensated' = << >> /\ k = 0 /\ phase = "walking" /\ Len(compensated') = 0
        /\ \A n \in Nodes : Tried("undo", n)' <=> Tried("undo", n)
    BY <1>2, WalkUndoesNothing, EmptySeq DEF Backwards
  <2>2. Len(committed') \in Nat
    BY <1>2, NextInv DEF IInv, TypeOK, Next, Walk
  <2>3. \A n \in Nodes : ~Attempted(n, effects)
    BY <1>1, <2>1 DEF Reached, ComeTo
  <2>4. \A n \in Nodes : ~Attempted(n, effects')
    BY <2>1, <2>3 DEF Attempted, Tried, Rejected
  <2>5. ComeTo(Len(committed'), 0, committed', effects', phase')
    BY <2>2, <2>4 DEF ComeTo
  <2> QED BY <2>1, <2>5 DEF Reached
<1>3. CASE UndoPropose
  <2>1. phase = "unwinding" /\ UNCHANGED <<committed, compensated, effects>>
    BY <1>3 DEF UndoPropose, Ends, unwind, adapter
  <2> QED BY <2>1 DEF Reached, ComeTo
<1>4. CASE UndoCommit
  <2>1. /\ committed' = committed /\ pending # << >> /\ phase = "undoing"
        /\ pending = SubSeq(committed, 1, m - k)
    BY <1>4 DEF UndoCommit, IInv, Backwards
  <2>2. k < m /\ Len(pending) = m - k /\ \A i \in 1..(m - k) : pending[i] = committed[i]
    BY <1>1, <2>1, SubSeqProperties, EmptySeq
  <2>3. Newest(pending) = committed[m - k] /\ Newest(pending) \in Nodes
    BY <1>1, <2>2 DEF Newest
  <2>4. \A n \in Nodes : Attempted(n, effects') <=> Attempted(n, effects) \/ n = committed[m - k]
    BY <1>4, <2>3, UndoWrites
  <2>5. \A i \in 1..m : committed[i] \in Nodes
    BY <1>1
  <2>6. ComeTo(m, k, committed, effects, "undoing")
    BY <2>1 DEF Reached
  <2> HIDE DEF m, k
  <2>7. /\ ComeTo(m, k, committed, effects', "failed")
        /\ ComeTo(m, k + 1, committed, effects', "unwinding")
    BY <1>1, <2>2, <2>4, <2>5, <2>6, OneFurther
  <2>8. CASE phase' = "failed" /\ compensated' = compensated
    BY <2>1, <2>7, <2>8 DEF Reached, m, k
  <2>9. CASE phase' = "unwinding" /\ compensated' = Append(compensated, Newest(pending))
    <3>1. Len(compensated') = k + 1
      BY <1>1, <2>3, <2>9, AppendProperties DEF k
    <3> QED BY <2>1, <2>7, <2>9, <3>1 DEF Reached, m
  <2> QED BY <1>4, <2>8, <2>9 DEF UndoCommit, unwind
<1>5. CASE UNCHANGED vars
  BY <1>5 DEF vars, unwind, adapter, Reached
<1> QED BY <1>2, <1>3, <1>4, <1>5 DEF Next, Walk

\* Whoever goes backwards meets the dependents first.
LEMMA BackwardsIsAgainstTheFlow ==
  ASSUME IInv, Sourced, Reached
  PROVE  DependentsFirst
<1> DEFINE m == Len(committed)
           k == Len(compensated)
<1>1. /\ committed \in Seq(Nodes) /\ m \in Nat /\ compensated \in Seq(Nodes) /\ k \in Nat
      /\ k <= m
  BY DEF IInv, TypeOK, Reached, ComeTo
<1> SUFFICES ASSUME NEW i \in 1..m, NEW n \in program.nodes[committed[i]].uses,
                    Wrote("undo", n), ~CommittedAround(n, i)
             PROVE  Tried("undo", committed[i])
  BY DEF DependentsFirst
<1>2. n \in Nodes
  <2>1. IsAction(program, committed[i])
    BY DEF Sourced, Grounded
  <2>2. program.nodes[committed[i]] \in Node
    BY <2>1 DEF IInv, TypeOK, IsProgram, IsAction
  <2> QED BY <2>2 DEF Node
<1>3. PICK p \in 1..m : committed[p] = n /\ p >= m - k
  <2>1. Attempted(n, effects)
    BY DEF Wrote, Attempted
  <2> QED BY <1>1, <1>2, <2>1 DEF Reached, ComeTo
<1>4. IsAction(program, n)
  BY <1>3 DEF Sourced, Grounded
<1>5. PICK j \in 1..(i - 1) : committed[j] = n
  BY <1>4 DEF Sourced, Grounded, Before
<1>6. p <= i
  BY <1>1, <1>3, <1>5 DEF CommittedAround
<1>7. CASE p = i
  BY <1>3, <1>7 DEF Wrote, Tried
<1>8. CASE p < i
  <2>1. i \in (m - k + 1)..m
    BY <1>1, <1>3, <1>8
  <2> QED BY <2>1 DEF Reached, ComeTo, Attempted, Tried, Rejected
<1> QED BY <1>6, <1>7, <1>8
-----------------------------------------------------------------------------

\* The adapter wrote what was sent to it.
SentFirst == \A e \in effects : e[1] = "do" => <<e[2], e[3]>> \in sent

\* Which of the writes do step n.
Doing(n, writes) == {e \in writes : e[1] = "do" /\ e[2] = n}

\* Step s was done for one of the proposals, or all of them were rejected.
OneOf(s, proposals, writes) ==
  \/ \E t \in proposals : t[1] = s[1] /\ Doing(s[1], writes) = {<<"do", t[1], t[2]>>}
  \/ /\ Doing(s[1], writes) = {}
     /\ \A t \in proposals : t[1] = s[1] => <<"do rejected", t[1], t[2]>> \in writes

LEMMA WrittenMeans ==
  WrittenOnce <=> \A s \in sent : OneOf(s, sent, effects)
BY DEF WrittenOnce, OneOf, Doing

\* A COMMIT is written, or there was one of its step, or it is rejected.
LEMMA OneWrite ==
  ASSUME NEW proposals, NEW writes, NEW a, NEW w,
         \A e \in writes : e[1] = "do" => <<e[2], e[3]>> \in proposals,
         \A s \in proposals : OneOf(s, proposals, writes),
         NEW more, \/ more = writes /\ Doing(a, writes) # {}
                   \/ more = writes \cup {<<"do", a, w>>} /\ Doing(a, writes) = {}
                   \/ more = writes \cup {<<"do rejected", a, w>>} /\ Doing(a, writes) = {},
         NEW s \in proposals \cup {<<a, w>>}
  PROVE  OneOf(s, proposals \cup {<<a, w>>}, more)
<1> DEFINE new == <<a, w>>
           e == <<"do", a, w>>
           r == <<"do rejected", a, w>>
<1>1. /\ new[1] = a /\ new[2] = w /\ e[1] = "do" /\ e[2] = a /\ r[1] = "do rejected"
      /\ <<"do", new[1], new[2]>> = e /\ <<"do rejected", new[1], new[2]>> = r
  OBVIOUS
<1> HIDE DEF new, e, r
<1>2. CASE s[1] # a
  <2>1. Doing(s[1], more) = Doing(s[1], writes) /\ writes \subseteq more
    BY <1>1, <1>2 DEF Doing, e, r
  <2>2. s \in proposals /\ new[1] # s[1]
    BY <1>1, <1>2 DEF new
  <2> QED BY <2>1, <2>2 DEF OneOf, new
<1>3. CASE s[1] = a /\ more = writes /\ Doing(a, writes) # {}
  <2>1. PICK d \in writes : d[1] = "do" /\ d[2] = a
    BY <1>3 DEF Doing
  <2> DEFINE q == <<d[2], d[3]>>
  <2>2. q \in proposals /\ q[1] = a
    BY <2>1
  <2> HIDE DEF q
  <2>3. OneOf(q, proposals, writes)
    BY <2>2
  <2> QED BY <1>3, <2>2, <2>3 DEF OneOf
<1>4. CASE s[1] = a /\ more = writes \cup {e} /\ Doing(a, writes) = {}
  <2>1. Doing(a, more) = {e}
    BY <1>1, <1>4 DEF Doing
  <2>2. new \in proposals \cup {new} /\ Doing(s[1], more) = {<<"do", new[1], new[2]>>}
    BY <1>1, <1>4, <2>1
  <2> QED BY <1>1, <1>4, <2>2 DEF OneOf, new
<1>5. CASE s[1] = a /\ more = writes \cup {r} /\ Doing(a, writes) = {}
  <2>1. Doing(a, more) = {}
    BY <1>1, <1>5 DEF Doing
  <2>2. ASSUME NEW t \in proposals, t[1] = a PROVE <<"do rejected", t[1], t[2]>> \in more
    <3>1. OneOf(t, proposals, writes)
      OBVIOUS
    <3>2. ~ \E x \in proposals : Doing(t[1], writes) = {<<"do", x[1], x[2]>>}
      BY <1>5, <2>2
    <3> QED BY <1>5, <2>2, <3>1, <3>2 DEF OneOf
  <2>3. <<"do rejected", new[1], new[2]>> \in more
    BY <1>1, <1>5
  <2> QED BY <1>5, <2>1, <2>2, <2>3 DEF OneOf, new
<1> QED BY <1>2, <1>3, <1>4, <1>5 DEF e, r

LEMMA SendWrites ==
  ASSUME SentFirst, WrittenOnce,
         NEW w \in DOMAIN walk, SendCommit(w)
  PROVE  SentFirst' /\ WrittenOnce'
<1> DEFINE a == walk[w].at
           e == <<"do", a, w>>
           r == <<"do rejected", a, w>>
<1>1. e[1] = "do" /\ e[2] = a /\ e[3] = w /\ r[1] # "do" /\ sent' = sent \cup {<<a, w>>}
  BY DEF SendCommit
<1>2. \/ effects' = effects /\ Doing(a, effects) # {}
      \/ effects' = effects \cup {<<"do", a, w>>} /\ Doing(a, effects) = {}
      \/ effects' = effects \cup {<<"do rejected", a, w>>} /\ Doing(a, effects) = {}
  BY DEF SendCommit, Handle, Key, Doing, Rejected
<1>3. SentFirst'
  <2>1. \A d \in effects : d[1] = "do" => <<d[2], d[3]>> \in sent
    BY DEF SentFirst
  <2>2. effects' \subseteq effects \cup {e, r}
    BY <1>2
  <2> HIDE DEF e, r
  <2>3. \A d \in effects' : d[1] = "do" => <<d[2], d[3]>> \in sent'
    BY <1>1, <2>1, <2>2
  <2> QED BY <2>3 DEF SentFirst
<1> HIDE DEF a, e, r
<1>4. \A s \in sent \cup {<<a, w>>} : OneOf(s, sent \cup {<<a, w>>}, effects')
  <2> TAKE s \in sent \cup {<<a, w>>}
  <2>1. \A d \in effects : d[1] = "do" => <<d[2], d[3]>> \in sent
    BY DEF SentFirst
  <2>2. \A x \in sent : OneOf(x, sent, effects)
    BY WrittenMeans
  <2> DEFINE proposals == sent
             writes == effects
             more == effects'
  <2>3. /\ \A d \in writes : d[1] = "do" => <<d[2], d[3]>> \in proposals
        /\ \A x \in proposals : OneOf(x, proposals, writes)
        /\ \/ more = writes /\ Doing(a, writes) # {}
           \/ more = writes \cup {<<"do", a, w>>} /\ Doing(a, writes) = {}
           \/ more = writes \cup {<<"do rejected", a, w>>} /\ Doing(a, writes) = {}
    BY <1>2, <2>1, <2>2
  <2>4. s \in proposals \cup {<<a, w>>}
    OBVIOUS
  <2> HIDE DEF proposals, writes, more
  <2>5. OneOf(s, proposals \cup {<<a, w>>}, more)
    BY <2>3, <2>4, OneWrite
  <2> QED BY <2>5 DEF proposals, more
<1>5. (WrittenOnce <=> \A s \in sent : OneOf(s, sent, effects))'
  BY WrittenMeans, PTL
<1> QED BY <1>1, <1>3, <1>4, <1>5

\* Nothing else the adapter is told makes it do a step.
LEMMA WrittenOnceStep ==
  ASSUME SentFirst, WrittenOnce, [Next]_vars
  PROVE  SentFirst' /\ WrittenOnce'
<1>1. CASE UNCHANGED adapter
  BY <1>1 DEF adapter, SentFirst, WrittenOnce
<1>2. CASE UndoCommit
  <2>1. PICK what \in {"undo", "undo rejected"} :
          effects' = effects \/ effects' = effects \cup {<<what, Newest(pending), << >>>>}
    BY <1>2 DEF UndoCommit, Handle, Rejected
  <2> DEFINE e == <<what, Newest(pending), << >>>>
  <2>2. /\ sent' = sent /\ (effects' = effects \/ effects' = effects \cup {e})
        /\ e[1] # "do" /\ e[1] # "do rejected"
    BY <1>2, <2>1 DEF UndoCommit
  <2> HIDE DEF e
  <2>3. SentFirst'
    BY <2>2 DEF SentFirst
  <2>4. \A n : Doing(n, effects') = Doing(n, effects)
    BY <2>2 DEF Doing
  <2>5. \A s \in sent : OneOf(s, sent, effects) => OneOf(s, sent, effects')
    BY <2>2, <2>4 DEF OneOf
  <2>6. (WrittenOnce <=> \A s \in sent : OneOf(s, sent, effects))'
    BY WrittenMeans, PTL
  <2> QED BY <2>2, <2>3, <2>5, <2>6, WrittenMeans
<1>3. ASSUME NEW w \in DOMAIN walk, WalkStep(w), ~SendCommit(w) PROVE UNCHANGED adapter
  BY <1>3 DEF WalkStep, Unresolved, Propose, Committed, CommitLost, Compute, Fork, Join, Loop,
              NextItem
<1>4. ASSUME UndoPropose \/ UNCHANGED vars PROVE UNCHANGED adapter
  BY <1>4 DEF UndoPropose, Ends, vars
<1> QED BY <1>1, <1>2, <1>3, <1>4, SendWrites DEF Next, Walk
-----------------------------------------------------------------------------
(* What validate() tells of a plan's targets.                               *)

\* The members of two sequences are those of their concatenation.
LEMMA Joined ==
  ASSUME NEW s \in Seq(Nodes), NEW t \in Seq(Nodes)
  PROVE  /\ s \o t \in Seq(Nodes)
         /\ Check!ToSet(s \o t) = Check!ToSet(s) \cup Check!ToSet(t)
<1>1. /\ s \o t \in Seq(Nodes) /\ Len(s \o t) = Len(s) + Len(t)
      /\ \A i \in 1..Len(s) : (s \o t)[i] = s[i]
      /\ \A i \in 1..Len(t) : (s \o t)[Len(s) + i] = t[i]
  BY ConcatProperties
<1>2. Len(s) \in Nat /\ Len(t) \in Nat
  OBVIOUS
<1>3. ASSUME NEW x \in Check!ToSet(s \o t) PROVE x \in Check!ToSet(s) \cup Check!ToSet(t)
  <2>1. PICK i \in 1..(Len(s) + Len(t)) : (s \o t)[i] = x
    BY <1>1 DEF Check!ToSet
  <2>2. CASE i \in 1..Len(s)
    BY <1>1, <2>1, <2>2 DEF Check!ToSet
  <2>3. CASE i - Len(s) \in 1..Len(t)
    <3>1. (s \o t)[Len(s) + (i - Len(s))] = t[i - Len(s)]
      BY <1>1, <2>3
    <3> QED BY <1>2, <2>1, <2>3, <3>1 DEF Check!ToSet
  <2> QED BY <1>2, <2>1, <2>2, <2>3
<1>4. ASSUME NEW x \in Check!ToSet(s) PROVE x \in Check!ToSet(s \o t)
  BY <1>1, <1>2 DEF Check!ToSet
<1>5. ASSUME NEW x \in Check!ToSet(t) PROVE x \in Check!ToSet(s \o t)
  <2>1. PICK i \in 1..Len(t) : t[i] = x
    BY DEF Check!ToSet
  <2>2. Len(s) + i \in 1..Len(s \o t) /\ (s \o t)[Len(s) + i] = x
    BY <1>1, <1>2, <2>1
  <2> QED BY <1>1, <2>2 DEF Check!ToSet
<1> QED BY <1>1, <1>3, <1>4, <1>5

Attributes == {"next", "on_true", "on_false", "on_approved", "on_rejected", "on_timeout",
               "body", "error"}

\* Whatever a node leads to is among its successors.
LEMMA TargetsAreSuccessors ==
  ASSUME NEW m \in Node
  PROVE  /\ Check!SuccessorTargets(m) \in Seq(Nodes)
         /\ \A attr \in Attributes : attr \in DOMAIN m /\ m[attr] # End =>
              m[attr] \in Check!ToSet(Check!SuccessorTargets(m))
         /\ m.type = "parallel" => \A i \in DOMAIN m.branches :
              m.branches[i] \in Check!ToSet(Check!SuccessorTargets(m))
         /\ m.type # "parallel" => \A x \in Check!ToSet(Check!SuccessorTargets(m)) :
              \E attr \in Attributes : attr \in DOMAIN m /\ m[attr] # End /\ x = m[attr]
<1> DEFINE T(attr) == Check!Target(m, attr)
           B == IF m.type = "parallel" THEN m.branches ELSE << >>
<1>1. ASSUME NEW attr \in Attributes, attr \in DOMAIN m
      PROVE  m[attr] \in Nodes \cup {End}
  BY <1>1 DEF Node, Targets, Attributes
<1>2. ASSUME NEW attr \in Attributes
      PROVE  /\ T(attr) \in Seq(Nodes)
             /\ attr \in DOMAIN m /\ m[attr] # End => m[attr] \in Check!ToSet(T(attr))
  BY <1>1 DEF Check!Target, Check!ToSet
<1>3. B \in Seq(Nodes)
  BY DEF Node
<1> DEFINE s2 == T("next") \o T("on_true")
           s3 == s2 \o T("on_false")
           s4 == s3 \o T("on_approved")
           s5 == s4 \o T("on_rejected")
           s6 == s5 \o T("on_timeout")
           s7 == s6 \o T("body")
           s8 == s7 \o B
           s9 == s8 \o T("error")
<1>4. Check!SuccessorTargets(m) = s9
  BY DEF Check!SuccessorTargets
<1> HIDE DEF T, B
<1>5. s2 \in Seq(Nodes) /\ Check!ToSet(s2) = Check!ToSet(T("next")) \cup Check!ToSet(T("on_true"))
  BY <1>2, Joined DEF Attributes
<1> HIDE DEF s2
<1>6. s3 \in Seq(Nodes) /\ Check!ToSet(s3) = Check!ToSet(s2) \cup Check!ToSet(T("on_false"))
  BY <1>2, <1>5, Joined DEF Attributes
<1> HIDE DEF s3
<1>7. s4 \in Seq(Nodes) /\ Check!ToSet(s4) = Check!ToSet(s3) \cup Check!ToSet(T("on_approved"))
  BY <1>2, <1>6, Joined DEF Attributes
<1> HIDE DEF s4
<1>8. s5 \in Seq(Nodes) /\ Check!ToSet(s5) = Check!ToSet(s4) \cup Check!ToSet(T("on_rejected"))
  BY <1>2, <1>7, Joined DEF Attributes
<1> HIDE DEF s5
<1>9. s6 \in Seq(Nodes) /\ Check!ToSet(s6) = Check!ToSet(s5) \cup Check!ToSet(T("on_timeout"))
  BY <1>2, <1>8, Joined DEF Attributes
<1> HIDE DEF s6
<1>10. s7 \in Seq(Nodes) /\ Check!ToSet(s7) = Check!ToSet(s6) \cup Check!ToSet(T("body"))
  BY <1>2, <1>9, Joined DEF Attributes
<1> HIDE DEF s7
<1>11. s8 \in Seq(Nodes) /\ Check!ToSet(s8) = Check!ToSet(s7) \cup Check!ToSet(B)
  BY <1>3, <1>10, Joined
<1> HIDE DEF s8
<1>12. s9 \in Seq(Nodes) /\ Check!ToSet(s9) = Check!ToSet(s8) \cup Check!ToSet(T("error"))
  BY <1>2, <1>11, Joined DEF Attributes
<1> HIDE DEF s9
<1>13. \A attr \in Attributes : Check!ToSet(T(attr)) \subseteq Check!ToSet(s9)
  BY <1>5, <1>6, <1>7, <1>8, <1>9, <1>10, <1>11, <1>12 DEF Attributes
<1>14. Check!ToSet(B) \subseteq Check!ToSet(s9)
  BY <1>11, <1>12
<1>15. ASSUME m.type = "parallel", NEW i \in DOMAIN m.branches
       PROVE  m.branches[i] \in Check!ToSet(B)
  BY <1>15 DEF B, Check!ToSet
<1>16. ASSUME m.type # "parallel", NEW x \in Check!ToSet(s9)
       PROVE  \E attr \in Attributes : attr \in DOMAIN m /\ m[attr] # End /\ x = m[attr]
  <2>1. Check!ToSet(B) = {}
    BY <1>16 DEF B, Check!ToSet
  <2>2. PICK attr \in Attributes : x \in Check!ToSet(T(attr))
    BY <1>5, <1>6, <1>7, <1>8, <1>9, <1>10, <1>11, <1>12, <1>16, <2>1 DEF Attributes
  <2>3. attr \in DOMAIN m /\ m[attr] # End /\ x = m[attr]
    BY <2>2 DEF T, Check!Target, Check!ToSet
  <2> QED BY <2>3
<1> QED BY <1>2, <1>4, <1>12, <1>13, <1>14, <1>15, <1>16

\* What validate() does not call dangling is closed.
LEMMA NotDangling ==
  ASSUME IsProgram(program), ~Check!Dangling
  PROVE  Closed(program)
<1>1. program.entry \in Known
  BY DEF Check!Dangling, Check!ids, Known
<1> SUFFICES ASSUME NEW n \in Known
             PROVE  LET m == program.nodes[n] IN
                    /\ m.type \notin {"await_approval"} => m.next \in Known \cup {End}
                    /\ m.type = "condition" =>
                         m.on_true \in Known /\ m.on_false \in Known \cup {End}
                    /\ m.type = "await_approval" =>
                         /\ m.on_approved \in Known
                         /\ {m.on_rejected, m.on_timeout} \subseteq Known \cup {End}
                    /\ m.type = "parallel" =>
                         \A i \in DOMAIN m.branches : m.branches[i] \in Known
                    /\ m.type = "foreach" => m.body \in Known
  BY <1>1 DEF Closed, Known
<1> DEFINE m == program.nodes[n]
<1>2. m \in Node
  BY DEF IsProgram, Known
<1>3. Check!ToSet(Check!SuccessorTargets(m)) \subseteq Known
  BY DEF Check!Dangling, Check!ids, Check!Successors, Known
<1>4. /\ \A attr \in Attributes : attr \in DOMAIN m => m[attr] \in Known \cup {End}
      /\ m.type = "parallel" => \A i \in DOMAIN m.branches : m.branches[i] \in Known
  BY <1>2, <1>3, TargetsAreSuccessors
<1> HIDE DEF m
<1>5. m.type \notin {"await_approval"} => m.next \in Known \cup {End}
  <2>1. m.type \notin {"await_approval"} => "next" \in DOMAIN m
    BY <1>2 DEF Node
  <2> QED BY <1>4, <2>1 DEF Attributes
<1>6. m.type = "condition" => m.on_true \in Known /\ m.on_false \in Known \cup {End}
  <2> SUFFICES ASSUME m.type = "condition" PROVE m.on_true \in Known /\ m.on_false \in Known \cup {End}
    OBVIOUS
  <2>1. "on_true" \in DOMAIN m /\ "on_false" \in DOMAIN m /\ m.on_true \in Nodes
    BY <1>2 DEF Node
  <2> QED BY <1>4, <2>1, PlanAssumption DEF Attributes
<1>7. m.type = "await_approval" =>
        m.on_approved \in Known /\ {m.on_rejected, m.on_timeout} \subseteq Known \cup {End}
  <2> SUFFICES ASSUME m.type = "await_approval"
               PROVE  m.on_approved \in Known /\ {m.on_rejected, m.on_timeout} \subseteq Known \cup {End}
    OBVIOUS
  <2>1. /\ "on_approved" \in DOMAIN m /\ "on_rejected" \in DOMAIN m
        /\ "on_timeout" \in DOMAIN m /\ m.on_approved \in Nodes
    BY <1>2 DEF Node
  <2> QED BY <1>4, <2>1, PlanAssumption DEF Attributes
<1>8. m.type = "foreach" => m.body \in Known
  <2> SUFFICES ASSUME m.type = "foreach" PROVE m.body \in Known
    OBVIOUS
  <2>1. "body" \in DOMAIN m /\ m.body \in Nodes
    BY <1>2 DEF Node
  <2> QED BY <1>4, <2>1, PlanAssumption DEF Attributes
<1> QED BY <1>4, <1>5, <1>6, <1>7, <1>8 DEF m
-----------------------------------------------------------------------------
(* The executor, as the kernel runs it.                                     *)

\* What is known of a run whatever its adapter does, and what only of an adapter that
\* commits what it has proposed.
RunInv == IInv /\ Backwards
HonestInv == Sourced /\ Reached /\ ReportIsTrue /\ SentFirst /\ WrittenOnce

\* A run starts with nothing done.
Fresh == program \in Programs /\ Begin(program) /\ Closed(program)

LEMMA FreshIsSound == Fresh => RunInv /\ HonestInv
<1> SUFFICES ASSUME Fresh PROVE RunInv /\ HonestInv
  OBVIOUS
<1>1. /\ compensated = << >> /\ committed = << >> /\ effects = {} /\ sent = {} /\ ctx = {}
      /\ phase = "walking" /\ walk = [w \in {<< >>} |-> At(program.entry)]
  BY DEF Fresh, Begin
<1>2. Len(compensated) = 0 /\ Len(committed) = 0
  BY <1>1, EmptySeq
<1>3. IInv
  BY AdmittedRunAssumption, InitInv DEF Fresh
<1>4. Backwards /\ ReportIsTrue
  BY <1>1, <1>2 DEF Backwards, UndoneBackwards, ReportIsTrue, Tried
<1>5. Reached
  BY <1>1, <1>2 DEF Reached, ComeTo, Attempted
<1>6. Sourced
  BY <1>1, <1>2 DEF Sourced, Grounded, Supplied, At
<1>7. SentFirst /\ WrittenOnce
  BY <1>1 DEF SentFirst, WrittenOnce
<1> QED BY <1>3, <1>4, <1>5, <1>6, <1>7 DEF RunInv, HonestInv

LEMMA RunStep ==
  ASSUME IsBounded, RunInv, [Next]_vars
  PROVE  RunInv'
BY NextInv, BackwardsStep DEF RunInv

LEMMA HonestStep ==
  ASSUME IsBounded, RunInv, HonestInv, [Next]_vars
  PROVE  HonestInv'
BY SourcedStep, ReachedStep, ReportStep, WrittenOnceStep DEF RunInv, HonestInv

Told == pc # "references" /\ Check!Dangling => "V2_DANGLING_REF" \in diags

\* Until it is admitted a plan is not run, and it is not admitted with a dangling target.
Watched ==
  /\ program \in Programs
  /\ Told
  /\ ~Started => Begin(program)
  /\ Started => RunInv

Honest == Started => HonestInv

LEMMA StartedIsClosed == program \in Programs /\ Started /\ Told => Closed(program)
BY NotDangling, AdmittedRunAssumption DEF Started, Told, Check!Admitted, IsBounded

LEMMA AdmittedStart ==
  ASSUME AdmittedInit
  PROVE  Watched /\ Honest
<1>1. pc = "references" /\ program \in Programs /\ Begin(program)
  BY DEF AdmittedInit, Submit, Check!Begin, Begin
<1> QED BY <1>1 DEF Watched, Told, Honest, Started, Check!Admitted

\* A pass of validate() keeps what it has found.
LEMMA ValidateStep ==
  ASSUME Watched, Check!Next, UNCHANGED running
  PROVE  Watched' /\ Honest'
<1>1. program' = program /\ ~Started
  BY DEF Check!Next, Check!CheckReferences, Check!Emit, Check!EndSort, Check!Visit,
         Check!EndSearch, Check!ValidateAgain, Started, Check!Admitted
<1>2. Begin(program) /\ Begin(program)'
  BY <1>1 DEF Watched, running, unwind, adapter, Begin
<1>3. Told'
  <2>1. Check!Dangling' <=> Check!Dangling
    BY <1>1 DEF Check!Dangling, Check!ids, Check!Successors
  <2>2. CASE Check!CheckReferences
    BY <2>1, <2>2 DEF Told, Check!CheckReferences, Check!Found
  <2>3. CASE Check!Emit \/ Check!EndSort \/ Check!Visit \/ Check!EndSearch
    BY <2>1, <2>3 DEF Watched, Told, Check!Emit, Check!EndSort, Check!Visit, Check!EndSearch
  <2>4. CASE Check!ValidateAgain
    BY <2>4 DEF Told, Check!ValidateAgain
  <2> QED BY <2>2, <2>3, <2>4 DEF Check!Next
<1>4. program' \in Programs
  BY <1>1 DEF Watched
<1>5. ASSUME Started' PROVE (RunInv /\ HonestInv)'
  <2>1. (program \in Programs /\ Started /\ Told => Closed(program))'
    BY StartedIsClosed, PTL
  <2>2. (Fresh => RunInv /\ HonestInv)'
    BY FreshIsSound, PTL
  <2>3. Fresh'
    BY <1>1, <1>2, <1>3, <1>4, <1>5, <2>1 DEF Fresh
  <2> QED BY <2>2, <2>3
<1> QED BY <1>2, <1>3, <1>4, <1>5 DEF Watched, Honest

\* A run keeps its plan.
LEMMA ProgramStays == [Next]_vars => program' = program
BY Zenon DEF Next, Walk, WalkStep, Unresolved, Propose, SendCommit, Committed, CommitLost, Compute,
       Fork, Join, Loop, NextItem, UndoPropose, UndoCommit, Ends, vars

LEMMA AdmittedStep ==
  ASSUME Watched, [AdmittedNext]_admitted
  PROVE  Watched' /\ (Honest => Honest')
<1>1. IsBounded
  BY AdmittedRunAssumption
<1>2. CASE Validate
  BY <1>2, ValidateStep DEF Validate
<1>3. ASSUME Started, [Next]_vars, UNCHANGED checking
      PROVE  Watched' /\ (Honest => Honest')
  <2>1. program' = program /\ Started'
    BY <1>3, ProgramStays DEF checking, Started, Check!Admitted
  <2>2. RunInv' /\ (Honest => HonestInv')
    BY <1>1, <1>3, RunStep, HonestStep DEF Watched, Honest
  <2>3. Told'
    BY <1>3, <2>1 DEF Watched, Told, checking, Check!Dangling, Check!ids, Check!Successors
  <2> QED BY <2>1, <2>2, <2>3 DEF Watched, Honest
<1>4. ASSUME UNCHANGED admitted, ~Started
      PROVE  Watched' /\ (Honest => Honest')
  <2>1. UNCHANGED <<checking, vars>>
    BY <1>4 DEF admitted
  <2>2. program' = program /\ ~Started'
    BY <1>4, <2>1 DEF vars, checking, Started, Check!Admitted
  <2>3. Begin(program)'
    BY <1>4, <2>1 DEF Watched, vars, unwind, adapter, Begin
  <2>4. Told'
    BY <2>1, <2>2 DEF Watched, Told, checking, Check!Dangling, Check!ids, Check!Successors
  <2> QED BY <2>2, <2>3, <2>4 DEF Watched, Honest
<1>5. CASE Execute
  BY <1>3, <1>5 DEF Execute
<1>6. CASE UNCHANGED admitted
  BY <1>3, <1>4, <1>6 DEF admitted
<1> QED BY <1>2, <1>5, <1>6 DEF AdmittedNext

\* What the invariants say of a plan that is run, and of one that is not yet.
LEMMA WatchedIsOrderly ==
  ASSUME Watched
  PROVE  TypeOK /\ QuietUnwind /\ UndoneBackwards
<1>1. CASE Started
  BY <1>1 DEF Watched, RunInv, IInv, Walks, Backwards
<1>2. CASE ~Started
  <2>1. Begin(program) /\ IsProgram(program) /\ 0 \in 0..MaxItems
    BY <1>2, AdmittedRunAssumption DEF Watched, IsBounded
  <2>2. /\ << >> \in Seq(Hops) /\ << >> \in Seq(Nodes) /\ program.entry \in Nodes
    BY <2>1, EmptySeq DEF IsProgram
  <2> QED BY <2>1, <2>2 DEF Begin, TypeOK, At, QuietUnwind, UndoneBackwards
<1> QED BY <1>1, <1>2

LEMMA HonestIsOrderly ==
  ASSUME Watched, Honest
  PROVE  UnwindIsOrderly /\ TraceIsTrue
<1>1. QuietUnwind /\ UndoneBackwards
  BY WatchedIsOrderly
<1>2. CASE Started
  BY <1>1, <1>2, BackwardsIsAgainstTheFlow
     DEF Watched, Honest, RunInv, HonestInv, UnwindIsOrderly, TraceIsTrue
<1>3. CASE ~Started
  <2>1. compensated = << >> /\ committed = << >> /\ effects = {} /\ sent = {}
    BY <1>3 DEF Watched, Begin
  <2>2. Len(compensated) = 0 /\ Len(committed) = 0
    BY <2>1, EmptySeq
  <2> QED BY <1>1, <2>1, <2>2
          DEF UnwindIsOrderly, TraceIsTrue, DependentsFirst, ReportIsTrue, WrittenOnce, Wrote, Tried
<1> QED BY <1>2, <1>3

\* The kernel's jobs do not meet: each is a behaviour of its own module.
LEMMA JobsAreApart ==
  KernelSpec => AdmittedSpec /\ Saga!Spec /\ Mending!Spec /\ Held!Spec
<1>1. KernelInit => AdmittedInit /\ Saga!Init /\ Mending!Init /\ Held!Init
  <2>1. SomePlan \in Programs /\ SomeDeclaration \in Declarations /\ SomeCase \in Cases
    BY KernelAssumption DEF SomePlan, SomeDeclaration, SomeCase
  <2>2. IdlePlan => AdmittedInit
    BY <2>1 DEF IdlePlan, AdmittedInit
  <2>3. IdleSaga => Saga!Init
    BY <2>1 DEF IdleSaga, Saga!Init
  <2>4. IdleLoop => Mending!Init
    BY DEF IdleLoop, Mending!Init
  <2>5. IdleStep => Held!Init
    BY <2>1 DEF IdleStep, Held!Init
  <2> QED BY <2>2, <2>3, <2>4, <2>5 DEF KernelInit
<1>2. [KernelNext]_kernel =>
        /\ [AdmittedNext]_admitted
        /\ [Saga!Next]_(Saga!vars)
        /\ [Mending!Next]_(Mending!vars)
        /\ [Held!Next]_(Held!vars)
  <2>1. UNCHANGED healing => UNCHANGED Saga!vars
    BY DEF healing, Saga!vars, Saga!saga, Saga!unwind
  <2>2. UNCHANGED repairing => UNCHANGED Mending!vars
    BY DEF repairing, Mending!vars, Mending!loop, Mending!told
  <2>3. UNCHANGED holding => UNCHANGED Held!vars
    BY DEF holding, Held!vars
  <2> QED BY <2>1, <2>2, <2>3
          DEF KernelNext, ValidatePlan, ExecutePlan, ReachGoal, RepairVerb, HoldStep, kernel,
              AdmittedNext
<1> QED BY <1>1, <1>2, PTL DEF KernelSpec, AdmittedSpec, Saga!Spec, Mending!Spec, Held!Spec

\* Whatever the adapter does, while any branch is still walking nothing is undone and the
\* run has not ended, and the unwind goes strictly backwards through what was committed
\* and leaves none out, for admitted plans of any size and shape.
THEOREM UnwindIsBackwards ==
  KernelSpec => [](TypeOK /\ QuietUnwind /\ UndoneBackwards)
<1>1. AdmittedInit => Watched
  BY AdmittedStart
<1>2. Watched /\ [AdmittedNext]_admitted => Watched'
  BY AdmittedStep
<1>3. Watched => TypeOK /\ QuietUnwind /\ UndoneBackwards
  BY WatchedIsOrderly
<1> QED BY <1>1, <1>2, <1>3, JobsAreApart, PTL DEF AdmittedSpec

\* What the invariants come to.
LEMMA RunsAreHonest == AdmittedSpec => [](UnwindIsOrderly /\ TraceIsTrue)
<1>1. AdmittedInit => Watched /\ Honest
  BY AdmittedStart
<1>2. Watched /\ Honest /\ [AdmittedNext]_admitted => Watched' /\ Honest'
  BY AdmittedStep
<1>3. Watched /\ Honest => UnwindIsOrderly /\ TraceIsTrue
  BY HonestIsOrderly
<1> QED BY <1>1, <1>2, <1>3, PTL DEF AdmittedSpec

\* Whatever the adapter does, no step of an admitted plan is undone while a step that was
\* built on it stands, unless the adapter rejected that step's compensation.
THEOREM UnwindStaysOrderly == KernelSpec => []UnwindIsOrderly
BY RunsAreHonest, JobsAreApart, PTL

\* The trace of a run that has not raised names every step that was undone, and a step it
\* names was undone or its compensation rejected; of all proposals of a step one was
\* written, once, or each was rejected.
THEOREM TraceStaysTrue == KernelSpec => []TraceIsTrue
BY RunsAreHonest, JobsAreApart, PTL
-----------------------------------------------------------------------------
(* Contracts.                                                               *)

\* The segments of the paths of a schema; those of an answer are the ones but "#".
Text == STRING \cup {"#"}

\* The path up to its n-th segment, the answer's and the schema's.
Upto(path, n) == SubSeq(path, 1, n)
Kind(segment) == IF segment \in Held!Indices THEN "#" ELSE segment

\* The path up to a segment is the path before it and the segment.
LEMMA UptoGrows ==
  ASSUME NEW p \in Seq(Text), NEW n \in 1..Len(p)
  PROVE  /\ Upto(p, n - 1) \in Seq(Text) /\ Upto(p, n) \in Seq(Text)
         /\ Len(Upto(p, n)) = n /\ Upto(p, n)[n] = p[n]
         /\ Upto(p, n) = Append(Upto(p, n - 1), p[n])
         /\ SubSeq(Upto(p, n), 1, n - 1) = Upto(p, n - 1)
<1> DEFINE u == Upto(p, n - 1)
           v == Upto(p, n)
<1>1. p[n] \in Text /\ n - 1 \in 0..Len(p) /\ n \in 0..Len(p)
  OBVIOUS
<1>2. /\ u \in Seq(Text) /\ Len(u) = n - 1 /\ \A i \in 1..(n - 1) : u[i] = p[i]
      /\ v \in Seq(Text) /\ Len(v) = n /\ \A i \in 1..n : v[i] = p[i]
  <2>1. \A m \in 0..Len(p) :
          /\ SubSeq(p, 1, m) \in Seq(Text) /\ Len(SubSeq(p, 1, m)) = m
          /\ \A i \in 1..m : SubSeq(p, 1, m)[i] = p[i]
    BY SubSeqProperties
  <2> QED BY <1>1, <2>1 DEF Upto
<1> HIDE DEF u, v
<1>3. v = Append(u, p[n])
  <2> DEFINE w == Append(u, p[n])
  <2>1. /\ w \in Seq(Text) /\ Len(w) = n /\ w[n] = p[n]
        /\ \A i \in 1..(n - 1) : w[i] = p[i]
    BY <1>1, <1>2, AppendProperties
  <2> HIDE DEF w
  <2>2. \A i \in 1..n : v[i] = w[i]
    BY <1>2, <2>1
  <2>3. v = w
    BY <1>2, <2>1, <2>2, SeqEqual
  <2> QED BY <2>3 DEF w
<1>4. SubSeq(v, 1, n - 1) = u
  <2> DEFINE w == SubSeq(v, 1, n - 1)
  <2>1. w \in Seq(Text) /\ Len(w) = n - 1 /\ \A i \in 1..(n - 1) : w[i] = v[i]
    BY <1>1, <1>2, SubSeqProperties
  <2> HIDE DEF w
  <2>2. w = u
    BY <1>2, <2>1, SeqEqual
  <2> QED BY <2>2 DEF w
<1> QED BY <1>1, <1>2, <1>3, <1>4 DEF u, v

LEMMA IndexIsText == "#" \in Text
BY DEF Text

\* A segment's kind is a segment of a schema.
LEMMA KindIsSegment ==
  ASSUME NEW s \in Text
  PROVE  Kind(s) \in Text
<1>1. "#" \in Text
  BY IndexIsText
<1>2. CASE s \in Held!Indices
  <2>1. Kind(s) = "#"
    BY <1>2 DEF Kind
  <2> QED BY <1>1, <2>1
<1>3. CASE s \notin Held!Indices
  <2>1. Kind(s) = s
    BY <1>3 DEF Kind
  <2> QED BY <2>1
<1> QED BY <1>2, <1>3

\* The schema's path has its kind for every segment.
LEMMA SchemaPathIs ==
  ASSUME NEW p \in Seq(Text)
  PROVE  /\ Held!InSchema(p) \in Seq(Text) /\ Len(Held!InSchema(p)) = Len(p)
         /\ \A i \in 1..Len(p) : Held!InSchema(p)[i] = Kind(p[i])
<1> DEFINE h == Held!InSchema(p)
<1>1. h = [i \in 1..Len(p) |-> Kind(p[i])]
  BY DEF Held!InSchema, Kind
<1>2. \A i \in 1..Len(p) : Kind(p[i]) \in Text
  BY KindIsSegment
<1>3. h \in [1..Len(p) -> Text] /\ Len(p) \in Nat
  BY <1>1, <1>2
<1>4. h \in Seq(Text) /\ Len(h) = Len(p)
  BY <1>3
<1> QED BY <1>1, <1>4

\* A sequence and its next element, element by element.
LEMMA AppendIs ==
  ASSUME NEW S, NEW p \in Seq(S), NEW s \in S
  PROVE  /\ Append(p, s) \in Seq(S) /\ Len(Append(p, s)) = Len(p) + 1
         /\ Append(p, s)[Len(p) + 1] = s
         /\ \A i \in 1..Len(p) : Append(p, s)[i] = p[i]
BY AppendProperties

LEMMA SchemaPath ==
  ASSUME NEW p \in Seq(Text), NEW s \in Text
  PROVE  Held!InSchema(Append(p, s)) = Append(Held!InSchema(p), Kind(s))
<1> DEFINE q == Held!InSchema(p)
           t == Append(p, s)
           r == Held!InSchema(t)
           w == Append(q, Kind(s))
<1>1. t \in Seq(Text) /\ Len(t) = Len(p) + 1 /\ t[Len(p) + 1] = s
      /\ \A i \in 1..Len(p) : t[i] = p[i]
  BY AppendIs
<1>2. q \in Seq(Text) /\ Len(q) = Len(p) /\ \A i \in 1..Len(p) : q[i] = Kind(p[i])
  BY SchemaPathIs
<1> HIDE DEF t
<1>3. r \in Seq(Text) /\ Len(r) = Len(t) /\ \A i \in 1..Len(t) : r[i] = Kind(t[i])
  BY <1>1, SchemaPathIs
<1>4. Kind(s) \in Text
  BY KindIsSegment
<1> HIDE DEF q, r
<1>5. /\ w \in Seq(Text) /\ Len(w) = Len(q) + 1 /\ w[Len(q) + 1] = Kind(s)
      /\ \A i \in 1..Len(q) : w[i] = q[i]
  BY <1>2, <1>4, AppendIs
<1> HIDE DEF w
<1>6. ASSUME NEW i \in 1..Len(r) PROVE r[i] = w[i]
  <2>1. CASE i = Len(p) + 1
    BY <1>1, <1>2, <1>3, <1>5, <2>1
  <2>2. CASE i \in 1..Len(p)
    BY <1>1, <1>2, <1>3, <1>5, <2>2
  <2>3. Len(p) \in Nat
    OBVIOUS
  <2> QED BY <1>1, <1>3, <2>1, <2>2, <2>3
<1>7. Len(r) = Len(w)
  BY <1>1, <1>2, <1>3, <1>5
<1>8. r = w
  BY <1>3, <1>5, <1>6, <1>7, SeqEqual
<1> QED BY <1>8 DEF q, r, t, w

\* A walk along a schema finds nothing when no segment goes astray, and only then.
LEMMA WalkIsWhole ==
  ASSUME NEW p \in Seq(Text)
  PROVE  Held!WalkOutput(p) = {} <=> \A n \in 1..Len(p) : Held!Astray(p, n) = {}
<1>1. ASSUME \A n \in 1..Len(p) : Held!Astray(p, n) = {} PROVE Held!WalkOutput(p) = {}
  BY <1>1 DEF Held!WalkOutput
<1>2. ASSUME Held!WalkOutput(p) = {}, NEW n \in 1..Len(p), Held!Astray(p, n) # {} PROVE FALSE
  <2> DEFINE T == {m \in Nat : m \in 1..Len(p) /\ Held!Astray(p, m) # {}}
  <2>1. T # {}
    BY <1>2
  <2>2. PICK m \in T : \A l \in T : ~(<<l, m>> \in OpToRel(<, Nat))
    BY <2>1, NatLessThanWellFounded, WFMin
  <2>3. \A i \in 1..(m - 1) : Held!Astray(p, i) = {}
    <3> SUFFICES ASSUME NEW i \in 1..(m - 1), Held!Astray(p, i) # {} PROVE FALSE
      OBVIOUS
    <3>1. m \in Nat /\ m <= Len(p) /\ i \in Nat /\ i < m /\ i \in 1..Len(p)
      OBVIOUS
    <3>2. i \in T
      BY <3>1
    <3> QED BY <2>2, <3>1, <3>2 DEF OpToRel
  <2>4. Held!Astray(p, m) \subseteq Held!WalkOutput(p)
    <3>1. m \in {j \in DOMAIN p : \A i \in 1..(j - 1) : Held!Astray(p, i) = {}}
      BY <2>3
    <3> QED BY <3>1 DEF Held!WalkOutput
  <2> QED BY <1>2, <2>4
<1> QED BY <1>1, <1>2

\* Where a segment of an answer's path goes: its kind, and how the schema says so.
LEMMA SegmentKinds ==
  ASSUME NEW s \in Held!Segment
  PROVE  /\ s \in Text /\ s # "#"
         /\ Kind(s) = "#" <=> s \in Held!Indices
         /\ s \notin Held!Indices => Kind(s) = s
BY DEF Held!Segment, Held!Indices, Kind, Text

\* What a path of an answer goes through is in the answer.
LEMMA PrefixesAreThere ==
  ASSUME Held!Conforms(response), NEW p \in DOMAIN response.answer
  PROVE  /\ p \in Seq(Text) /\ \A n \in 1..Len(p) : p[n] \in Held!Segment
         /\ \A n \in 0..Len(p) : Upto(p, n) \in DOMAIN response.answer
<1>1. p \in Seq(Held!Segment)
  BY DEF Held!Conforms
<1>2. \A n \in 1..Len(p) : p[n] \in Held!Segment
  BY <1>1
<1>3. p \in Seq(Text) /\ Len(p) \in Nat
  BY <1>1, <1>2, SegmentKinds
<1>4. ASSUME NEW n \in 0..Len(p), Upto(p, n) \notin DOMAIN response.answer PROVE FALSE
  <2> DEFINE T == {k \in Nat : k \in 0..Len(p) /\ Upto(p, Len(p) - k) \notin DOMAIN response.answer}
  <2>1. Len(p) - n \in T
    <3>1. Len(p) - n \in 0..Len(p) /\ Len(p) - (Len(p) - n) = n
      BY <1>3
    <3> QED BY <1>4, <3>1
  <2>2. PICK k \in T : \A l \in T : ~(<<l, k>> \in OpToRel(<, Nat))
    BY <2>1, NatLessThanWellFounded, WFMin
  <2> DEFINE m == Len(p) - k
  <2>3. k \in 0..Len(p) /\ m \in 0..Len(p) /\ Upto(p, m) \notin DOMAIN response.answer
    BY <1>3
  <2>4. k # 0
    <3> SUFFICES ASSUME k = 0 PROVE FALSE
      OBVIOUS
    <3>1. m = Len(p)
      BY <1>3
    <3>2. Upto(p, Len(p)) = p
      BY <1>3 DEF Upto
    <3> QED BY <2>3, <3>1, <3>2
  <2>5. k - 1 \in 0..Len(p) /\ k - 1 \in Nat /\ k - 1 < k /\ Len(p) - (k - 1) = m + 1
        /\ m + 1 \in 1..Len(p) /\ (m + 1) - 1 = m
    BY <1>3, <2>3, <2>4
  <2>6. Upto(p, m + 1) \in DOMAIN response.answer
    <3>1. k - 1 \notin T
      BY <2>2, <2>3, <2>5 DEF OpToRel
    <3> QED BY <2>5, <3>1
  <2> HIDE DEF m
  <2>7. /\ Upto(p, m + 1) \in Seq(Text) /\ Len(Upto(p, m + 1)) = m + 1
        /\ SubSeq(Upto(p, m + 1), 1, m) = Upto(p, m)
    BY <1>3, <2>5, UptoGrows, ZenonT(40)
  <2>8. Upto(p, m + 1) # << >> /\ (m + 1) - 1 = m
    BY <2>5, <2>7
  <2>9. SubSeq(Upto(p, m + 1), 1, Len(Upto(p, m + 1)) - 1) \in DOMAIN response.answer
    BY <2>6, <2>8 DEF Held!Conforms
  <2> QED BY <2>3, <2>7, <2>8, <2>9
<1> QED BY <1>2, <1>3, <1>4

\* A path that an answer has is one that the schema allows.
LEMMA AnsweredIsAllowed ==
  ASSUME Held!Conforms(response), NEW p \in DOMAIN response.answer
  PROVE  Held!WalkOutput(p) = {}
<1>1. p \in Seq(Text) /\ Len(p) \in Nat
  BY PrefixesAreThere
<1>2. ASSUME NEW n \in 1..Len(p) PROVE Held!Astray(p, n) = {}
  <2> DEFINE u == Upto(p, n - 1)
             v == Upto(p, n)
             q == Held!InSchema(u)
  <2>1. n - 1 \in 0..Len(p) /\ n \in 0..Len(p)
    BY <1>1
  <2>2. u \in DOMAIN response.answer /\ v \in DOMAIN response.answer
    BY <2>1, PrefixesAreThere
  <2>3. p[n] \in Held!Segment /\ p[n] \in Text
    BY PrefixesAreThere, SegmentKinds
  <2>4. /\ u \in Seq(Text) /\ v = Append(u, p[n])
    BY <1>1, UptoGrows
  <2> HIDE DEF u
  <2>5. Held!InSchema(v) = Append(q, Kind(p[n])) /\ q \in Seq(Text) /\ Kind(p[n]) \in Text
    BY <2>3, <2>4, SchemaPath, SchemaPathIs, KindIsSegment
  <2>6. Held!InSchema(v) \in DOMAIN response.schema
    BY <2>2 DEF Held!Conforms
  <2> DEFINE w == Append(q, Kind(p[n]))
  <2> HIDE DEF q, v
  <2>7. w # << >> /\ Len(w) = Len(q) + 1 /\ w[Len(w)] = Kind(p[n]) /\ SubSeq(w, 1, Len(w) - 1) = q
    <3>1. Len(w) = Len(q) + 1 /\ w[Len(q) + 1] = Kind(p[n]) /\ Len(q) \in Nat /\ w \in Seq(Text)
          /\ \A i \in 1..Len(q) : w[i] = q[i]
      BY <2>5, AppendIs
    <3>2. SubSeq(w, 1, Len(q)) = q
      <4> DEFINE z == SubSeq(w, 1, Len(q))
      <4>1. z \in Seq(Text) /\ Len(z) = Len(q) /\ \A i \in 1..Len(q) : z[i] = w[i]
        BY <3>1, SubSeqProperties
      <4> HIDE DEF z
      <4>2. \A i \in 1..Len(z) : z[i] = q[i]
        BY <3>1, <4>1
      <4>3. z = q
        BY <2>5, <4>1, <4>2, SeqEqual
      <4> QED BY <4>3 DEF z
    <3> QED BY <3>1, <3>2
  <2> HIDE DEF w
  <2>8. response.schema[q] = IF Kind(p[n]) = "#" THEN "array" ELSE "object"
    <3>1. w \in DOMAIN response.schema \ {<< >>}
      BY <2>5, <2>6, <2>7 DEF w
    <3>2. response.schema[SubSeq(w, 1, Len(w) - 1)] = IF w[Len(w)] = "#" THEN "array" ELSE "object"
      BY <3>1 DEF Held!Conforms
    <3> QED BY <2>7, <3>2
  <2>9. /\ p[n] \in Held!Indices => response.schema[q] = "array"
        /\ p[n] \notin Held!Indices => response.schema[q] = "object"
    BY <2>3, <2>8, SegmentKinds
  <2>10. Held!KindAt(SubSeq(p, 1, n - 1)) = response.schema[q]
    BY DEF Held!KindAt, q, u, Upto
  <2>11. Held!InSchema(SubSeq(p, 1, n)) \in DOMAIN response.schema
    BY <2>6 DEF v, Upto
  <2> HIDE DEF Held!KindAt, Held!InSchema
  <2> QED BY <2>9, <2>10, <2>11 DEF Held!Astray
<1> QED BY <1>1, <1>2, WalkIsWhole

\* A path that the schema allows is there in an answer that has all of its schema.
LEMMA AllowedIsAnswered ==
  ASSUME Held!Conforms(response), Held!Full,
         NEW p \in Seq(Held!Segment), Held!WalkOutput(p) = {}
  PROVE  p \in DOMAIN response.answer
<1>1. \A n \in 1..Len(p) : p[n] \in Held!Segment
  OBVIOUS
<1>2. p \in Seq(Text) /\ Len(p) \in Nat
  BY <1>1, SegmentKinds
<1>3. \A n \in 1..Len(p) : Held!Astray(p, n) = {}
  BY <1>2, WalkIsWhole
<1>4. ASSUME NEW n \in 0..Len(p), Upto(p, n) \notin DOMAIN response.answer PROVE FALSE
  <2> DEFINE T == {k \in Nat : k \in 0..Len(p) /\ Upto(p, k) \notin DOMAIN response.answer}
  <2>1. n \in T
    BY <1>2, <1>4
  <2>2. PICK k \in T : \A l \in T : ~(<<l, k>> \in OpToRel(<, Nat))
    BY <2>1, NatLessThanWellFounded, WFMin
  <2>3. k \in 0..Len(p) /\ Upto(p, k) \notin DOMAIN response.answer /\ k \in Nat
    OBVIOUS
  <2>4. k # 0
    <3>1. Upto(p, 0) = << >>
      BY <1>2 DEF Upto
    <3>2. << >> \in DOMAIN response.answer
      BY DEF Held!Conforms
    <3> QED BY <2>3, <3>1, <3>2
  <2>5. k \in 1..Len(p) /\ k - 1 \in 0..Len(p) /\ k - 1 \in Nat /\ k - 1 < k
    BY <1>2, <2>3, <2>4
  <2>6. Upto(p, k - 1) \in DOMAIN response.answer
    <3>1. k - 1 \notin T
      BY <2>2, <2>3, <2>5 DEF OpToRel
    <3> QED BY <2>5, <3>1
  <2> DEFINE u == Upto(p, k - 1)
             s == p[k]
             q == Held!InSchema(u)
  <2>7. /\ u \in Seq(Text) /\ Upto(p, k) = Append(u, s)
        /\ s \in Held!Segment /\ s \in Text /\ s # "#"
    BY <1>1, <1>2, <2>5, UptoGrows, SegmentKinds
  <2>8. q \in DOMAIN response.schema
    BY <2>6 DEF Held!Conforms
  <2>9. Held!Astray(p, k) = {}
    BY <1>3, <2>5
  <2>10. Held!KindAt(SubSeq(p, 1, k - 1)) = response.schema[q]
    BY DEF Held!KindAt, Upto
  <2>11. SubSeq(p, 1, k) = Append(u, s)
    BY <2>7 DEF Upto
  <2> HIDE DEF u, s
  <2>12. Held!InSchema(Append(u, s)) = Append(q, Kind(s)) /\ q \in Seq(Text) /\ Kind(s) \in Text
    BY <2>7, SchemaPath, SchemaPathIs, KindIsSegment
  <2> HIDE DEF q
  <2>13. Append(u, s) \in DOMAIN response.answer
    <3>1. CASE s \in Held!Indices
      <4>1. response.schema[q] = "array"
        BY <2>9, <2>10, <3>1 DEF Held!Astray, s
      <4>2. Append(q, "#") \in DOMAIN response.schema
        BY <2>8, <4>1 DEF Held!Conforms
      <4>3. Kind(s) = "#" /\ s \in Held!Names
        BY <2>7, <3>1, SegmentKinds DEF Held!Names
      <4>4. Held!InSchema(Append(u, s)) \in DOMAIN response.schema
        BY <2>12, <4>2, <4>3
      <4> QED BY <2>6, <4>3, <4>4 DEF Held!Full, u
    <3>2. CASE s \notin Held!Indices
      <4>1. response.schema[q] = "object" /\ Held!InSchema(Append(u, s)) \in DOMAIN response.schema
        BY <2>9, <2>10, <2>11, <3>2 DEF Held!Astray, s
      <4>2. Kind(s) = s
        BY <2>7, <3>2, SegmentKinds
      <4> DEFINE w == Append(q, s)
      <4>3. w # << >> /\ w[Len(w)] = s
        <5>1. Len(w) = Len(q) + 1 /\ w[Len(q) + 1] = s /\ Len(q) \in Nat /\ w \in Seq(Text)
          BY <2>7, <2>12, AppendIs
        <5> QED BY <5>1
      <4>4. w \in DOMAIN response.schema
        BY <2>12, <4>1, <4>2
      <4> HIDE DEF w
      <4>5. s \in Held!Names
        BY <2>7, <4>3, <4>4 DEF Held!Names
      <4> QED BY <2>6, <4>1, <4>5 DEF Held!Full, u
    <3> QED BY <3>1, <3>2
  <2> QED BY <2>3, <2>7, <2>13
<1>5. Upto(p, Len(p)) = p
  BY <1>2 DEF Upto
<1> QED BY <1>2, <1>4, <1>5

\* What a call is held to was found whole before it went on; it ends where it is said
\* to, and for the reason that is given.
HeldInv ==
  /\ \E c \in Cases : world = c.world /\ step = c.step /\ response = c.response
  /\ reached \in {"posed", "rejected", "admitted", "resolved", "raised", "previewed",
                  "refused", "asked"}
  /\ reached \notin {"posed", "rejected"} =>
       Held!Whitelist = {} /\ Held!Arguments = {} /\ Held!OutputReferences = {}
  /\ reached = "raised" => Held!Unresolved # {}
  /\ reached = "refused" => step.type = "action" /\ Held!Lacking # {}

LEMMA HeldInit == Held!Init => HeldInv
BY DEF Held!Init, Held!Pose, HeldInv

LEMMA HeldNext == HeldInv /\ [Held!Next]_(Held!vars) => HeldInv'
<1> SUFFICES ASSUME HeldInv, [Held!Next]_(Held!vars) PROVE HeldInv'
  OBVIOUS
<1>0. world' = world /\ step' = step /\ response' = response
  BY DEF Held!Next, Held!Check, Held!Resolve, Held!Propose, Held!Ask, Held!vars
<1>1. /\ Held!Whitelist' = Held!Whitelist /\ Held!Arguments' = Held!Arguments
      /\ Held!OutputReferences' = Held!OutputReferences
      /\ Held!Unresolved' = Held!Unresolved /\ Held!Lacking' = Held!Lacking
  BY <1>0 DEF Held!Whitelist, Held!Arguments, Held!OutputReferences, Held!Unresolved, Held!Lacking,
       Held!Registered, Held!HasSkill, Held!Skill, Held!ReadVerbs, Held!scope_allows,
       Held!IsReference, Held!Given, Held!Mistyped, Held!Linked, Held!Typed, Held!WalkOutput,
       Held!Astray, Held!KindAt, Held!InSchema, Held!Follows, Held!Hollow
<1> DEFINE Whole == Held!Whitelist = {} /\ Held!Arguments = {} /\ Held!OutputReferences = {}
<1>2. /\ \E c \in Cases : world = c.world /\ step = c.step /\ response = c.response
      /\ reached \notin {"posed", "rejected"} => Whole
  BY DEF HeldInv
<1>3. CASE Held!Check
  <2>1. /\ reached' = IF errors' = {} THEN "admitted" ELSE "rejected"
        /\ errors' = Held!Whitelist \cup Held!Arguments \cup Held!OutputReferences
    BY <1>3 DEF Held!Check
  <2>2. reached' = "admitted" => Whole
    BY <2>1
  <2> QED BY <1>0, <1>1, <1>2, <2>1, <2>2 DEF HeldInv
<1>4. CASE Held!Resolve
  <2>1. /\ reached = "admitted"
        /\ reached' = IF Held!Unresolved = {} THEN "resolved" ELSE "raised"
    BY <1>4 DEF Held!Resolve
  <2> QED BY <1>0, <1>1, <1>2, <2>1 DEF HeldInv
<1>5. CASE Held!Propose
  <2>1. /\ reached = "resolved" /\ step.type = "action"
        /\ reached' = IF Held!Lacking = {} THEN "previewed" ELSE "refused"
    BY <1>5 DEF Held!Propose
  <2> QED BY <1>0, <1>1, <1>2, <2>1 DEF HeldInv
<1>6. CASE Held!Ask
  <2>1. reached = "resolved" /\ reached' = "asked"
    BY <1>6 DEF Held!Ask
  <2> QED BY <1>0, <1>1, <1>2, <2>1 DEF HeldInv
<1>7. CASE UNCHANGED Held!vars
  <2>1. reached' = reached
    BY <1>7 DEF Held!vars
  <2> QED BY <1>0, <1>1, <2>1 DEF HeldInv
<1> QED BY <1>3, <1>4, <1>5, <1>6, <1>7 DEF Held!Next

\* An argument that is a reference has a path to follow.
LEMMA ReferencesHavePaths ==
  ASSUME HeldInv
  PROVE  /\ Held!Conforms(response)
         /\ step.type \in {"action", "query"}
         /\ \A a \in Held!Linked : step.args[a].path \in Seq(Held!Segment) \ {<< >>}
<1>1. PICK c \in Cases : world = c.world /\ step = c.step /\ response = c.response
  BY DEF HeldInv
<1>2. /\ Held!Conforms(c.response)
      /\ c.step.type \in {"action", "query"}
      /\ \A a \in DOMAIN c.step.args :
           c.step.args[a].kind = "reference" => c.step.args[a].path \in Seq(Held!Segment) \ {<< >>}
  BY KernelAssumption DEF Held!IsBounded
<1> QED BY <1>1, <1>2 DEF Held!Linked, Held!Given, Held!IsReference

LEMMA HeldIsKept == HeldInv => CallsKeepTheirContract
<1> SUFFICES ASSUME HeldInv PROVE CallsKeepTheirContract
  OBVIOUS
<1>0. Held!Conforms(response) /\ step.type \in {"action", "query"}
  BY ReferencesHavePaths
<1> DEFINE checked == {a \in Held!Linked : Held!Typed(step.args[a].path)}
<1>1. ASSUME NEW a \in checked
      PROVE  Tail(step.args[a].path) \in Seq(Held!Segment)
  <2> DEFINE path == step.args[a].path
  <2>1. path \in Seq(Held!Segment) \ {<< >>}
    BY ReferencesHavePaths
  <2> HIDE DEF path
  <2>2. Tail(path) \in Seq(Held!Segment)
    BY <2>1
  <2> QED BY <2>2 DEF path
<1>2. ASSUME reached = "raised", Held!Full, Held!Unresolved \subseteq checked PROVE FALSE
  <2>1. Held!Unresolved # {} /\ Held!OutputReferences = {}
    BY <1>2 DEF HeldInv
  <2>2. PICK a \in Held!Unresolved : a \in checked
    BY <1>2, <2>1
  <2>3. a \in Held!Linked /\ Held!Typed(step.args[a].path) /\ ~Held!Follows(step.args[a].path)
    BY <2>2 DEF Held!Unresolved
  <2>4. Held!WalkOutput(Tail(step.args[a].path)) = {}
    BY <2>1, <2>3 DEF Held!OutputReferences
  <2>5. Tail(step.args[a].path) \in DOMAIN response.answer
    BY <1>0, <1>1, <1>2, <2>2, <2>4, AllowedIsAnswered
  <2> QED BY <2>3, <2>5 DEF Held!Follows, Held!Typed
<1>3. ASSUME NEW a \in checked, Held!Follows(step.args[a].path)
      PROVE  Held!WalkOutput(Tail(step.args[a].path)) = {}
  <2>1. Tail(step.args[a].path) \in DOMAIN response.answer
    BY <1>3 DEF Held!Follows
  <2> QED BY <1>0, <2>1, AnsweredIsAllowed
<1>4. Held!PathsFollow
  BY <1>2, <1>3 DEF Held!PathsFollow
<1>5. ASSUME reached \in {"previewed", "refused", "asked"}
      PROVE  /\ Held!Registered /\ Held!scope_allows(step.verb)
             /\ reached = "refused" => \E a \in Held!Skill.required \cap Held!Given : Held!Hollow(a)
  <2>1. Held!Whitelist = {} /\ Held!Arguments = {}
    BY <1>5 DEF HeldInv
  <2>2. Held!Registered /\ Held!scope_allows(step.verb)
    BY <2>1 DEF Held!Whitelist
  <2>3. ASSUME reached = "refused"
        PROVE  \E a \in Held!Skill.required \cap Held!Given : Held!Hollow(a)
    <3>1. step.type = "action" /\ Held!Lacking # {}
      BY <2>3 DEF HeldInv
    <3>2. Held!HasSkill
      BY <2>2, <3>1 DEF Held!Registered
    <3>3. Held!Skill.required \subseteq Held!Given
      BY <2>1, <3>1, <3>2 DEF Held!Arguments
    <3> QED BY <3>1, <3>3 DEF Held!Lacking
  <2> QED BY <2>2, <2>3
<1>6. Held!ReachesTheEdge
  BY <1>5 DEF Held!ReachesTheEdge
<1> QED BY <1>4, <1>6 DEF CallsKeepTheirContract, Held!ContractIsKept

\* What is checked of the call of a step is what its run needs: an answer that has all of
\* its schema leads every checked reference to a value, and a granted step is refused for
\* nothing but an empty argument.
THEOREM ContractStaysKept == KernelSpec => []CallsKeepTheirContract
BY HeldInit, HeldNext, HeldIsKept, JobsAreApart, PTL DEF Held!Spec
-----------------------------------------------------------------------------
(* Repairs.                                                                 *)

Proposals == [entity : Missing, id : Missing \cup {None}]
Answers == [entity : Missing, resolution : Mending!Resolutions]

LoopTypeOK ==
  /\ needs \subseteq Missing /\ refusal \in needs \cup {None}
  /\ loopPhase \in {"read", "propose", "retry", "done"}
  /\ attempt \in 1..MaxAttempts
  /\ args \in [Missing -> Missing \cup {None}]
  /\ created \in Seq(Proposals) /\ asked \in Seq(Answers)

\* How many proposals and questions a phase has behind it.
LoopPace ==
  /\ loopPhase \in {"read", "propose"} => Len(created) = attempt - 1
  /\ loopPhase = "retry" => Len(created) = attempt
  /\ Len(created) <= MaxAttempts
  /\ loopPhase \in {"read", "retry"} => Len(asked) = Len(created)
  /\ loopPhase = "propose" =>
       /\ Len(asked) = Len(created) + 1
       /\ asked[Len(asked)] = [entity |-> refusal, resolution |-> "value"]
  /\ loopPhase = "done" => Len(asked) >= Len(created)

\* A refusal that is worked on prescribes what still has no id.
LoopAim ==
  /\ loopPhase \in {"read", "propose"} /\ refusal # None => args[refusal] = None
  /\ loopPhase \in {"propose", "retry"} => refusal # None
  /\ loopStatus = "exhausted" =>
       /\ loopPhase = "done" /\ Len(created) = MaxAttempts
       /\ refusal # None /\ args[refusal] = None
  /\ final = "done" => loopPhase = "done" /\ \A e \in needs : args[e] # None

\* An argument has the id of the last proposal of its entity, and no earlier one has any.
LoopLedger ==
  /\ \A e \in Missing :
       args[e] # None => args[e] = e /\ \E i \in DOMAIN created : created[i] = [entity |-> e, id |-> e]
  /\ \A i \in DOMAIN created :
       /\ created[i].entity \in needs
       /\ asked[i] = [entity |-> created[i].entity, resolution |-> "value"]
       /\ args[created[i].entity] = None => created[i].id = None
       /\ \A j \in 1..(i - 1) : created[j].entity = created[i].entity => created[j].id = None

LoopInv == LoopTypeOK /\ LoopPace /\ LoopAim /\ LoopLedger

LEMMA LoopBounds == MaxAttempts \in Nat \ {0} /\ IsFiniteSet(Missing) /\ None \notin Missing
<1>1. MaxAttempts \in Nat \ {0} /\ Mending!IsFiniteSet(Missing) /\ None \notin Missing
  BY KernelAssumption DEF Mending!IsBounded
<1>2. Mending!IsFiniteSet(Missing) <=> IsFiniteSet(Missing)
  BY DEF Mending!IsFiniteSet, IsFiniteSet
<1> QED BY <1>1, <1>2

LEMMA LoopInit == Mending!Init => LoopInv
<1> SUFFICES ASSUME Mending!Init PROVE LoopInv
  OBVIOUS
<1>1. PICK missing \in SUBSET Missing :
        \E prescribed \in missing \cup {None} : Mending!Begin(missing, prescribed)
  BY DEF Mending!Init
<1>2. PICK prescribed \in missing \cup {None} : Mending!Begin(missing, prescribed)
  BY <1>1
<1>3. /\ needs = missing /\ refusal = prescribed /\ loopPhase = "read" /\ attempt = 1
      /\ args = [e \in Missing |-> None] /\ created = << >> /\ asked = << >>
      /\ final = "none" /\ loopStatus = "none"
  BY <1>2 DEF Mending!Begin
<1>4. LoopTypeOK
  BY <1>3, LoopBounds DEF LoopTypeOK
<1>5. LoopPace
  BY <1>3, LoopBounds DEF LoopPace
<1>6. LoopAim
  BY <1>3 DEF LoopAim
<1>7. LoopLedger
  BY <1>3 DEF LoopLedger
<1> QED BY <1>4, <1>5, <1>6, <1>7 DEF LoopInv

LEMMA LoopGiveUp == LoopInv /\ Mending!GiveUp => LoopInv'
<1> SUFFICES ASSUME LoopInv, Mending!GiveUp PROVE LoopInv'
  OBVIOUS
<1>1. /\ loopPhase = "read" /\ loopPhase' = "done"
      /\ loopStatus' \in {"not_repairable", "repaired"}
      /\ needs' = needs /\ refusal' = refusal /\ attempt' = attempt /\ args' = args
      /\ created' = created /\ final' = final /\ asked' = asked
  BY DEF Mending!GiveUp, Mending!Finish, Mending!loop
<1> QED BY <1>1 DEF LoopInv, LoopTypeOK, LoopPace, LoopAim, LoopLedger

LEMMA LoopResolve == LoopInv /\ Mending!Resolve => LoopInv'
<1> SUFFICES ASSUME LoopInv, Mending!Resolve PROVE LoopInv'
  OBVIOUS
<1>1. /\ loopPhase = "read" /\ refusal # None
      /\ needs' = needs /\ refusal' = refusal /\ attempt' = attempt /\ args' = args
      /\ created' = created /\ final' = final
  BY DEF Mending!Resolve, Mending!loop
<1>2. PICK r \in Mending!Resolutions :
        /\ asked' = Append(asked, [entity |-> refusal, resolution |-> r])
        /\ CASE r = "value"      -> loopPhase' = "propose" /\ UNCHANGED loopStatus
             [] r = "candidates" -> Mending!Finish("ambiguous")
             [] r = "nothing"    -> Mending!Finish("unresolved")
  BY DEF Mending!Resolve
<1>3. \/ r = "value" /\ loopPhase' = "propose" /\ loopStatus' = loopStatus
      \/ loopPhase' = "done" /\ loopStatus' \in {"ambiguous", "unresolved"}
  BY <1>2 DEF Mending!Resolutions, Mending!Finish
<1> DEFINE new == [entity |-> refusal, resolution |-> r]
<1>4. LoopTypeOK /\ LoopPace /\ LoopAim /\ LoopLedger
  BY DEF LoopInv
<1>5. new \in Answers /\ asked \in Seq(Answers)
  BY <1>1, <1>4 DEF LoopTypeOK, Answers
<1> HIDE DEF new
<1>6. /\ asked' \in Seq(Answers) /\ Len(asked') = Len(asked) + 1
      /\ asked'[Len(asked) + 1] = new /\ \A i \in 1..Len(asked) : asked'[i] = asked[i]
  <2>1. asked' = Append(asked, new)
    BY <1>2 DEF new
  <2> QED BY <1>5, <2>1, AppendIs
<1>7. LoopTypeOK'
  BY <1>1, <1>3, <1>4, <1>6 DEF LoopTypeOK
<1>8. Len(created) \in Nat /\ Len(asked) \in Nat /\ Len(asked) = Len(created)
      /\ DOMAIN created = 1..Len(created)
  BY <1>1, <1>4 DEF LoopTypeOK, LoopPace
<1>9. LoopPace'
  <2>1. CASE r = "value" /\ loopPhase' = "propose"
    <3>1. new = [entity |-> refusal, resolution |-> "value"]
      BY <2>1 DEF new
    <3> QED BY <1>1, <1>4, <1>6, <1>8, <2>1, <3>1 DEF LoopPace
  <2>2. CASE loopPhase' = "done"
    BY <1>1, <1>4, <1>6, <1>8, <2>2 DEF LoopPace
  <2> QED BY <1>3, <2>1, <2>2
<1>10. LoopAim'
  BY <1>1, <1>3, <1>4 DEF LoopAim
<1>11. LoopLedger'
  BY <1>1, <1>4, <1>6, <1>8 DEF LoopLedger
<1> QED BY <1>7, <1>9, <1>10, <1>11 DEF LoopInv

LEMMA LoopPropose == LoopInv /\ Mending!Propose => LoopInv'
<1> SUFFICES ASSUME LoopInv, Mending!Propose PROVE LoopInv'
  OBVIOUS
<1>1. /\ loopPhase = "propose" /\ loopPhase' = "retry"
      /\ needs' = needs /\ refusal' = refusal /\ attempt' = attempt
      /\ final' = final /\ loopStatus' = loopStatus /\ asked' = asked
  BY DEF Mending!Propose
<1>2. PICK id \in {refusal, None} :
        /\ created' = Append(created, [entity |-> refusal, id |-> id])
        /\ args' = [args EXCEPT ![refusal] = id]
  BY DEF Mending!Propose
<1> DEFINE new == [entity |-> refusal, id |-> id]
<1>3. LoopTypeOK /\ LoopPace /\ LoopAim /\ LoopLedger
  BY DEF LoopInv
<1>4. refusal \in needs /\ refusal # None /\ refusal \in Missing /\ args[refusal] = None
  BY <1>1, <1>3 DEF LoopTypeOK, LoopAim
<1>5. new \in Proposals /\ created \in Seq(Proposals) /\ new.entity = refusal /\ new.id = id
      /\ (id = refusal => new = [entity |-> refusal, id |-> refusal])
  BY <1>3, <1>4 DEF LoopTypeOK, Proposals
<1> DEFINE n == Len(created) + 1
<1>6. created' = Append(created, new)
  BY <1>2
<1> HIDE DEF new
<1>7. /\ created' \in Seq(Proposals) /\ Len(created') = n
      /\ created'[n] = new /\ \A i \in 1..Len(created) : created'[i] = created[i]
      /\ Len(created) \in Nat /\ DOMAIN created = 1..Len(created) /\ DOMAIN created' = 1..n
      /\ n \in DOMAIN created' /\ DOMAIN created \subseteq DOMAIN created'
  <2>1. /\ created' \in Seq(Proposals) /\ Len(created') = Len(created) + 1
        /\ created'[Len(created) + 1] = new /\ \A i \in 1..Len(created) : created'[i] = created[i]
    BY <1>5, <1>6, AppendIs
  <2>2. Len(created) \in Nat /\ DOMAIN created = 1..Len(created) /\ DOMAIN created' = 1..Len(created')
    BY <1>5, <2>1
  <2> QED BY <2>1, <2>2
<1>8. n \in Nat /\ n = attempt /\ n <= MaxAttempts /\ Len(asked) = n
      /\ asked[n] = [entity |-> refusal, resolution |-> "value"]
  BY <1>1, <1>3, <1>7, LoopBounds DEF LoopPace, LoopTypeOK
<1> HIDE DEF n
<1>9. \A e \in Missing : args'[e] = IF e = refusal THEN id ELSE args[e]
  BY <1>2, <1>3 DEF LoopTypeOK
<1>10. LoopTypeOK'
  BY <1>1, <1>2, <1>3, <1>4, <1>7 DEF LoopTypeOK
<1>11. LoopPace'
  BY <1>1, <1>7, <1>8 DEF LoopPace
<1>12. LoopAim'
  BY <1>1, <1>3, <1>4 DEF LoopAim
<1>13. ASSUME NEW e \in Missing, args'[e] # None
       PROVE  args'[e] = e /\ \E i \in DOMAIN created' : created'[i] = [entity |-> e, id |-> e]
  <2>1. CASE e = refusal
    BY <1>4, <1>5, <1>7, <1>9, <1>13, <2>1
  <2>2. CASE e # refusal
    <3>1. args[e] # None
      BY <1>9, <1>13, <2>2
    <3>2. PICK i \in DOMAIN created : created[i] = [entity |-> e, id |-> e]
      BY <1>3, <3>1 DEF LoopLedger
    <3>3. args[e] = e
      BY <1>3, <3>1 DEF LoopLedger
    <3>4. i \in DOMAIN created' /\ created'[i] = created[i]
      BY <1>7
    <3> QED BY <1>9, <2>2, <3>2, <3>3, <3>4
  <2> QED BY <2>1, <2>2
<1>14. ASSUME NEW i \in DOMAIN created
       PROVE  /\ i \in Nat /\ created'[i] = created[i] /\ created[i].entity \in Missing
              /\ created[i].entity \in needs
              /\ asked[i] = [entity |-> created[i].entity, resolution |-> "value"]
              /\ args[created[i].entity] = None => created[i].id = None
              /\ \A j \in 1..(i - 1) : created[j].entity = created[i].entity => created[j].id = None
  BY <1>3, <1>7, <1>14 DEF LoopLedger, LoopTypeOK
<1>15. ASSUME NEW i \in DOMAIN created'
       PROVE  /\ created'[i].entity \in needs
              /\ asked[i] = [entity |-> created'[i].entity, resolution |-> "value"]
              /\ args'[created'[i].entity] = None => created'[i].id = None
              /\ \A j \in 1..(i - 1) :
                   created'[j].entity = created'[i].entity => created'[j].id = None
  <2>1. i = n \/ i \in DOMAIN created
    BY <1>7 DEF n
  <2>2. CASE i = n
    <3>1. \A j \in 1..(i - 1) : j \in DOMAIN created
      BY <1>7, <2>2 DEF n
    <3>2. created'[i] = new
      BY <1>7, <2>2
    <3>3. \A j \in 1..(i - 1) : created'[j].entity = refusal => created'[j].id = None
      BY <1>4, <1>14, <3>1
    <3> QED BY <1>4, <1>5, <1>8, <1>9, <2>2, <3>2, <3>3
  <2>3. CASE i \in DOMAIN created
    <3>1. \A j \in 1..(i - 1) : j \in DOMAIN created
      BY <1>7, <2>3
    <3>2. \A j \in 1..(i - 1) :
            created'[j].entity = created'[i].entity => created'[j].id = None
      BY <1>14, <2>3, <3>1, ZenonT(60)
    <3>3. args'[created'[i].entity] = None => created'[i].id = None
      BY <1>4, <1>9, <1>14, <2>3, ZenonT(60)
    <3> QED BY <1>14, <2>3, <3>2, <3>3
  <2> QED BY <2>1, <2>2, <2>3
<1>16. LoopLedger'
  BY <1>1, <1>13, <1>15 DEF LoopLedger
<1> QED BY <1>10, <1>11, <1>12, <1>16 DEF LoopInv

LEMMA LoopRetry == LoopInv /\ Mending!Retry => LoopInv'
<1> SUFFICES ASSUME LoopInv, Mending!Retry PROVE LoopInv'
  OBVIOUS
<1>1. /\ loopPhase = "retry" /\ needs' = needs /\ args' = args
      /\ created' = created /\ asked' = asked
  BY DEF Mending!Retry
<1>2. LoopTypeOK /\ LoopPace /\ LoopAim /\ LoopLedger
  BY DEF LoopInv
<1>3. PICK answer \in Mending!Retried :
        IF answer.repair = None
        THEN /\ Mending!Finish("repaired") /\ final' = answer.outcome
             /\ UNCHANGED <<refusal, attempt>>
        ELSE /\ refusal' = answer.repair /\ UNCHANGED final
             /\ IF attempt = MaxAttempts
                THEN Mending!Finish("exhausted") /\ UNCHANGED attempt
                ELSE /\ attempt' = attempt + 1
                     /\ loopPhase' = "read" /\ UNCHANGED loopStatus
  BY DEF Mending!Retry
<1>4. /\ answer.repair \in Mending!Unmet \cup {None}
      /\ answer.outcome = "done" => Mending!Unmet = {}
  BY DEF Mending!Retried
<1>5. LoopLedger'
  BY <1>1, <1>2 DEF LoopLedger
<1>6. CASE answer.repair = None
  <2>1. /\ loopPhase' = "done" /\ loopStatus' = "repaired" /\ final' = answer.outcome
        /\ refusal' = refusal /\ attempt' = attempt
    BY <1>3, <1>6 DEF Mending!Finish
  <2>2. LoopTypeOK' /\ LoopPace'
    BY <1>1, <1>2, <2>1 DEF LoopTypeOK, LoopPace
  <2>3. LoopAim'
    BY <1>1, <1>2, <1>4, <2>1 DEF LoopAim, Mending!Unmet
  <2> QED BY <1>5, <2>2, <2>3 DEF LoopInv
<1>7. CASE answer.repair # None
  <2>1. /\ refusal' = answer.repair /\ final' = final
        /\ \/ /\ attempt = MaxAttempts /\ attempt' = attempt
              /\ loopPhase' = "done" /\ loopStatus' = "exhausted"
           \/ /\ attempt # MaxAttempts /\ attempt' = attempt + 1
              /\ loopPhase' = "read" /\ loopStatus' = loopStatus
    BY <1>3, <1>7 DEF Mending!Finish
  <2>2. refusal' \in needs /\ refusal' # None /\ args[refusal'] = None
    BY <1>4, <1>7, <2>1 DEF Mending!Unmet
  <2>3. attempt' \in 1..MaxAttempts
    BY <1>2, <2>1, LoopBounds DEF LoopTypeOK
  <2>4. LoopTypeOK'
    BY <1>1, <1>2, <2>1, <2>2, <2>3 DEF LoopTypeOK
  <2>5. LoopPace'
    BY <1>1, <1>2, <2>1 DEF LoopPace, LoopTypeOK
  <2>6. LoopAim'
    BY <1>1, <1>2, <2>1, <2>2 DEF LoopAim, LoopPace
  <2> QED BY <1>5, <2>4, <2>5, <2>6 DEF LoopInv
<1> QED BY <1>6, <1>7

LEMMA LoopNext == LoopInv /\ [Mending!Next]_(Mending!vars) => LoopInv'
<1>1. LoopInv /\ UNCHANGED Mending!vars => LoopInv'
  BY DEF LoopInv, LoopTypeOK, LoopPace, LoopAim, LoopLedger, Mending!vars, Mending!loop, Mending!told
<1> QED BY <1>1, LoopGiveUp, LoopResolve, LoopPropose, LoopRetry DEF Mending!Next

\* Proposals that all got an id are of different entities, none of which is still missing.
LEMMA LimitIsReason ==
  ASSUME LoopInv, loopStatus = "exhausted", \A i \in DOMAIN created : created[i].id # None
  PROVE  Cardinality(needs) > MaxAttempts
<1> DEFINE met == needs \ {refusal}
           f == [i \in 1..MaxAttempts |-> created[i].entity]
<1>1. LoopTypeOK /\ LoopPace /\ LoopAim /\ LoopLedger
  BY DEF LoopInv
<1>2. /\ DOMAIN created = 1..MaxAttempts
      /\ refusal \in needs /\ refusal # None /\ args[refusal] = None
  BY <1>1 DEF LoopTypeOK, LoopAim
<1>3. IsFiniteSet(needs)
  BY <1>1, LoopBounds, FS_Subset DEF LoopTypeOK
<1>4. /\ IsFiniteSet(met) /\ Cardinality(met) = Cardinality(needs) - 1
      /\ Cardinality(needs) \in Nat
  BY <1>2, <1>3, FS_RemoveElement, FS_CardinalityType
<1>5. /\ IsFiniteSet(1..MaxAttempts) /\ Cardinality(1..MaxAttempts) = MaxAttempts
  <2>1. MaxAttempts \in Nat
    BY LoopBounds
  <2> QED BY <2>1, FS_Interval
<1>6. f \in [1..MaxAttempts -> met]
  <2>1. ASSUME NEW i \in 1..MaxAttempts PROVE created[i].entity \in met
    <3>1. i \in DOMAIN created
      BY <1>2
    <3>2. created[i].entity \in needs /\ (args[created[i].entity] = None => created[i].id = None)
      BY <1>1, <3>1 DEF LoopLedger
    <3>3. created[i].id # None
      BY <3>1
    <3>4. created[i].entity # refusal
      BY <1>2, <3>2, <3>3
    <3> QED BY <3>2, <3>4
  <2> QED BY <2>1
<1>7. ASSUME NEW i \in 1..MaxAttempts, NEW j \in 1..MaxAttempts, f[i] = f[j], i < j PROVE FALSE
  <2>1. j \in DOMAIN created /\ i \in DOMAIN created /\ i \in 1..(j - 1)
    BY <1>2, <1>7
  <2>2. created[i].entity = created[j].entity
    BY <1>7
  <2>3. created[i].id = None
    BY <1>1, <2>1, <2>2 DEF LoopLedger
  <2>4. created[i].id # None
    BY <2>1
  <2> QED BY <2>3, <2>4
<1>8. \A i, j \in 1..MaxAttempts : f[i] = f[j] => i = j
  BY <1>7
<1> HIDE DEF met, f
<1>9. Cardinality(1..MaxAttempts) <= Cardinality(met)
  <2>1. f \in Injection(1..MaxAttempts, met)
    BY <1>6, <1>8 DEF Injection, IsInjective
  <2> QED BY <1>4, <1>5, <2>1, FS_Injection
<1> QED BY <1>4, <1>5, <1>9, LoopBounds

LEMMA LoopIsGrounded == LoopInv => Mending!RepairIsGrounded
<1> SUFFICES ASSUME LoopInv PROVE Mending!RepairIsGrounded
  OBVIOUS
<1>1. LoopTypeOK /\ LoopPace /\ LoopAim /\ LoopLedger
  BY DEF LoopInv
<1>2. Len(created) <= MaxAttempts
  BY <1>1 DEF LoopPace
<1>3. \A i \in DOMAIN created :
        /\ asked[i] = [entity |-> created[i].entity, resolution |-> "value"]
        /\ \A j \in 1..(i - 1) : created[j].entity = created[i].entity => created[j].id = None
  BY <1>1 DEF LoopLedger
<1>4. loopStatus = "exhausted" =>
        \/ Mending!Cardinality(needs) > MaxAttempts
        \/ \E i \in DOMAIN created : created[i].id = None
  <2>1. Mending!Cardinality(needs) = Cardinality(needs)
    BY DEF Mending!Cardinality, Cardinality
  <2> QED BY <2>1, LimitIsReason
<1>5. ASSUME final = "done", NEW e \in needs
      PROVE  [entity |-> e, id |-> e] \in Mending!ToSet(created)
  <2>1. e \in Missing /\ args[e] # None
    BY <1>1, <1>5 DEF LoopAim, LoopTypeOK
  <2>2. PICK i \in DOMAIN created : created[i] = [entity |-> e, id |-> e]
    BY <1>1, <2>1 DEF LoopLedger
  <2> QED BY <2>2 DEF Mending!ToSet
<1> QED BY <1>2, <1>3, <1>4, <1>5 DEF Mending!RepairIsGrounded

-----------------------------------------------------------------------------
(* Prerequisites: what a verb needs.                                        *)

\* Of declarations d, when e exists: the verbs that verb v needs, and needs in the end.
Wants(d, e, v) == {p.verb : p \in {q \in Saga!ToSet(d[v]) : q.entity \notin e}}
Closes(d, e, v, C) == \A u \in C \cup {v} : Wants(d, e, u) \subseteq C
Required(d, e, v) == {u \in Verbs : \A C \in SUBSET Verbs : Closes(d, e, v, C) => u \in C}

\* No verb on the way from v needs itself.
Sound(d, e, v) == \A u \in {v} \cup Required(d, e, v) : u \notin Required(d, e, u)

Declared == [Verbs -> Seq(Saga!Prereq)]

LEMMA DeclaredAre ==
  ASSUME NEW d \in Declared, NEW v \in Verbs
  PROVE  /\ d[v] \in Seq(Saga!Prereq) /\ Len(d[v]) \in Nat /\ DOMAIN d[v] = 1..Len(d[v])
         /\ \A i \in 1..Len(d[v]) :
              d[v][i] \in Saga!Prereq /\ d[v][i].verb \in Verbs /\ d[v][i] \in Saga!ToSet(d[v])
         /\ \A p \in Saga!ToSet(d[v]) : \E i \in 1..Len(d[v]) : p = d[v][i]
<1>1. d[v] \in Seq(Saga!Prereq)
  BY DEF Declared
<1>2. Len(d[v]) \in Nat /\ DOMAIN d[v] = 1..Len(d[v]) /\ \A i \in 1..Len(d[v]) : d[v][i] \in Saga!Prereq
  BY <1>1
<1> QED BY <1>1, <1>2 DEF Saga!ToSet, Saga!Prereq

LEMMA WantsVerbs ==
  ASSUME NEW d \in Declared, NEW e, NEW v \in Verbs
  PROVE  Wants(d, e, v) \subseteq Verbs
BY DeclaredAre DEF Wants

LEMMA RequiredIsClosed ==
  ASSUME NEW d \in Declared, NEW e, NEW v \in Verbs
  PROVE  Closes(d, e, v, Required(d, e, v))
<1> SUFFICES ASSUME NEW u \in Required(d, e, v) \cup {v}, NEW w \in Wants(d, e, u)
             PROVE  w \in Required(d, e, v)
  BY DEF Closes
<1>1. u \in Verbs
  BY DEF Required
<1>2. w \in Verbs
  BY <1>1, WantsVerbs
<1>3. ASSUME NEW C \in SUBSET Verbs, Closes(d, e, v, C) PROVE w \in C
  <2>1. u \in C \cup {v}
    BY <1>3 DEF Required
  <2> QED BY <1>3, <2>1 DEF Closes
<1> QED BY <1>2, <1>3 DEF Required

LEMMA RequiredIsLeast ==
  ASSUME NEW d, NEW e, NEW v, NEW C \in SUBSET Verbs, Closes(d, e, v, C)
  PROVE  Required(d, e, v) \subseteq C
BY DEF Required

LEMMA RequiredGoesOn ==
  ASSUME NEW d \in Declared, NEW e, NEW v \in Verbs, NEW u \in Required(d, e, v)
  PROVE  Required(d, e, u) \subseteq Required(d, e, v)
<1>1. Closes(d, e, u, Required(d, e, v))
  BY RequiredIsClosed DEF Closes
<1> QED BY <1>1, RequiredIsLeast DEF Required

LEMMA RequiredSplits ==
  ASSUME NEW d \in Declared, NEW e, NEW v \in Verbs, NEW u \in Required(d, e, v)
  PROVE  \E w \in Wants(d, e, v) : u = w \/ u \in Required(d, e, w)
<1> DEFINE C == UNION {{w} \cup Required(d, e, w) : w \in Wants(d, e, v)}
<1>1. Wants(d, e, v) \subseteq Verbs
  BY WantsVerbs
<1>2. C \in SUBSET Verbs
  BY <1>1 DEF Required
<1>3. ASSUME NEW w \in Wants(d, e, v), NEW x \in {w} \cup Required(d, e, w)
      PROVE  Wants(d, e, x) \subseteq Required(d, e, w)
  BY <1>1, RequiredIsClosed DEF Closes
<1>4. \A x \in C : Wants(d, e, x) \subseteq C
  BY <1>3
<1>5. Wants(d, e, v) \subseteq C
  OBVIOUS
<1>6. Closes(d, e, v, C)
  BY <1>4, <1>5 DEF Closes
<1>7. u \in C
  BY <1>2, <1>6, RequiredIsLeast
<1> QED BY <1>7

LEMMA SoundFromNeeds ==
  ASSUME NEW d \in Declared, NEW e, NEW v \in Verbs,
         \A w \in Wants(d, e, v) : Sound(d, e, w)
  PROVE  Sound(d, e, v)
<1>1. ASSUME NEW u \in {v} \cup Required(d, e, v), u \in Required(d, e, u) PROVE FALSE
  <2>1. u \in Required(d, e, v)
    BY <1>1
  <2>2. PICK w \in Wants(d, e, v) : u = w \/ u \in Required(d, e, w)
    BY <2>1, RequiredSplits
  <2> QED BY <1>1, <2>2 DEF Sound
<1> QED BY <1>1 DEF Sound

\* The model's own words for it.
LEMMA NeedsAreWants ==
  /\ \A v : Saga!Needs(v) = Wants(declared, existing, v)
  /\ \A v : Saga!Needed(v) = Required(declared, existing, v)
BY DEF Saga!Needs, Saga!Needed, Wants, Required, Closes
-----------------------------------------------------------------------------
(* The planner's search.                                                    *)

Visits == [verb : Verbs, at : Nat \ {0}]

Of(ch) == {ch[j].entity : j \in 1..Len(ch)}

\* A visit f has settled the prerequisites before the one it is at.
Settled(d, e, p, ch) == p.entity \in e \/ (p.entity \in Of(ch) /\ Sound(d, e, p.verb))
SeenTo(d, e, f, ch) ==
  /\ f.at <= Len(d[f.verb]) + 1
  /\ \A i \in 1..(f.at - 1) : Settled(d, e, d[f.verb][i], ch)

\* A visit f has called one of verb v.
CallsFor(d, e, f, v) ==
  /\ f.at <= Len(d[f.verb])
  /\ d[f.verb][f.at].entity \notin e /\ d[f.verb][f.at].verb = v

Searching(d, e, vs, ch) ==
  /\ vs \in Seq(Visits) /\ Len(vs) > 0 /\ vs[1].verb = Goal
  /\ \A k \in 1..Len(vs) : SeenTo(d, e, vs[k], ch)
  /\ \A k \in 1..(Len(vs) - 1) : CallsFor(d, e, vs[k], vs[k + 1].verb)

\* What is planned finds what it needs, and is planned once.
Ordered(d, e, ch) ==
  /\ ch \in Seq(Saga!Prereq)
  /\ \A i \in 1..Len(ch) :
       /\ ch[i].entity \notin e
       /\ \A j \in 1..(i - 1) : ch[j].entity # ch[i].entity
       /\ \A p \in Saga!ToSet(d[ch[i].verb]) : p.entity \in e \cup {ch[j].entity : j \in 1..(i - 1)}
       /\ \E v \in Verbs : ch[i] \in Saga!ToSet(d[v])

LEMMA VisitsAre ==
  ASSUME NEW vs \in Seq(Visits), NEW k \in 1..Len(vs)
  PROVE  vs[k] \in Visits /\ vs[k].verb \in Verbs /\ vs[k].at \in Nat \ {0}
<1>1. vs[k] \in Visits
  OBVIOUS
<1> QED BY <1>1 DEF Visits

\* The innermost visit goes on.
LEMMA SearchPasses ==
  ASSUME NEW d \in Declared, NEW e, NEW vs, NEW ch, Searching(d, e, vs, ch),
         vs[Len(vs)].at <= Len(d[vs[Len(vs)].verb]),
         Settled(d, e, d[vs[Len(vs)].verb][vs[Len(vs)].at], ch)
  PROVE  Searching(d, e, [vs EXCEPT ![Len(vs)].at = @ + 1], ch)
<1> DEFINE n == Len(vs)
           t == vs[n]
           x == [vs EXCEPT ![n].at = @ + 1]
           y == [t EXCEPT !.at = @ + 1]
<1>1. /\ vs \in Seq(Visits) /\ n \in Nat /\ n > 0 /\ vs[1].verb = Goal /\ n \in 1..Len(vs)
      /\ DOMAIN vs = 1..n
  BY DEF Searching
<1>2. t \in Visits /\ t.verb \in Verbs /\ t.at \in Nat \ {0}
  BY <1>1, VisitsAre
<1>3. y \in Visits /\ y.verb = t.verb /\ y.at = t.at + 1
  BY <1>2 DEF Visits
<1>4. /\ x \in Seq(Visits) /\ Len(x) = n /\ x[n] = y /\ \A k \in 1..(n - 1) : x[k] = vs[k]
  <2>1. x = [vs EXCEPT ![n] = y]
    OBVIOUS
  <2> HIDE DEF x, y
  <2> QED BY <1>1, <1>3, <2>1
<1>5. Len(d[t.verb]) \in Nat
  BY <1>2, DeclaredAre
<1>6. SeenTo(d, e, y, ch)
  <2>1. SeenTo(d, e, t, ch)
    BY <1>1 DEF Searching
  <2>2. ASSUME NEW i \in 1..(y.at - 1) PROVE Settled(d, e, d[y.verb][i], ch)
    <3>1. i = t.at \/ i \in 1..(t.at - 1)
      BY <1>2, <1>3
    <3> QED BY <1>3, <2>1, <3>1 DEF SeenTo
  <2>3. y.at <= Len(d[y.verb]) + 1
    BY <1>2, <1>3, <1>5
  <2> QED BY <2>2, <2>3 DEF SeenTo
<1> HIDE DEF x, y
<1>7. \A k \in 1..n : x[k].verb = vs[k].verb
  BY <1>1, <1>3, <1>4
<1>8. \A k \in 1..n : SeenTo(d, e, x[k], ch)
  <2> SUFFICES ASSUME NEW k \in 1..n PROVE SeenTo(d, e, x[k], ch)
    OBVIOUS
  <2> HIDE DEF n
  <2>1. k = n \/ k \in 1..(n - 1)
    BY <1>1
  <2> QED BY <1>1, <1>4, <1>6, <2>1 DEF Searching
<1>9. \A k \in 1..(n - 1) : CallsFor(d, e, x[k], x[k + 1].verb)
  <2> SUFFICES ASSUME NEW k \in 1..(n - 1) PROVE CallsFor(d, e, x[k], x[k + 1].verb)
    OBVIOUS
  <2>1. k + 1 \in 1..n
    BY <1>1
  <2> QED BY <1>4, <1>7, <2>1 DEF Searching
<1>10. x[1].verb = Goal
  BY <1>1, <1>7
<1> QED BY <1>1, <1>4, <1>8, <1>9, <1>10 DEF Searching, x

\* It visits what it wants.
LEMMA SearchVisits ==
  ASSUME NEW d \in Declared, NEW e, NEW vs, NEW ch, Searching(d, e, vs, ch), NEW p,
         vs[Len(vs)].at <= Len(d[vs[Len(vs)].verb]),
         p = d[vs[Len(vs)].verb][vs[Len(vs)].at], p.entity \notin e
  PROVE  Searching(d, e, Append(vs, [verb |-> p.verb, at |-> 1]), ch)
<1> DEFINE n == Len(vs)
           t == vs[n]
           y == [verb |-> p.verb, at |-> 1]
           x == Append(vs, y)
<1>1. vs \in Seq(Visits) /\ n \in Nat /\ n > 0 /\ vs[1].verb = Goal /\ n \in 1..Len(vs)
  BY DEF Searching
<1>2. t \in Visits /\ t.verb \in Verbs /\ t.at \in Nat \ {0}
  BY <1>1, VisitsAre
<1>3. p.verb \in Verbs
  BY <1>2, DeclaredAre
<1>4. y \in Visits /\ y.verb = p.verb /\ y.at = 1
  BY <1>3 DEF Visits
<1> HIDE DEF y
<1>5. x \in Seq(Visits) /\ Len(x) = n + 1 /\ x[n + 1] = y /\ \A k \in 1..n : x[k] = vs[k]
  BY <1>1, <1>4, AppendIs
<1>6. SeenTo(d, e, y, ch)
  BY <1>3, <1>4, DeclaredAre DEF SeenTo
<1> HIDE DEF x
<1>7. \A k \in 1..(n + 1) : SeenTo(d, e, x[k], ch)
  <2> SUFFICES ASSUME NEW k \in 1..(n + 1) PROVE SeenTo(d, e, x[k], ch)
    OBVIOUS
  <2>1. k = n + 1 \/ k \in 1..n
    BY <1>1
  <2> QED BY <1>5, <1>6, <2>1 DEF Searching
<1>8. \A k \in 1..n : CallsFor(d, e, x[k], x[k + 1].verb)
  <2> SUFFICES ASSUME NEW k \in 1..n PROVE CallsFor(d, e, x[k], x[k + 1].verb)
    OBVIOUS
  <2>1. k = n \/ (k \in 1..(n - 1) /\ k + 1 \in 1..n)
    BY <1>1
  <2>2. CASE k = n
    BY <1>1, <1>4, <1>5, <2>2 DEF CallsFor
  <2>3. CASE k \in 1..(n - 1) /\ k + 1 \in 1..n
    BY <1>5, <2>3 DEF Searching
  <2> QED BY <2>1, <2>2, <2>3
<1>9. Len(x) > 0 /\ x[1].verb = Goal /\ (n + 1) - 1 = n
  BY <1>1, <1>5
<1> QED BY <1>5, <1>7, <1>8, <1>9, Zenon DEF Searching, x, y

\* A visit that has seen all its verb needs: what the verb needs is there, and sound.
LEMMA VisitIsDone ==
  ASSUME NEW d \in Declared, NEW e, NEW f \in Visits, NEW ch, SeenTo(d, e, f, ch),
         f.at > Len(d[f.verb])
  PROVE  /\ Sound(d, e, f.verb)
         /\ \A p \in Saga!ToSet(d[f.verb]) : p.entity \in e \cup Of(ch)
<1>1. f.verb \in Verbs /\ f.at \in Nat
  BY DEF Visits
<1>2. Len(d[f.verb]) \in Nat /\ f.at - 1 = Len(d[f.verb])
  BY <1>1, DeclaredAre DEF SeenTo
<1>3. ASSUME NEW p \in Saga!ToSet(d[f.verb]) PROVE Settled(d, e, p, ch)
  <2>1. PICK i \in 1..Len(d[f.verb]) : p = d[f.verb][i]
    BY <1>1, DeclaredAre
  <2> QED BY <1>2, <2>1 DEF SeenTo
<1>4. \A w \in Wants(d, e, f.verb) : Sound(d, e, w)
  BY <1>3 DEF Wants, Settled
<1>5. Sound(d, e, f.verb)
  BY <1>1, <1>4, SoundFromNeeds
<1> QED BY <1>3, <1>5 DEF Settled

LEMMA OfGrows ==
  ASSUME NEW S, NEW ch \in Seq(S), NEW p \in S
  PROVE  Of(Append(ch, p)) = Of(ch) \cup {p.entity}
<1> DEFINE n == Len(ch)
           x == Append(ch, p)
<1>1. n \in Nat /\ Len(x) = n + 1 /\ x[n + 1] = p /\ \A k \in 1..n : x[k] = ch[k]
  BY AppendIs
<1> HIDE DEF x
<1>2. \A j \in 1..(n + 1) : j = n + 1 \/ j \in 1..n
  BY <1>1
<1>3. \A j \in 1..n : j \in 1..(n + 1)
  BY <1>1
<1>4. n + 1 \in 1..(n + 1)
  BY <1>1
<1>5. Of(x) = Of(ch) \cup {p.entity}
  BY <1>1, <1>2, <1>3, <1>4 DEF Of
<1> QED BY <1>5 DEF x

\* The plan grows by what its verb needs nothing more for.
LEMMA PlanGrows ==
  ASSUME NEW d \in Declared, NEW e, NEW ch, Ordered(d, e, ch), NEW p, NEW v \in Verbs,
         p \in Saga!ToSet(d[v]), p.entity \notin e, p.entity \notin Of(ch),
         \A q \in Saga!ToSet(d[p.verb]) : q.entity \in e \cup Of(ch)
  PROVE  Ordered(d, e, Append(ch, p)) /\ Of(Append(ch, p)) = Of(ch) \cup {p.entity}
<1> DEFINE n == Len(ch)
           x == Append(ch, p)
<1>1. p \in Saga!Prereq
  <2>1. PICK i \in 1..Len(d[v]) : p = d[v][i]
    BY DeclaredAre
  <2> QED BY <2>1, DeclaredAre
<1>2. ch \in Seq(Saga!Prereq) /\ n \in Nat
  BY DEF Ordered
<1>3. x \in Seq(Saga!Prereq) /\ Len(x) = n + 1 /\ x[n + 1] = p /\ \A k \in 1..n : x[k] = ch[k]
  BY <1>1, <1>2, AppendIs
<1> HIDE DEF x
<1>4. ASSUME NEW i \in 1..(n + 1)
      PROVE  /\ x[i].entity \notin e
             /\ \A j \in 1..(i - 1) : x[j].entity # x[i].entity
             /\ \A q \in Saga!ToSet(d[x[i].verb]) :
                  q.entity \in e \cup {x[j].entity : j \in 1..(i - 1)}
             /\ \E u \in Verbs : x[i] \in Saga!ToSet(d[u])
  <2>1. \A j \in 1..(i - 1) : j \in 1..n /\ x[j] = ch[j]
    BY <1>2, <1>3
  <2>2. {x[j].entity : j \in 1..(i - 1)} = {ch[j].entity : j \in 1..(i - 1)}
    BY <2>1
  <2>3. CASE i = n + 1
    <3>1. x[i] = p /\ 1..(i - 1) = 1..n
      BY <1>2, <1>3, <2>3
    <3>2. \A j \in 1..(i - 1) : x[j].entity # p.entity
      BY <2>1, <3>1 DEF Of
    <3> QED BY <2>2, <3>1, <3>2 DEF Of
  <2>4. CASE i \in 1..n
    <3>1. x[i] = ch[i]
      BY <1>3, <2>4
    <3> QED BY <2>1, <2>2, <2>4, <3>1 DEF Ordered
  <2> QED BY <1>2, <2>3, <2>4
<1>5. Ordered(d, e, x)
  BY <1>3, <1>4 DEF Ordered
<1>6. Of(Append(ch, p)) = Of(ch) \cup {p.entity}
  BY <1>1, <1>2, OfGrows
<1> QED BY <1>5, <1>6 DEF x

\* What is planned stays planned.
LEMMA SearchKeeps ==
  ASSUME NEW d, NEW e, NEW vs, NEW ch, NEW ch2, Searching(d, e, vs, ch), Of(ch) \subseteq Of(ch2)
  PROVE  Searching(d, e, vs, ch2)
BY DEF Searching, SeenTo, Settled

\* The innermost visit returns to its caller.
LEMMA SearchReturns ==
  ASSUME NEW d \in Declared, NEW e, NEW vs, NEW ch, Searching(d, e, vs, ch), Len(vs) > 1
  PROVE  /\ Searching(d, e, SubSeq(vs, 1, Len(vs) - 1), ch)
         /\ Len(SubSeq(vs, 1, Len(vs) - 1)) = Len(vs) - 1
         /\ SubSeq(vs, 1, Len(vs) - 1)[Len(vs) - 1] = vs[Len(vs) - 1]
<1> DEFINE n == Len(vs)
           x == SubSeq(vs, 1, n - 1)
<1>1. vs \in Seq(Visits) /\ n \in Nat /\ n > 1 /\ vs[1].verb = Goal /\ n - 1 \in 1..n
  BY DEF Searching
<1>2. x \in Seq(Visits) /\ Len(x) = n - 1 /\ \A k \in 1..(n - 1) : x[k] = vs[k]
  BY <1>1, SubSeqProperties
<1> HIDE DEF x
<1>3. \A k \in 1..(n - 1) : k \in 1..n
  BY <1>1
<1>4. \A k \in 1..((n - 1) - 1) : k \in 1..(n - 1) /\ k + 1 \in 1..(n - 1)
  BY <1>1
<1>5. \A k \in 1..(n - 1) : SeenTo(d, e, x[k], ch)
  BY <1>2, <1>3 DEF Searching
<1>6. \A k \in 1..((n - 1) - 1) : CallsFor(d, e, x[k], x[k + 1].verb)
  BY <1>2, <1>4 DEF Searching
<1>7. n - 1 > 0 /\ 1 \in 1..(n - 1) /\ n - 1 \in 1..(n - 1)
  BY <1>1
<1> QED BY <1>1, <1>2, <1>5, <1>6, <1>7 DEF Searching, x

\* Along the visits each needs the later ones.
LEMMA VisitsNeed ==
  ASSUME NEW d \in Declared, NEW e, NEW vs, NEW ch, Searching(d, e, vs, ch),
         NEW i \in 1..Len(vs), NEW k \in i..Len(vs)
  PROVE  vs[k].verb \in {vs[i].verb} \cup Required(d, e, vs[i].verb)
<1> DEFINE v == vs[i].verb
           In(l) == vs[l].verb \in {v} \cup Required(d, e, v)
           T == {l \in Nat : l \in i..Len(vs) /\ ~In(l)}
<1>1. vs \in Seq(Visits) /\ Len(vs) \in Nat /\ i \in Nat /\ v \in Verbs
  BY VisitsAre DEF Searching
<1> SUFFICES ASSUME T # {} PROVE FALSE
  BY <1>1
<1>2. PICK l \in T : \A m \in T : ~(<<m, l>> \in OpToRel(<, Nat))
  BY NatLessThanWellFounded, WFMin
<1>3. l \in Nat /\ l \in i..Len(vs) /\ ~In(l)
  OBVIOUS
<1>4. l # i
  BY <1>3
<1>5. l - 1 \in Nat /\ l - 1 \in i..Len(vs) /\ l - 1 < l /\ l - 1 \in 1..(Len(vs) - 1) /\ (l - 1) + 1 = l
  BY <1>1, <1>3, <1>4
<1>6. In(l - 1)
  BY <1>2, <1>3, <1>5 DEF OpToRel
<1> DEFINE f == vs[l - 1]
<1>7. CallsFor(d, e, f, vs[l].verb)
  BY <1>5 DEF Searching
<1>8. f \in Visits /\ f.verb \in Verbs /\ f.at \in Nat \ {0}
  <2>1. l - 1 \in 1..Len(vs)
    BY <1>1, <1>5
  <2> QED BY <1>1, <2>1, VisitsAre
<1>9. vs[l].verb \in Wants(d, e, f.verb)
  <2>1. f.at \in 1..Len(d[f.verb])
    BY <1>7, <1>8, DeclaredAre DEF CallsFor
  <2>2. d[f.verb][f.at] \in Saga!ToSet(d[f.verb])
    BY <1>8, <2>1, DeclaredAre
  <2> QED BY <1>7, <2>2 DEF CallsFor, Wants
<1>10. Closes(d, e, v, Required(d, e, v))
  BY <1>1, RequiredIsClosed
<1>11. f.verb \in {v} \cup Required(d, e, v)
  BY <1>6
<1> HIDE DEF v, f
<1>12. vs[l].verb \in Required(d, e, v)
  BY <1>9, <1>10, <1>11 DEF Closes
<1> QED BY <1>3, <1>12

\* A verb met again on its own path needs itself, and the goal needs it.
LEMMA SearchMeetsCycle ==
  ASSUME NEW d \in Declared, NEW e, NEW vs, NEW ch, Searching(d, e, vs, ch), NEW p,
         vs[Len(vs)].at <= Len(d[vs[Len(vs)].verb]),
         p = d[vs[Len(vs)].verb][vs[Len(vs)].at], p.entity \notin e,
         NEW i \in 1..Len(vs), vs[i].verb = p.verb
  PROVE  \E v \in {Goal} \cup Required(d, e, Goal) : v \in Required(d, e, v)
<1> DEFINE n == Len(vs)
           t == vs[n]
<1>1. /\ vs \in Seq(Visits) /\ n \in Nat /\ n > 0 /\ vs[1].verb = Goal /\ i \in 1..n
      /\ n \in i..n /\ i \in 1..n /\ 1 \in 1..n /\ n \in 1..n
  BY DEF Searching
<1>2. t \in Visits /\ t.verb \in Verbs /\ t.at \in Nat \ {0} /\ vs[i].verb \in Verbs
  BY <1>1, VisitsAre
<1>3. p.verb \in Wants(d, e, t.verb)
  <2>1. t.at \in 1..Len(d[t.verb])
    BY <1>2, DeclaredAre
  <2>2. p \in Saga!ToSet(d[t.verb])
    BY <1>2, <2>1, DeclaredAre
  <2> QED BY <2>2 DEF Wants
<1>4. t.verb \in {p.verb} \cup Required(d, e, p.verb)
  <2>1. t.verb \in {vs[i].verb} \cup Required(d, e, vs[i].verb)
    BY <1>1, VisitsNeed
  <2> QED BY <2>1
<1>5. p.verb \in Required(d, e, p.verb)
  <2>1. Closes(d, e, p.verb, Required(d, e, p.verb))
    BY <1>2, RequiredIsClosed
  <2> QED BY <1>3, <1>4, <2>1 DEF Closes
<1>6. p.verb \in {Goal} \cup Required(d, e, Goal)
  <2>1. i \in 1..Len(vs)
    BY <1>1
  <2>2. vs[i].verb \in {vs[1].verb} \cup Required(d, e, vs[1].verb)
    BY <1>1, <2>1, VisitsNeed
  <2> QED BY <1>1, <2>2
<1> QED BY <1>5, <1>6
-----------------------------------------------------------------------------
(* The saga.                                                                *)

Carries == UNION {[A -> Entities] : A \in SUBSET Args}
Calls == [verb : Verbs, args : Carries]

\* What the first n of the steps ms have handed on.
Handed(f, ms, n) ==
  /\ \A j \in 1..n : ms[j].arg \in DOMAIN f
  /\ \A a \in DOMAIN f : \E j \in 1..n : ms[j].arg = a /\ f[a] = ms[j].entity

SagaTypeOK ==
  /\ declared \in Declared
  /\ sagaPhase \in {"planning", "running", "unwinding", "done"}
  /\ made \in Seq(Saga!Prereq) /\ left \in Seq(Saga!Prereq)
  /\ carried \in Carries /\ called \in Seq(Calls)
  /\ outcome \in [Saga!Effects -> Seq(Saga!Prereq)]

\* The goal has no loop beneath it, and the plan ch what it needs.
Found(d, e, ch) ==
  /\ Sound(d, e, Goal)
  /\ \A p \in Saga!ToSet(d[Goal]) : p.entity \in e \cup Of(ch)

\* The search goes on, or has found a plan or a loop.
SagaSearch ==
  /\ Ordered(declared, existing, chain)
  /\ sagaPhase = "planning" =>
       /\ Searching(declared, existing, visits, chain)
       /\ made = << >> /\ sagaStatus = "none"
  /\ sagaPhase # "planning" =>
       \/ sagaStatus # "cycle" /\ Found(declared, existing, chain)
       \/ /\ sagaStatus = "cycle" /\ sagaPhase = "done" /\ made = << >>
          /\ ~Sound(declared, existing, Goal)

\* What is made is the beginning of the plan, each step with the ids of those before.
SagaRun ==
  /\ Len(made) <= Len(chain) /\ \A i \in 1..Len(made) : made[i] = chain[i]
  /\ \/ Len(called) = Len(made)
     \/ /\ Len(called) = Len(made) + 1 /\ Len(made) = Len(chain)
        /\ called[Len(called)].verb = Goal /\ sagaPhase = "done" /\ sagaStatus = "completed"
  /\ \A i \in 1..Len(made) : called[i].verb = made[i].verb
  /\ \A i \in 1..Len(called) : Handed(called[i].args, made, i - 1)
  /\ Handed(carried, made, Len(made))

\* What is undone is the end of what was made, and reported.
PartlyUndone ==
  /\ Len(left) <= Len(made) /\ \A i \in 1..Len(left) : left[i] = made[i]
  /\ effect \in [{made[i].verb : i \in 1..Len(made)} -> Saga!Effects]
  /\ standing \subseteq Of(made)
  /\ \A i \in 1..Len(left) : made[i].entity \in standing
  /\ \A i \in (Len(left) + 1)..Len(made) :
       made[i] \in Saga!ToSet(outcome[effect[made[i].verb]])

SagaUnwound ==
  /\ sagaPhase \in {"planning", "running"} =>
       standing = Of(made) /\ sagaStatus = "none"
  /\ sagaPhase = "unwinding" => PartlyUndone /\ sagaStatus = "failed"
  /\ sagaPhase = "done" =>
       \/ sagaStatus \in {"cycle", "completed"} /\ standing = Of(made)
       \/ /\ sagaStatus \in {"compensated", "parked", "blocked"} /\ PartlyUndone /\ left = << >>
          /\ sagaStatus = "compensated" =>
               outcome["irreversible"] = << >> /\ outcome["parked"] = << >>

SagaInv == SagaTypeOK /\ SagaSearch /\ SagaRun /\ SagaUnwound

LEMMA GoalIsVerb == Goal \in Verbs /\ Declarations \subseteq Declared
BY KernelAssumption DEF Saga!IsBounded, Declared, Saga!Prereq

LEMMA EmptyIs ==
  /\ \A S : << >> \in Seq(S)
  /\ Len(<< >>) = 0
BY EmptySeq

LEMMA NothingOf == Of(<< >>) = {}
BY EmptyIs DEF Of

LEMMA SagaInit == Saga!Init => SagaInv
<1> SUFFICES ASSUME Saga!Init PROVE SagaInv
  OBVIOUS
<1>1. PICK d \in Declarations, there \in SUBSET Entities : Saga!Begin(d, there)
  BY DEF Saga!Init
<1>2. /\ declared = d /\ existing = there
      /\ sagaPhase = "planning" /\ sagaStatus = "none"
      /\ visits = <<[verb |-> Goal, at |-> 1]>>
      /\ chain = << >> /\ carried = [a \in {} |-> a] /\ made = << >> /\ called = << >>
      /\ left = << >> /\ outcome = [e \in Saga!Effects |-> << >>] /\ standing = {}
  BY <1>1 DEF Saga!Begin, Saga!Empty
<1>3. declared \in Declared
  BY <1>2, GoalIsVerb
<1>4. /\ visits \in Seq(Visits) /\ Len(visits) = 1 /\ visits[1] = [verb |-> Goal, at |-> 1]
  <2>1. [verb |-> Goal, at |-> 1] \in Visits
    BY GoalIsVerb DEF Visits
  <2> QED BY <1>2, <2>1
<1>5. Searching(declared, existing, visits, chain)
  <2>1. SeenTo(declared, existing, visits[1], chain)
    BY <1>3, <1>4, GoalIsVerb, DeclaredAre DEF SeenTo
  <2> QED BY <1>4, <2>1 DEF Searching
<1>6. Ordered(declared, existing, chain)
  BY <1>2, EmptyIs DEF Ordered
<1>7. carried \in Carries /\ Handed(carried, made, Len(made))
  <2>1. carried \in [{} -> Entities] /\ DOMAIN carried = {}
    BY <1>2
  <2>2. carried \in Carries
    BY <2>1 DEF Carries
  <2>3. \A j \in 1..0 : FALSE
    OBVIOUS
  <2> QED BY <1>2, <2>1, <2>2, <2>3, EmptyIs DEF Handed
<1>8. SagaTypeOK
  BY <1>2, <1>3, <1>7, EmptyIs DEF SagaTypeOK
<1>9. SagaSearch
  BY <1>2, <1>5, <1>6 DEF SagaSearch
<1>10. SagaRun
  BY <1>2, <1>7, EmptyIs DEF SagaRun
<1>11. SagaUnwound
  BY <1>2, NothingOf DEF SagaUnwound
<1> QED BY <1>8, <1>9, <1>10, <1>11 DEF SagaInv

\* What holds of the run and the unwind while the planner searches.
LEMMA SearchSaves ==
  ASSUME SagaInv, sagaPhase = "planning",
         UNCHANGED <<declared, existing, made, carried, called, left, effect, outcome, standing>>,
         sagaPhase' \in {"planning", "running", "done"},
         sagaStatus' = IF sagaPhase' = "done" THEN "cycle" ELSE "none",
         Len(chain') \in Nat
  PROVE  SagaTypeOK' /\ SagaRun' /\ SagaUnwound'
<1>1. SagaTypeOK /\ SagaRun /\ SagaUnwound /\ made = << >> /\ sagaStatus = "none"
  BY DEF SagaInv, SagaSearch
<1>2. /\ declared' = declared /\ existing' = existing /\ made' = made /\ carried' = carried
      /\ called' = called /\ left' = left /\ effect' = effect /\ outcome' = outcome
      /\ standing' = standing
  OBVIOUS
<1>3. SagaTypeOK'
  BY <1>1, <1>2 DEF SagaTypeOK
<1>4. Len(made) = 0 /\ Len(called) = 0
  BY <1>1, EmptyIs DEF SagaRun
<1>5. SagaRun'
  BY <1>1, <1>2, <1>4 DEF SagaRun
<1>6. SagaUnwound'
  BY <1>1, <1>2 DEF SagaUnwound
<1> QED BY <1>3, <1>5, <1>6

\* Where the planner is.
LEMMA TopIs ==
  ASSUME SagaInv, sagaPhase = "planning"
  PROVE  /\ declared \in Declared /\ Searching(declared, existing, visits, chain)
         /\ Ordered(declared, existing, chain)
         /\ visits \in Seq(Visits) /\ Len(visits) \in Nat /\ Len(visits) \in 1..Len(visits)
         /\ Saga!Top = visits[Len(visits)]
         /\ Saga!Top \in Visits /\ Saga!Top.verb \in Verbs /\ Saga!Top.at \in Nat \ {0}
         /\ Len(declared[Saga!Top.verb]) \in Nat
         /\ Saga!AllSeen <=> ~(visits[Len(visits)].at <= Len(declared[visits[Len(visits)].verb]))
         /\ Saga!Wanted(Saga!Top) =
              declared[visits[Len(visits)].verb][visits[Len(visits)].at]
<1>1. /\ declared \in Declared /\ Searching(declared, existing, visits, chain)
      /\ Ordered(declared, existing, chain)
  BY DEF SagaInv, SagaTypeOK, SagaSearch
<1>2. visits \in Seq(Visits) /\ Len(visits) \in Nat /\ Len(visits) \in 1..Len(visits)
  BY <1>1 DEF Searching
<1>3. Saga!Top = visits[Len(visits)]
  BY DEF Saga!Top, Saga!Last
<1>4. Saga!Top \in Visits /\ Saga!Top.verb \in Verbs /\ Saga!Top.at \in Nat \ {0}
  BY <1>2, <1>3, VisitsAre
<1>5. Len(declared[Saga!Top.verb]) \in Nat
  BY <1>1, <1>4, DeclaredAre
<1>6. Saga!AllSeen <=> ~(visits[Len(visits)].at <= Len(declared[visits[Len(visits)].verb]))
  BY <1>3, <1>4, <1>5 DEF Saga!AllSeen
<1>7. Saga!Wanted(Saga!Top) = declared[visits[Len(visits)].verb][visits[Len(visits)].at]
  BY <1>3 DEF Saga!Wanted
<1> QED BY <1>1, <1>2, <1>3, <1>4, <1>5, <1>6, <1>7

\* The search goes on.
LEMMA StillSearching ==
  ASSUME SagaInv, sagaPhase = "planning", sagaPhase' = "planning",
         UNCHANGED <<declared, existing, sagaStatus, made, carried, called, left, effect,
                     outcome, standing>>,
         Ordered(declared, existing, chain'),
         Searching(declared, existing, visits', chain')
  PROVE  SagaInv'
<1>1. Len(chain') \in Nat
  BY DEF Ordered
<1>2. sagaStatus' = "none" /\ made' = << >>
  BY DEF SagaInv, SagaSearch
<1>3. SagaTypeOK' /\ SagaRun' /\ SagaUnwound'
  BY <1>1, <1>2, SearchSaves
<1>4. declared' = declared /\ existing' = existing
  OBVIOUS
<1>5. SagaSearch'
  BY <1>2, <1>4 DEF SagaSearch
<1> QED BY <1>3, <1>5 DEF SagaInv

LEMMA SagaSkip == SagaInv /\ Saga!Skip => SagaInv'
<1> SUFFICES ASSUME SagaInv, Saga!Skip PROVE SagaInv'
  OBVIOUS
<1>1. /\ sagaPhase = "planning" /\ sagaPhase' = "planning"
      /\ ~Saga!AllSeen /\ Saga!Wanted(Saga!Top).entity \in existing
      /\ visits' = [visits EXCEPT ![Len(visits)].at = @ + 1]
      /\ UNCHANGED <<declared, existing, chain, sagaStatus, made, carried, called, left, effect,
                     outcome, standing>>
  BY DEF Saga!Skip, Saga!Passed, Saga!saga, Saga!unwind
<1>2. Settled(declared, existing, Saga!Wanted(Saga!Top), chain)
  BY <1>1 DEF Settled
<1>3. Searching(declared, existing, visits', chain)
  BY <1>1, <1>2, TopIs, SearchPasses
<1> QED BY <1>1, <1>3, TopIs, StillSearching

LEMMA SagaVisit == SagaInv /\ Saga!Visit => SagaInv'
<1> SUFFICES ASSUME SagaInv, Saga!Visit PROVE SagaInv'
  OBVIOUS
<1>1. /\ sagaPhase = "planning" /\ sagaPhase' = "planning"
      /\ ~Saga!AllSeen /\ Saga!Wanted(Saga!Top).entity \notin existing
      /\ visits' = Append(visits, [verb |-> Saga!Wanted(Saga!Top).verb, at |-> 1])
      /\ UNCHANGED <<declared, existing, chain, sagaStatus, made, carried, called, left, effect,
                     outcome, standing>>
  BY DEF Saga!Visit, Saga!IsMissing, Saga!saga, Saga!unwind
<1>2. Searching(declared, existing, visits', chain)
  BY <1>1, TopIs, SearchVisits
<1> QED BY <1>1, <1>2, TopIs, StillSearching

LEMMA SagaMeetCycle == SagaInv /\ Saga!MeetCycle => SagaInv'
<1> SUFFICES ASSUME SagaInv, Saga!MeetCycle PROVE SagaInv'
  OBVIOUS
<1>1. /\ sagaPhase = "planning" /\ sagaPhase' = "done" /\ sagaStatus' = "cycle"
      /\ ~Saga!AllSeen /\ Saga!Wanted(Saga!Top).entity \notin existing
      /\ Saga!OnPath(Saga!Wanted(Saga!Top).verb) /\ chain' = << >>
      /\ UNCHANGED <<declared, existing, made, carried, called, left, effect, outcome, standing>>
  BY DEF Saga!MeetCycle, Saga!IsMissing, Saga!saga, Saga!unwind
<1>2. PICK i \in DOMAIN visits : visits[i].verb = Saga!Wanted(Saga!Top).verb
  BY <1>1 DEF Saga!OnPath
<1>3. i \in 1..Len(visits)
  BY <1>1, TopIs
<1>4. \E v \in {Goal} \cup Required(declared, existing, Goal) : v \in Required(declared, existing, v)
  BY <1>1, <1>2, <1>3, TopIs, SearchMeetsCycle
<1>5. ~Sound(declared, existing, Goal)
  BY <1>4 DEF Sound
<1>6. Ordered(declared, existing, chain')
  BY <1>1, EmptyIs DEF Ordered
<1>7. SagaTypeOK' /\ SagaRun' /\ SagaUnwound'
  BY <1>1, EmptyIs, SearchSaves
<1>8. declared' = declared /\ existing' = existing /\ made' = << >>
  BY <1>1 DEF SagaInv, SagaSearch
<1>9. SagaSearch'
  BY <1>1, <1>5, <1>6, <1>8 DEF SagaSearch
<1> QED BY <1>7, <1>9 DEF SagaInv

\* What a visit was made for is planned when it returns.
LEMMA PlacedIs ==
  ASSUME NEW p, Ordered(declared, existing, chain)
  PROVE  \/ Saga!Placed(p) = chain /\ p.entity \in Of(chain)
         \/ Saga!Placed(p) = Append(chain, p) /\ p.entity \notin Of(chain)
<1>1. DOMAIN chain = 1..Len(chain)
  BY DEF Ordered
<1> QED BY <1>1 DEF Saga!Placed, Of

LEMMA SagaLeave == SagaInv /\ Saga!Leave => SagaInv'
<1> SUFFICES ASSUME SagaInv, Saga!Leave PROVE SagaInv'
  OBVIOUS
<1> DEFINE n == Len(visits)
           top == visits[n]
           calls == SubSeq(visits, 1, n - 1)
           p == declared[calls[n - 1].verb][calls[n - 1].at]
<1>1. /\ sagaPhase = "planning" /\ Saga!AllSeen
      /\ IF calls = << >>
         THEN sagaPhase' = "running" /\ visits' = << >> /\ chain' = chain
         ELSE /\ chain' = Saga!Placed(declared[calls[Len(calls)].verb][calls[Len(calls)].at])
              /\ visits' = [calls EXCEPT ![Len(calls)].at = @ + 1] /\ sagaPhase' = sagaPhase
      /\ UNCHANGED <<declared, existing, sagaStatus, made, carried, called, left, effect,
                     outcome, standing>>
  BY DEF Saga!Leave, Saga!Front, Saga!Last, Saga!Wanted, Saga!Passed, Saga!unwind
<1>2. /\ declared \in Declared /\ Searching(declared, existing, visits, chain)
      /\ Ordered(declared, existing, chain)
      /\ visits \in Seq(Visits) /\ n \in Nat /\ n \in 1..n /\ n > 0
      /\ top \in Visits /\ top.verb \in Verbs /\ top.at \in Nat \ {0}
      /\ Len(declared[top.verb]) \in Nat /\ top.at > Len(declared[top.verb])
  BY <1>1, TopIs
<1>3. SeenTo(declared, existing, top, chain)
  BY <1>2 DEF Searching
<1>4. /\ Sound(declared, existing, top.verb)
      /\ \A q \in Saga!ToSet(declared[top.verb]) : q.entity \in existing \cup Of(chain)
  BY <1>2, <1>3, VisitIsDone
<1>5. declared' = declared /\ existing' = existing
  BY <1>1
<1>6. CASE n = 1
  <2>1. calls = << >>
    BY <1>2, <1>6, SubSeqProperties
  <2>2. top.verb = Goal
    BY <1>2, <1>6 DEF Searching
  <2>3. Found(declared, existing, chain)
    BY <1>4, <2>2 DEF Found
  <2>4. sagaPhase' = "running" /\ chain' = chain
    BY <1>1, <2>1
  <2>5. sagaStatus' = "none"
    BY <1>1 DEF SagaInv, SagaSearch
  <2>6. Len(chain') \in Nat
    BY <1>2, <2>4 DEF Ordered
  <2>7. SagaTypeOK' /\ SagaRun' /\ SagaUnwound'
    BY <1>1, <2>4, <2>5, <2>6, SearchSaves
  <2>8. SagaSearch'
    BY <1>2, <1>5, <2>3, <2>4, <2>5 DEF SagaSearch
  <2> QED BY <2>7, <2>8 DEF SagaInv
<1>7. CASE n > 1
  <2>1. /\ Searching(declared, existing, calls, chain)
        /\ Len(calls) = n - 1 /\ calls[n - 1] = visits[n - 1]
    BY <1>2, <1>7, SearchReturns
  <2>0. p = declared[calls[n - 1].verb][calls[n - 1].at]
    OBVIOUS
  <2> HIDE DEF calls, p
  <2>2. n - 1 \in 1..(n - 1) /\ (n - 1) + 1 = n /\ n - 1 \in 1..n
    BY <1>2, <1>7
  <2>3. CallsFor(declared, existing, calls[n - 1], top.verb)
    BY <1>2, <2>1, <2>2 DEF Searching
  <2>4. calls[n - 1].verb \in Verbs /\ calls[n - 1].at \in Nat \ {0}
    BY <1>2, <2>1, <2>2, VisitsAre
  <2>5. /\ calls[n - 1].at <= Len(declared[calls[n - 1].verb])
        /\ p.entity \notin existing /\ p.verb = top.verb
    BY <2>0, <2>3 DEF CallsFor
  <2>6. p \in Saga!ToSet(declared[calls[n - 1].verb])
    <3>1. Len(declared[calls[n - 1].verb]) \in Nat
      BY <1>2, <2>4, DeclaredAre
    <3> DEFINE l == Len(declared[calls[n - 1].verb])
               at == calls[n - 1].at
    <3>2. at \in Nat \ {0} /\ l \in Nat /\ at <= l
      BY <2>4, <2>5, <3>1
    <3> HIDE DEF l, at
    <3>3. at \in 1..l
      BY <3>2
    <3> QED BY <1>2, <2>0, <2>4, <3>3, DeclaredAre DEF l, at
  <2>7. calls # << >>
    BY <1>2, <1>7, <2>1, EmptyIs
  <2>8. /\ chain' = Saga!Placed(p)
        /\ visits' = [calls EXCEPT ![Len(calls)].at = @ + 1] /\ sagaPhase' = "planning"
    BY <1>1, <2>0, <2>1, <2>7 DEF calls
  <2>9. /\ Ordered(declared, existing, chain') /\ p.entity \in Of(chain')
        /\ Of(chain) \subseteq Of(chain')
    <3>1. CASE Saga!Placed(p) = chain /\ p.entity \in Of(chain)
      BY <1>2, <2>8, <3>1
    <3>2. CASE Saga!Placed(p) = Append(chain, p) /\ p.entity \notin Of(chain)
      <4>1. /\ Ordered(declared, existing, Append(chain, p))
            /\ Of(Append(chain, p)) = Of(chain) \cup {p.entity}
        BY <1>2, <1>4, <2>4, <2>5, <2>6, <3>2, PlanGrows
      <4> QED BY <2>8, <3>2, <4>1
    <3> QED BY <1>2, <3>1, <3>2, PlacedIs
  <2>10. Searching(declared, existing, calls, chain')
    BY <2>1, <2>9, SearchKeeps
  <2>11. Settled(declared, existing, p, chain')
    BY <1>4, <2>5, <2>9 DEF Settled
  <2>12. Searching(declared, existing, visits', chain')
    BY <1>2, <2>1, <2>5, <2>8, <2>0, <2>10, <2>11, SearchPasses, Zenon
  <2> QED BY <1>1, <2>8, <2>9, <2>12, StillSearching
<1>8. n = 1 \/ n > 1
  <2> HIDE DEF n
  <2> QED BY <1>2
<1> QED BY <1>6, <1>7, <1>8

LEMMA SagaPlan == SagaInv /\ Saga!PlanSaga => SagaInv'
BY SagaSkip, SagaVisit, SagaMeetCycle, SagaLeave DEF Saga!PlanSaga

\* Steps that come later change nothing of what was handed on before.
LEMMA HandedStays ==
  ASSUME NEW f, NEW ms, NEW ms2, NEW k, Handed(f, ms, k), \A j \in 1..k : ms2[j] = ms[j]
  PROVE  Handed(f, ms2, k)
BY DEF Handed

\* One more step hands on its id.
Carrying(f, s) == [a \in DOMAIN f \cup {s.arg} |-> IF a = s.arg THEN s.entity ELSE f[a]]

LEMMA HandsOn ==
  ASSUME NEW f \in Carries, NEW ms, NEW ms2, NEW n \in Nat, Handed(f, ms, n),
         NEW s \in Saga!Prereq,
         \A j \in 1..n : ms2[j] = ms[j], ms2[n + 1] = s
  PROVE  Carrying(f, s) \in Carries /\ Handed(Carrying(f, s), ms2, n + 1)
<1> DEFINE g == Carrying(f, s)
<1>1. PICK A \in SUBSET Args : f \in [A -> Entities]
  BY DEF Carries
<1>2. s.arg \in Args /\ s.entity \in Entities
  BY DEF Saga!Prereq
<1>3. g \in [A \cup {s.arg} -> Entities] /\ A \cup {s.arg} \in SUBSET Args
  BY <1>1, <1>2 DEF Carrying
<1>4. g \in Carries
  BY <1>3 DEF Carries
<1>5. /\ DOMAIN g = DOMAIN f \cup {s.arg}
      /\ g[s.arg] = s.entity
      /\ \A a \in DOMAIN f : a # s.arg => g[a] = f[a]
  BY DEF Carrying
<1> HIDE DEF g
<1>6. /\ n + 1 \in 1..(n + 1)
      /\ \A j \in 1..(n + 1) : j = n + 1 \/ j \in 1..n
      /\ \A j \in 1..n : j \in 1..(n + 1)
  OBVIOUS
<1>7. \A j \in 1..(n + 1) : ms2[j].arg \in DOMAIN g
  BY <1>5, <1>6 DEF Handed
<1>8. ASSUME NEW a \in DOMAIN g
      PROVE  \E j \in 1..(n + 1) : ms2[j].arg = a /\ g[a] = ms2[j].entity
  <2>1. CASE a = s.arg
    BY <1>5, <1>6, <2>1
  <2>2. CASE a \in DOMAIN f /\ a # s.arg
    <3>1. PICK j \in 1..n : ms[j].arg = a /\ f[a] = ms[j].entity
      BY <2>2 DEF Handed
    <3> QED BY <1>5, <1>6, <2>2, <3>1
  <2> QED BY <1>5, <2>1, <2>2
<1>9. Handed(g, ms2, n + 1)
  BY <1>7, <1>8 DEF Handed
<1> QED BY <1>4, <1>9 DEF g

\* The host has run the plan as far as it is made.
LEMMA RunningIs ==
  ASSUME SagaInv, sagaPhase = "running"
  PROVE  /\ Found(declared, existing, chain) /\ Ordered(declared, existing, chain)
         /\ Len(called) = Len(made) /\ standing = Of(made) /\ sagaStatus = "none"
         /\ made \in Seq(Saga!Prereq) /\ Len(made) \in Nat /\ DOMAIN made = 1..Len(made)
         /\ called \in Seq(Calls) /\ carried \in Carries
         /\ Handed(carried, made, Len(made))
BY DEF SagaInv, SagaTypeOK, SagaSearch, SagaRun, SagaUnwound

LEMMA SagaCreate == SagaInv /\ Saga!Create => SagaInv'
<1> SUFFICES ASSUME SagaInv, Saga!Create PROVE SagaInv'
  OBVIOUS
<1> DEFINE n == Len(made)
           s == chain[n + 1]
           c == [verb |-> s.verb, args |-> carried]
<1>1. /\ sagaPhase = "running" /\ n < Len(chain)
      /\ called' = Append(called, c) /\ carried' = Carrying(carried, s) /\ made' = Append(made, s)
      /\ standing' = standing \cup {s.entity}
      /\ UNCHANGED <<declared, existing, sagaPhase, visits, chain, left, effect, outcome, sagaStatus>>
  BY DEF Saga!Create, Saga!Call, Saga!unwind, Carrying
<1>2. /\ SagaTypeOK /\ SagaSearch /\ SagaRun /\ SagaUnwound
      /\ Found(declared, existing, chain) /\ Ordered(declared, existing, chain)
      /\ Len(called) = n /\ standing = Of(made) /\ sagaStatus = "none"
      /\ made \in Seq(Saga!Prereq) /\ n \in Nat
      /\ called \in Seq(Calls) /\ carried \in Carries /\ Handed(carried, made, n)
  BY <1>1, RunningIs DEF SagaInv
<1>3. s \in Saga!Prereq /\ s.verb \in Verbs
  <2>1. chain \in Seq(Saga!Prereq) /\ Len(chain) \in Nat
    BY <1>2 DEF Ordered
  <2>2. n + 1 \in 1..Len(chain)
    BY <1>1, <1>2, <2>1
  <2>3. s \in Saga!Prereq
    BY <2>1, <2>2
  <2> QED BY <2>3 DEF Saga!Prereq
<1>4. c \in Calls /\ c.verb = s.verb /\ c.args = carried
  BY <1>2, <1>3 DEF Calls
<1> HIDE DEF s, c
<1>5. /\ made' \in Seq(Saga!Prereq) /\ Len(made') = n + 1 /\ made'[n + 1] = s
      /\ \A i \in 1..n : made'[i] = made[i]
  BY <1>1, <1>2, <1>3, AppendIs
<1>6. /\ called' \in Seq(Calls) /\ Len(called') = n + 1 /\ called'[n + 1] = c
      /\ \A i \in 1..n : called'[i] = called[i]
  BY <1>1, <1>2, <1>4, AppendIs
<1>7. carried' \in Carries /\ Handed(carried', made', n + 1)
  <2>1. Carrying(carried, s) \in Carries /\ Handed(Carrying(carried, s), made', n + 1)
    BY <1>2, <1>3, <1>5, HandsOn
  <2> QED BY <1>1, <2>1
<1>8. SagaTypeOK'
  BY <1>1, <1>2, <1>5, <1>6, <1>7 DEF SagaTypeOK
<1>9. SagaSearch'
  BY <1>1, <1>2 DEF SagaSearch
<1>10. ASSUME NEW i \in 1..(n + 1)
       PROVE  /\ made'[i] = chain[i] /\ called'[i].verb = made'[i].verb
              /\ Handed(called'[i].args, made', i - 1)
  <2>1. CASE i = n + 1
    <3>1. Handed(carried, made', n)
      BY <1>2, <1>5, HandedStays
    <3>2. i - 1 = n
      BY <1>2, <2>1
    <3> QED BY <1>4, <1>5, <1>6, <2>1, <3>1, <3>2 DEF s
  <2>2. CASE i \in 1..n
    <3>1. made[i] = chain[i] /\ called[i].verb = made[i].verb /\ Handed(called[i].args, made, i - 1)
      BY <1>2, <2>2 DEF SagaRun
    <3>2. \A j \in 1..(i - 1) : made'[j] = made[j]
      BY <1>2, <1>5, <2>2
    <3>3. Handed(called[i].args, made', i - 1)
      BY <3>1, <3>2, HandedStays
    <3> QED BY <1>5, <1>6, <2>2, <3>1, <3>3
  <2> QED BY <1>2, <2>1, <2>2
<1>11. SagaRun'
  <2>1. chain' = chain /\ Len(chain) \in Nat
    BY <1>1, <1>2 DEF Ordered
  <2>2. Len(made') <= Len(chain')
    BY <1>1, <1>2, <1>5, <2>1
  <2> QED BY <1>5, <1>6, <1>7, <1>10, <2>1, <2>2 DEF SagaRun
<1>12. SagaUnwound'
  <2>1. standing' = Of(made')
    BY <1>1, <1>2, <1>3, OfGrows
  <2> QED BY <1>1, <1>2, <2>1 DEF SagaUnwound
<1> QED BY <1>8, <1>9, <1>11, <1>12 DEF SagaInv

LEMMA SagaCreateGoal == SagaInv /\ Saga!CreateGoal => SagaInv'
<1> SUFFICES ASSUME SagaInv, Saga!CreateGoal PROVE SagaInv'
  OBVIOUS
<1> DEFINE n == Len(made)
           c == [verb |-> Goal, args |-> carried]
<1>1. /\ sagaPhase = "running" /\ n = Len(chain)
      /\ called' = Append(called, c)
      /\ sagaPhase' = "done" /\ sagaStatus' = "completed"
      /\ UNCHANGED <<declared, existing, visits, chain, carried, made, left, effect, outcome, standing>>
  BY DEF Saga!CreateGoal, Saga!Call, Saga!unwind
<1>2. /\ SagaTypeOK /\ SagaSearch /\ SagaRun /\ SagaUnwound
      /\ Found(declared, existing, chain) /\ Ordered(declared, existing, chain)
      /\ Len(called) = n /\ standing = Of(made) /\ n \in Nat
      /\ called \in Seq(Calls) /\ carried \in Carries /\ Handed(carried, made, n)
  BY <1>1, RunningIs DEF SagaInv
<1>3. c \in Calls /\ c.verb = Goal /\ c.args = carried
  BY <1>2, GoalIsVerb DEF Calls
<1> HIDE DEF c
<1>4. /\ called' \in Seq(Calls) /\ Len(called') = n + 1 /\ called'[n + 1] = c
      /\ \A i \in 1..n : called'[i] = called[i]
  BY <1>1, <1>2, <1>3, AppendIs
<1>5. SagaTypeOK'
  BY <1>1, <1>2, <1>4 DEF SagaTypeOK
<1>6. SagaSearch'
  BY <1>1, <1>2 DEF SagaSearch
<1>7. ASSUME NEW i \in 1..(n + 1) PROVE Handed(called'[i].args, made, i - 1)
  <2>1. CASE i = n + 1
    <3>1. i - 1 = n
      BY <1>2, <2>1
    <3> QED BY <1>2, <1>3, <1>4, <2>1, <3>1
  <2>2. CASE i \in 1..n
    BY <1>2, <1>4, <2>2 DEF SagaRun
  <2> QED BY <1>2, <2>1, <2>2
<1>8. SagaRun'
  <2>1. made' = made /\ chain' = chain /\ carried' = carried
    BY <1>1
  <2> QED BY <1>1, <1>2, <1>3, <1>4, <1>7, <2>1 DEF SagaRun
<1>9. SagaUnwound'
  BY <1>1, <1>2 DEF SagaUnwound
<1> QED BY <1>5, <1>6, <1>8, <1>9 DEF SagaInv

LEMMA SagaFail == SagaInv /\ Saga!Fail => SagaInv'
<1> SUFFICES ASSUME SagaInv, Saga!Fail PROVE SagaInv'
  OBVIOUS
<1>1. /\ sagaPhase = "running" /\ sagaPhase' = "unwinding" /\ sagaStatus' = "failed"
      /\ left' = made
      /\ effect' \in [{made[i].verb : i \in DOMAIN made} -> Saga!Effects]
      /\ UNCHANGED <<declared, existing, visits, chain, carried, made, called, outcome, standing>>
  BY DEF Saga!Fail, Saga!saga
<1>2. /\ SagaTypeOK /\ SagaSearch /\ SagaRun
      /\ Found(declared, existing, chain) /\ Ordered(declared, existing, chain)
      /\ Len(called) = Len(made) /\ standing = Of(made)
      /\ made \in Seq(Saga!Prereq) /\ Len(made) \in Nat /\ DOMAIN made = 1..Len(made)
  BY <1>1, RunningIs DEF SagaInv
<1>3. SagaTypeOK'
  BY <1>1, <1>2 DEF SagaTypeOK
<1>4. SagaSearch'
  BY <1>1, <1>2 DEF SagaSearch
<1>5. SagaRun'
  BY <1>1, <1>2 DEF SagaRun
<1>6. PartlyUndone'
  <2>1. made' = made /\ standing' = Of(made') /\ left' = made'
    BY <1>1, <1>2
  <2>2. \A i \in 1..Len(made) : made[i].entity \in Of(made)
    BY DEF Of
  <2>3. \A i \in (Len(made) + 1)..Len(made) : FALSE
    BY <1>2
  <2> QED BY <1>1, <1>2, <2>1, <2>2, <2>3 DEF PartlyUndone
<1>7. SagaUnwound'
  BY <1>1, <1>6 DEF SagaUnwound
<1> QED BY <1>3, <1>4, <1>5, <1>7 DEF SagaInv

\* A report keeps what was reported.
LEMMA ReportedIs ==
  ASSUME NEW s \in Seq(Saga!Prereq), NEW p \in Saga!Prereq
  PROVE  Saga!ToSet(Append(s, p)) = Saga!ToSet(s) \cup {p}
<1> DEFINE n == Len(s)
           x == Append(s, p)
<1>1. /\ n \in Nat /\ Len(x) = n + 1 /\ x[n + 1] = p /\ \A k \in 1..n : x[k] = s[k]
      /\ x \in Seq(Saga!Prereq)
  BY AppendIs
<1> HIDE DEF x
<1>2. DOMAIN x = 1..(n + 1) /\ DOMAIN s = 1..n
  BY <1>1
<1>3. \A j \in 1..(n + 1) : j = n + 1 \/ j \in 1..n
  BY <1>1
<1>4. /\ n + 1 \in 1..(n + 1)
      /\ \A j \in 1..n : j \in 1..(n + 1)
  BY <1>1
<1>5. Saga!ToSet(x) = Saga!ToSet(s) \cup {p}
  BY <1>1, <1>2, <1>3, <1>4 DEF Saga!ToSet
<1> QED BY <1>5 DEF x

LEMMA SagaUnwindStep == SagaInv /\ Saga!Unwind => SagaInv'
<1> SUFFICES ASSUME SagaInv, Saga!Unwind PROVE SagaInv'
  OBVIOUS
<1> DEFINE k == Len(left)
           s == left[k]
           e == effect[s.verb]
<1>1. /\ sagaPhase = "unwinding" /\ left # << >>
      /\ left' = SubSeq(left, 1, k - 1)
      /\ outcome' = [outcome EXCEPT ![e] = Append(outcome[e], s)]
      /\ standing' \in {standing, standing \ {s.entity}}
      /\ UNCHANGED <<declared, existing, sagaPhase, visits, chain, carried, made, called, effect,
                     sagaStatus>>
  BY DEF Saga!Unwind, Saga!saga, Saga!Front, Saga!Last, Saga!Reported
<1>2. /\ SagaTypeOK /\ SagaSearch /\ SagaRun /\ SagaUnwound /\ PartlyUndone /\ sagaStatus = "failed"
      /\ made \in Seq(Saga!Prereq) /\ Len(made) \in Nat
      /\ left \in Seq(Saga!Prereq) /\ k \in Nat
      /\ outcome \in [Saga!Effects -> Seq(Saga!Prereq)]
  BY <1>1 DEF SagaInv, SagaTypeOK, SagaUnwound
<1>3. k \in 1..k /\ k - 1 \in 0..k /\ k - 1 \in Nat /\ k <= Len(made) /\ k \in 1..Len(made)
  <2>1. k # 0 /\ k <= Len(made)
    BY <1>1, <1>2, EmptySeq DEF PartlyUndone
  <2> HIDE DEF k
  <2> QED BY <1>2, <2>1
<1>4. s = made[k] /\ s \in Saga!Prereq
  BY <1>2, <1>3 DEF PartlyUndone
<1>5. e \in Saga!Effects
  <2>1. s.verb \in {made[i].verb : i \in 1..Len(made)}
    BY <1>3, <1>4
  <2>2. effect \in [{made[i].verb : i \in 1..Len(made)} -> Saga!Effects]
    BY <1>2 DEF PartlyUndone
  <2> QED BY <2>1, <2>2
<1>6. /\ left' \in Seq(Saga!Prereq) /\ Len(left') = k - 1
      /\ \A i \in 1..(k - 1) : left'[i] = left[i]
  <2>1. \A i \in 1..(k - 1) : left[i] \in Saga!Prereq
    BY <1>2, <1>3
  <2> HIDE DEF k
  <2>2. k - 1 = 0 \/ 1 <= k - 1
    BY <1>3
  <2> QED BY <1>1, <1>2, <1>3, <2>1, <2>2, SubSeqProperties
<1>7. /\ outcome' \in [Saga!Effects -> Seq(Saga!Prereq)]
      /\ s \in Saga!ToSet(outcome'[e])
      /\ \A f \in Saga!Effects : Saga!ToSet(outcome[f]) \subseteq Saga!ToSet(outcome'[f])
  <2> HIDE DEF e, s
  <2>1. outcome[e] \in Seq(Saga!Prereq)
    BY <1>2, <1>5
  <2>2. /\ Append(outcome[e], s) \in Seq(Saga!Prereq)
        /\ Saga!ToSet(Append(outcome[e], s)) = Saga!ToSet(outcome[e]) \cup {s}
    BY <1>4, <2>1, ReportedIs, AppendIs
  <2>3. /\ outcome'[e] = Append(outcome[e], s)
        /\ \A f \in Saga!Effects : f # e => outcome'[f] = outcome[f]
        /\ outcome' \in [Saga!Effects -> Seq(Saga!Prereq)]
    BY <1>1, <1>2, <1>5, <2>2
  <2> QED BY <2>2, <2>3
<1>8. SagaTypeOK'
  BY <1>1, <1>2, <1>6, <1>7 DEF SagaTypeOK
<1>9. SagaSearch'
  BY <1>1, <1>2 DEF SagaSearch
<1>10. SagaRun'
  BY <1>1, <1>2 DEF SagaRun
<1> HIDE DEF k, s, e
<1>11. ASSUME NEW i \in 1..(k - 1)
       PROVE  left'[i] = made[i] /\ made[i].entity \in standing'
  <2>1. i \in 1..k /\ i \in 1..Len(made) /\ i \in 1..(k - 1)
    BY <1>3
  <2>2. left[i] = made[i] /\ made[i].entity \in standing
    BY <1>2, <2>1 DEF PartlyUndone, k
  <2>3. made[i].entity # s.entity
    <3>1. chain[i].entity # chain[k].entity
      <4>1. k \in 1..Len(chain) /\ Len(chain) \in Nat
        BY <1>2, <1>3 DEF SagaRun, SagaSearch, Ordered
      <4> QED BY <1>2, <2>1, <4>1 DEF SagaSearch, Ordered
    <3> QED BY <1>2, <1>3, <1>4, <2>1, <3>1 DEF SagaRun
  <2> QED BY <1>1, <1>6, <2>2, <2>3
<1>12. ASSUME NEW i \in ((k - 1) + 1)..Len(made)
       PROVE  made[i] \in Saga!ToSet(outcome'[effect[made[i].verb]])
  <2>1. CASE i = k
    BY <1>4, <1>7, <2>1 DEF e
  <2>2. CASE i \in (k + 1)..Len(made)
    <3>1. made[i] \in Saga!ToSet(outcome[effect[made[i].verb]])
      BY <1>2, <2>2 DEF PartlyUndone, k
    <3>2. effect[made[i].verb] \in Saga!Effects
      <4>1. i \in 1..Len(made)
        BY <1>2, <1>3, <2>2
      <4> QED BY <1>2, <4>1 DEF PartlyUndone
    <3> QED BY <1>7, <3>1, <3>2
  <2> QED BY <1>2, <1>3, <2>1, <2>2
<1>13. PartlyUndone'
  <2>1. made' = made /\ effect' = effect
    BY <1>1
  <2>2. Len(left') <= Len(made)
    BY <1>2, <1>3, <1>6
  <2>3. standing' \subseteq Of(made)
    BY <1>1, <1>2 DEF PartlyUndone
  <2>4. effect \in [{made[i].verb : i \in 1..Len(made)} -> Saga!Effects]
    BY <1>2 DEF PartlyUndone
  <2> QED BY <1>6, <1>11, <1>12, <2>1, <2>2, <2>3, <2>4 DEF PartlyUndone
<1>14. SagaUnwound'
  BY <1>1, <1>2, <1>13 DEF SagaUnwound
<1> QED BY <1>8, <1>9, <1>10, <1>14 DEF SagaInv

LEMMA SagaEndUnwind == SagaInv /\ Saga!EndUnwind => SagaInv'
<1> SUFFICES ASSUME SagaInv, Saga!EndUnwind PROVE SagaInv'
  OBVIOUS
<1>1. /\ sagaPhase = "unwinding" /\ left = << >> /\ sagaPhase' = "done"
      /\ \/ sagaStatus' \in {"blocked", "parked"}
         \/ /\ sagaStatus' = "compensated"
            /\ outcome["irreversible"] = << >> /\ outcome["parked"] = << >>
      /\ UNCHANGED <<declared, existing, visits, chain, carried, made, called, left, effect,
                     outcome, standing>>
  BY DEF Saga!EndUnwind, Saga!saga, Saga!unwind
<1>2. SagaTypeOK /\ SagaSearch /\ SagaRun /\ SagaUnwound /\ PartlyUndone
  BY <1>1 DEF SagaInv, SagaUnwound
<1>3. SagaTypeOK'
  BY <1>1, <1>2 DEF SagaTypeOK
<1>4. SagaSearch'
  BY <1>1, <1>2 DEF SagaSearch
<1>5. SagaRun'
  BY <1>1, <1>2 DEF SagaRun
<1>6. PartlyUndone'
  BY <1>1, <1>2 DEF PartlyUndone
<1>7. SagaUnwound'
  BY <1>1, <1>6 DEF SagaUnwound
<1> QED BY <1>3, <1>4, <1>5, <1>7 DEF SagaInv

LEMMA SagaNext == SagaInv /\ [Saga!Next]_(Saga!vars) => SagaInv'
<1>1. SagaInv /\ UNCHANGED Saga!vars => SagaInv'
  BY DEF SagaInv, SagaTypeOK, SagaSearch, SagaRun, SagaUnwound, PartlyUndone, Saga!vars, Saga!saga, Saga!unwind
<1> QED BY <1>1, SagaPlan, SagaCreate, SagaCreateGoal, SagaFail, SagaUnwindStep, SagaEndUnwind DEF Saga!Next

\* Only a loop in what is missing is refused, and every one.
LEMMA RefusedAreCycles == SagaInv => Saga!CyclesAreRefused
<1>1. ASSUME SagaInv, sagaPhase # "planning"
      PROVE  (sagaStatus = "cycle") <=> ~Sound(declared, existing, Goal)
  BY <1>1 DEF SagaInv, SagaSearch, Found
<1>2. ~Sound(declared, existing, Goal) <=>
        \E v \in {Goal} \cup Saga!Needed(Goal) : v \in Saga!Needed(v)
  BY NeedsAreWants DEF Sound
<1> QED BY <1>1, <1>2 DEF Saga!CyclesAreRefused

\* A call needs what its verb needs.
CallHas(i) ==
  /\ called[i].verb \in Verbs
  /\ \A p \in Saga!ToSet(declared[called[i].verb]) :
       p.entity \in existing \cup {made[j].entity : j \in 1..(i - 1)}

LEMMA CallsHave ==
  ASSUME SagaInv, NEW i \in 1..Len(called)
  PROVE  CallHas(i)
<1>1. /\ SagaTypeOK /\ SagaSearch /\ SagaRun
      /\ declared \in Declared /\ Ordered(declared, existing, chain)
      /\ made \in Seq(Saga!Prereq) /\ Len(made) \in Nat
      /\ \A j \in 1..Len(made) : made[j] = chain[j]
      /\ Len(made) <= Len(chain) /\ Len(chain) \in Nat
  <2>1. SagaTypeOK /\ SagaSearch /\ SagaRun
    BY DEF SagaInv
  <2>2. declared \in Declared /\ Ordered(declared, existing, chain) /\ made \in Seq(Saga!Prereq)
    BY <2>1 DEF SagaTypeOK, SagaSearch
  <2>3. Len(made) \in Nat /\ Len(chain) \in Nat
    BY <2>2 DEF Ordered
  <2>4. Len(made) <= Len(chain) /\ \A j \in 1..Len(made) : made[j] = chain[j]
    BY <2>1 DEF SagaRun
  <2> QED BY <2>1, <2>2, <2>3, <2>4
<1>2. CASE i \in 1..Len(made)
  <2>1. called[i].verb = made[i].verb /\ made[i] = chain[i] /\ i \in 1..Len(chain)
    BY <1>1, <1>2 DEF SagaRun
  <2>2. made[i] \in Saga!Prereq
    BY <1>1, <1>2
  <2>3. \A j \in 1..(i - 1) : made[j] = chain[j]
    BY <1>1, <1>2
  <2>4. {made[j].entity : j \in 1..(i - 1)} = {chain[j].entity : j \in 1..(i - 1)}
    BY <2>3
  <2>5. \A p \in Saga!ToSet(declared[chain[i].verb]) :
          p.entity \in existing \cup {chain[j].entity : j \in 1..(i - 1)}
    BY <1>1, <2>1 DEF Ordered
  <2> QED BY <2>1, <2>2, <2>4, <2>5 DEF CallHas, Saga!Prereq
<1>3. CASE i \notin 1..Len(made)
  <2>1. /\ Len(called) = Len(made) + 1 /\ Len(made) = Len(chain) /\ sagaPhase = "done"
        /\ sagaStatus = "completed" /\ called[Len(called)].verb = Goal
    BY <1>1, <1>3 DEF SagaRun
  <2>2. i = Len(made) + 1 /\ i - 1 = Len(made)
    BY <1>1, <1>3, <2>1
  <2>3. called[i].verb = Goal
    BY <2>1, <2>2
  <2>5. Found(declared, existing, chain)
    BY <1>1, <2>1 DEF SagaSearch
  <2>6. Of(chain) = {made[j].entity : j \in 1..(i - 1)}
    BY <1>1, <2>1, <2>2 DEF Of
  <2> QED BY <2>3, <2>5, <2>6, GoalIsVerb DEF CallHas, Found
<1> QED BY <1>2, <1>3

LEMMA NothingMisses == SagaInv => Saga!NothingIsMissing
<1> SUFFICES ASSUME SagaInv PROVE Saga!NothingIsMissing
  OBVIOUS
<1>1. /\ called \in Seq(Calls) /\ DOMAIN called = 1..Len(called)
      /\ made \in Seq(Saga!Prereq) /\ DOMAIN made = 1..Len(made) /\ Len(made) \in Nat
  BY DEF SagaInv, SagaTypeOK
<1>2. \A i \in DOMAIN called :
        \A p \in Saga!ToSet(declared[called[i].verb]) : p.entity \in existing \cup Saga!Before(i)
  BY <1>1, CallsHave DEF CallHas, Saga!Before
<1>3. ASSUME NEW i \in DOMAIN made PROVE made[i].entity \notin existing \cup Saga!Before(i)
  <2>1. /\ Ordered(declared, existing, chain) /\ Len(chain) \in Nat /\ Len(made) <= Len(chain)
        /\ \A j \in 1..Len(made) : made[j] = chain[j]
    BY DEF SagaInv, SagaSearch, SagaRun, Ordered
  <2>2. i \in 1..Len(made) /\ i \in 1..Len(chain) /\ \A j \in 1..(i - 1) : j \in 1..Len(made)
    BY <1>1, <2>1
  <2>3. made[i].entity \notin existing /\ \A j \in 1..(i - 1) : made[j].entity # made[i].entity
    BY <2>1, <2>2 DEF Ordered
  <2> QED BY <2>3 DEF Saga!Before
<1> QED BY <1>2, <1>3 DEF Saga!NothingIsMissing

\* Each name stands for one entity, so the id that is carried under it is the right one.
LEMMA IdsDoArrive == SagaInv => Saga!IdsArrive
<1> SUFFICES ASSUME SagaInv, Saga!CarriesApart, NEW i \in DOMAIN called,
                    NEW p \in Saga!ToSet(declared[called[i].verb]), p.entity \notin existing
             PROVE  p.arg \in DOMAIN called[i].args /\ called[i].args[p.arg] = p.entity
  BY DEF Saga!IdsArrive
<1> DEFINE all == UNION {Saga!ToSet(declared[v]) : v \in Verbs}
<1>1. /\ i \in 1..Len(called) /\ i \in Nat /\ Len(called) \in Nat
      /\ Len(made) \in Nat /\ Len(called) <= Len(made) + 1
      /\ Handed(called[i].args, made, i - 1)
  <2>1. called \in Seq(Calls) /\ made \in Seq(Saga!Prereq)
    BY DEF SagaInv, SagaTypeOK
  <2>2. i \in 1..Len(called) /\ i \in Nat /\ Len(called) \in Nat /\ Len(made) \in Nat
    BY <2>1
  <2> QED BY <2>2 DEF SagaInv, SagaRun
<1>2. CallHas(i)
  BY <1>1, CallsHave
<1>3. p \in all
  BY <1>2 DEF CallHas
<1>4. \A j \in 1..(i - 1) : made[j] \in all
  <2> SUFFICES ASSUME NEW j \in 1..(i - 1) PROVE made[j] \in all
    OBVIOUS
  <2>1. /\ Ordered(declared, existing, chain) /\ Len(chain) \in Nat /\ Len(made) <= Len(chain)
        /\ \A k \in 1..Len(made) : made[k] = chain[k]
    BY DEF SagaInv, SagaSearch, SagaRun, Ordered
  <2>2. j \in 1..Len(made) /\ j \in 1..Len(chain)
    BY <1>1, <2>1
  <2>3. \E v \in Verbs : chain[j] \in Saga!ToSet(declared[v])
    BY <2>1, <2>2 DEF Ordered
  <2> QED BY <2>1, <2>2, <2>3
<1> HIDE DEF all
<1>5. \A q, r \in all : (q.arg = r.arg) <=> (q.entity = r.entity)
  BY DEF Saga!CarriesApart, all
<1>6. PICK j \in 1..(i - 1) : made[j].entity = p.entity
  BY <1>2 DEF CallHas
<1>7. made[j].arg = p.arg
  BY <1>3, <1>4, <1>5, <1>6
<1>8. p.arg \in DOMAIN called[i].args
  BY <1>1, <1>7 DEF Handed
<1>9. PICK k \in 1..(i - 1) : made[k].arg = p.arg /\ called[i].args[p.arg] = made[k].entity
  BY <1>1, <1>8 DEF Handed
<1>10. made[k].entity = p.entity
  BY <1>3, <1>4, <1>5, <1>9
<1> QED BY <1>8, <1>9, <1>10

LEMMA NothingStandsInSilence == SagaInv => Saga!NothingIsLeftInSilence
<1> SUFFICES ASSUME SagaInv PROVE Saga!NothingIsLeftInSilence
  OBVIOUS
<1>1. /\ SagaTypeOK /\ SagaSearch /\ SagaRun /\ SagaUnwound
      /\ made \in Seq(Saga!Prereq) /\ Len(made) \in Nat /\ DOMAIN made = 1..Len(made)
      /\ Ordered(declared, existing, chain) /\ Len(chain) \in Nat
      /\ Len(made) <= Len(chain) /\ \A k \in 1..Len(made) : made[k] = chain[k]
  BY DEF SagaInv, SagaTypeOK, SagaSearch, SagaRun, Ordered
<1>2. ASSUME PartlyUndone, NEW i \in (Len(left) + 1)..Len(made)
      PROVE  made[i].entity \in Saga!ReportedEntities
  <2>1. i \in 1..Len(made)
    <3>1. Len(left) \in Nat
      BY <1>1 DEF SagaTypeOK
    <3> QED BY <1>1, <3>1
  <2>2. effect[made[i].verb] \in Saga!Effects
    BY <1>2, <2>1 DEF PartlyUndone
  <2>3. made[i] \in Saga!ToSet(outcome[effect[made[i].verb]])
    BY <1>2 DEF PartlyUndone
  <2> QED BY <2>2, <2>3 DEF Saga!ReportedEntities
<1>3. ASSUME sagaStatus \in {"compensated", "parked", "blocked"}
      PROVE  standing \subseteq Saga!ReportedEntities
  <2>1. PartlyUndone /\ Len(left) = 0
    BY <1>1, <1>3, EmptyIs DEF SagaTypeOK, SagaUnwound
  <2>2. \A i \in 1..Len(made) : made[i].entity \in Saga!ReportedEntities
    BY <1>1, <1>2, <2>1
  <2> QED BY <2>1, <2>2 DEF PartlyUndone, Of
<1>4. ASSUME NEW s \in Saga!ToSet(made), s.entity \in standing \ Saga!ReportedEntities,
             NEW p \in Saga!ToSet(declared[s.verb])
      PROVE  p.entity \in existing \cup standing
  <2>1. PICK i \in 1..Len(made) : s = made[i]
    BY <1>1 DEF Saga!ToSet
  <2>2. \A j \in 1..(i - 1) : made[j].entity \in standing
    <3>1. CASE standing = Of(made)
      <4>1. \A j \in 1..(i - 1) : j \in 1..Len(made)
        BY <1>1
      <4> QED BY <3>1, <4>1 DEF Of
    <3>2. CASE PartlyUndone
      <4>1. Len(left) \in Nat
        BY <1>1 DEF SagaTypeOK
      <4>2. i <= Len(left)
        BY <1>1, <1>2, <1>4, <2>1, <3>2, <4>1
      <4>3. \A j \in 1..(i - 1) : j \in 1..Len(left)
        BY <4>1, <4>2
      <4> QED BY <3>2, <4>3 DEF PartlyUndone
    <3> QED BY <1>1, <3>1, <3>2 DEF SagaTypeOK, SagaUnwound
  <2>3. i \in 1..Len(chain) /\ s = chain[i] /\ \A j \in 1..(i - 1) : chain[j] = made[j]
    BY <1>1, <2>1
  <2>4. p.entity \in existing \cup {chain[j].entity : j \in 1..(i - 1)}
    BY <1>1, <1>4, <2>3 DEF Ordered
  <2> QED BY <2>2, <2>3, <2>4
<1>5. ASSUME sagaStatus = "compensated", NEW v \in DOMAIN effect PROVE effect[v] = "automatic"
  <2>1. /\ PartlyUndone /\ left = << >>
        /\ outcome["irreversible"] = << >> /\ outcome["parked"] = << >>
    BY <1>1, <1>5 DEF SagaTypeOK, SagaUnwound
  <2>2. PICK i \in 1..Len(made) : v = made[i].verb
    BY <2>1 DEF PartlyUndone
  <2>3. effect[v] \in Saga!Effects
    BY <2>1, <2>2 DEF PartlyUndone
  <2>4. made[i] \in Saga!ToSet(outcome[effect[v]])
    <3>1. i \in (Len(left) + 1)..Len(made)
      BY <1>1, <2>1, EmptyIs
    <3> QED BY <2>1, <2>2, <3>1 DEF PartlyUndone
  <2>5. Saga!ToSet(<< >>) = {}
    BY DEF Saga!ToSet
  <2> QED BY <2>1, <2>3, <2>4, <2>5 DEF Saga!Effects
<1> QED BY <1>3, <1>4, <1>5 DEF Saga!NothingIsLeftInSilence

\* A saga makes what its goal needs and nothing else, in the order in which it is needed
\* and with the ids that are needed, and leaves nothing in silence when it is undone.
LEMMA SagaIsInOrder == SagaInv => Saga!SagaIsOrderly
BY RefusedAreCycles, NothingMisses, IdsDoArrive, NothingStandsInSilence DEF Saga!SagaIsOrderly

\* What a goal needs is made before it, once and with its ids, a loop is refused, and an
\* unwind leaves nothing in silence; a repair proposes only what a refusal named and the
\* conversation settled, once it has an id never again, and gives up for a reason.
THEOREM HealingStaysHonest == KernelSpec => []HealingIsHonest
<1>1. Saga!Spec => []Saga!SagaIsOrderly
  BY SagaInit, SagaNext, SagaIsInOrder, PTL DEF Saga!Spec
<1>2. Mending!Spec => []Mending!RepairIsGrounded
  BY LoopInit, LoopNext, LoopIsGrounded, PTL DEF Mending!Spec
<1> QED BY <1>1, <1>2, JobsAreApart, PTL DEF HealingIsHonest

-----------------------------------------------------------------------------
(* What validate() finds.  Of a plan p: its nodes, what a node leads to, and what follows *)
(* from it in the end.                                                                    *)

Ids(p) == DOMAIN p.nodes
To(p, n) == Check!SuccessorTargets(p.nodes[n])
LeadsTo(p, n) == Check!ToSet(To(p, n)) \cap Ids(p)
Follow(p, n) ==
  {m \in Ids(p) : \A C \in SUBSET (Ids(p) \ {m}) : \E s \in C \cup {n} : ~(LeadsTo(p, s) \subseteq C)}

LEMMA FollowingIs ==
  \A n \in Ids(program) : Check!Following(n) = Follow(program, n)
<1>1. \A n \in Ids(program) : \A C \in SUBSET Ids(program) : \A s \in C \cup {n} : s \in Ids(program)
  OBVIOUS
<1> QED BY <1>1 DEF Check!Following, Follow, Check!ids, Check!Successors, LeadsTo, To, Ids

LEMMA FollowIsClosed ==
  ASSUME NEW p, NEW n, NEW s \in Follow(p, n) \cup {n}
  PROVE  LeadsTo(p, s) \subseteq Follow(p, n)
<1> SUFFICES ASSUME NEW m \in LeadsTo(p, s), NEW C \in SUBSET (Ids(p) \ {m}),
                    \A u \in C \cup {n} : LeadsTo(p, u) \subseteq C
             PROVE  FALSE
  BY DEF Follow, LeadsTo
<1>1. s \notin C \cup {n}
  OBVIOUS
<1>2. s \in Follow(p, n) /\ C \in SUBSET (Ids(p) \ {s})
  BY <1>1
<1> QED BY <1>2 DEF Follow

LEMMA FollowIsLeast ==
  ASSUME NEW p, NEW n, NEW C \in SUBSET Ids(p), \A s \in C \cup {n} : LeadsTo(p, s) \subseteq C
  PROVE  Follow(p, n) \subseteq C
<1> SUFFICES ASSUME NEW m \in Follow(p, n), m \notin C PROVE FALSE
  OBVIOUS
<1>1. C \in SUBSET (Ids(p) \ {m})
  OBVIOUS
<1> QED BY <1>1 DEF Follow

LEMMA FollowGoesOn ==
  ASSUME NEW p, NEW n, NEW m \in Follow(p, n)
  PROVE  Follow(p, m) \subseteq Follow(p, n)
<1>1. Follow(p, n) \in SUBSET Ids(p)
  BY DEF Follow
<1>2. \A s \in Follow(p, n) \cup {m} : LeadsTo(p, s) \subseteq Follow(p, n)
  BY FollowIsClosed
<1> QED BY <1>1, <1>2, FollowIsLeast

LEMMA FollowSplits ==
  ASSUME NEW p, NEW n, NEW m \in Follow(p, n)
  PROVE  \E s \in LeadsTo(p, n) : m = s \/ m \in Follow(p, s)
<1> DEFINE C == UNION {{s} \cup Follow(p, s) : s \in LeadsTo(p, n)}
<1>1. C \in SUBSET Ids(p)
  BY DEF Follow, LeadsTo
<1>2. ASSUME NEW s \in LeadsTo(p, n), NEW u \in {s} \cup Follow(p, s)
      PROVE  LeadsTo(p, u) \subseteq Follow(p, s)
  BY FollowIsClosed
<1>3. \A u \in C : LeadsTo(p, u) \subseteq C
  BY <1>2
<1>4. LeadsTo(p, n) \subseteq C
  OBVIOUS
<1>5. m \in C
  <2> HIDE DEF C
  <2>1. Follow(p, n) \subseteq C
    BY <1>1, <1>3, <1>4, FollowIsLeast
  <2> QED BY <2>1
<1> QED BY <1>5
-----------------------------------------------------------------------------
(* Recursion over a list.                                                   *)

\* Some numbers have a least.
LEMMA LeastNumber ==
  ASSUME NEW T, T \subseteq Nat, T # {}
  PROVE  \E k \in T : \A m \in T : k <= m
<1> DEFINE R == OpToRel(<, Nat)
<1>1. IsWellFoundedOn(R, Nat)
  BY NatLessThanWellFounded
<1>2. PICK k \in T : \A m \in T : <<m, k>> \notin R
  <2> HIDE DEF R
  <2> QED BY <1>1, WFMin
<1>3. ASSUME NEW m \in T PROVE k <= m
  <2>1. m \in Nat /\ k \in Nat
    OBVIOUS
  <2>2. ~(m < k)
    BY <1>2, <2>1 DEF OpToRel
  <2> QED BY <2>1, <2>2
<1> QED BY <1>3

\* The steps of a list, taken one after another from a.
Listed(S, n, a, f, g) ==
  g \in [0..n -> S] /\ g[0] = a /\ \A i \in 1..n : g[i] = f[i][g[i - 1]]

LEMMA RecursionIs ==
  ASSUME NEW S, NEW n \in Nat, NEW a \in S, NEW f \in [1..n -> [S -> S]]
  PROVE  \E g : Listed(S, n, a, f, g)
<1> DEFINE Good(k, g) == g \in [0..k -> S] /\ g[0] = a /\ \A i \in 1..k : g[i] = f[i][g[i - 1]]
           T == {k \in Nat : k <= n /\ ~\E g : Good(k, g)}
<1> SUFFICES ASSUME T # {} PROVE FALSE
  <2>1. n \notin T => \E g : Good(n, g)
    OBVIOUS
  <2> QED BY <2>1 DEF Listed
<1>1. PICK k \in T : \A m \in T : k <= m
  <2>1. T \subseteq Nat
    OBVIOUS
  <2> HIDE DEF T
  <2> QED BY <2>1, LeastNumber
<1>2. k \in Nat /\ k <= n /\ ~\E g : Good(k, g)
  OBVIOUS
<1>3. k # 0
  <2>1. Good(0, [i \in 0..0 |-> a])
    OBVIOUS
  <2> QED BY <1>2, <2>1
<1>4. k - 1 \in Nat /\ k - 1 < k /\ k - 1 <= n /\ k \in 1..n /\ k - 1 \in 0..(k - 1)
  BY <1>2, <1>3
<1>5. k - 1 \notin T
  <2> HIDE DEF T
  <2> QED BY <1>1, <1>2, <1>4
<1>6. PICK g : Good(k - 1, g)
  BY <1>4, <1>5
<1> DEFINE h == [i \in 0..k |-> IF i = k THEN f[k][g[k - 1]] ELSE g[i]]
<1>7. f[k][g[k - 1]] \in S
  <2>1. f[k] \in [S -> S] /\ g[k - 1] \in S
    BY <1>4, <1>6
  <2> QED BY <2>1
<1>8. \A i \in 0..k : i = k \/ i \in 0..(k - 1)
  BY <1>2
<1>9. h \in [0..k -> S] /\ h[0] = a
  BY <1>2, <1>3, <1>6, <1>7, <1>8
<1>10. ASSUME NEW i \in 1..k PROVE h[i] = f[i][h[i - 1]]
  <2>1. i \in 0..k /\ i - 1 \in 0..k /\ i - 1 # k /\ (i # k => i \in 1..(k - 1))
    BY <1>2
  <2>2. CASE i = k
    BY <1>2, <2>1, <2>2
  <2>3. CASE i # k
    BY <1>6, <2>1, <2>3
  <2> QED BY <2>2, <2>3
<1> QED BY <1>2, <1>9, <1>10

-----------------------------------------------------------------------------
(* The lists of validate(), with the plan as their parameter.               *)

\* The edges of n.
Keep(p, s, t) == IF t \in Ids(p) THEN Append(s, t) ELSE s
Keeping(p, ts, g) == g = [i \in 0..Len(ts) |-> IF i = 0 THEN << >> ELSE Keep(p, g[i - 1], ts[i])]
Kept(p, ts) == (CHOOSE g : Keeping(p, ts, g))[Len(ts)]

ReleaseOf(p, s, t) ==
  LET d == s.degree[t] - 1 IN
  IF t \notin Ids(p) THEN s
  ELSE [degree |-> [s.degree EXCEPT ![t] = d],
        queue  |-> IF d = 0 THEN Append(s.queue, t) ELSE s.queue]

Releasing(p, ts, b, g) ==
  g = [i \in 0..Len(ts) |-> IF i = 0 THEN b ELSE ReleaseOf(p, g[i - 1], ts[i])]
ReleasedOf(p, ts, b) == (CHOOSE g : Releasing(p, ts, b, g))[Len(ts)]

LEMMA ListsAre ==
  /\ \A n : Check!Edges(n) = Kept(program, To(program, n))
  /\ \A ts, b : Check!Released(ts, b) = ReleasedOf(program, ts, b)
<1>1. \A n : Check!Edges(n) = Kept(program, To(program, n))
  BY DEF Check!Edges, Kept, Keeping, Keep, Check!Successors, To, Check!ids, Ids
<1>2. \A ts, b : Check!Released(ts, b) = ReleasedOf(program, ts, b)
  BY DEF Check!Released, Check!Release, ReleasedOf, ReleaseOf, Check!ids, Releasing, Ids
<1> QED BY <1>1, <1>2

\* What a list holds after one more.
LEMMA OneMoreHeld ==
  ASSUME NEW S, NEW s \in Seq(S), NEW x \in S
  PROVE  /\ Append(s, x) \in Seq(S) /\ Len(Append(s, x)) = Len(s) + 1
         /\ Append(s, x)[Len(s) + 1] = x
         /\ \A i \in 1..Len(s) : Append(s, x)[i] = s[i]
         /\ Check!ToSet(Append(s, x)) = Check!ToSet(s) \cup {x}
<1>1. /\ Append(s, x) \in Seq(S) /\ Len(Append(s, x)) = Len(s) + 1
      /\ Append(s, x)[Len(s) + 1] = x
      /\ \A i \in 1..Len(s) : Append(s, x)[i] = s[i]
  BY AppendIs
<1>2. Len(s) \in Nat /\ DOMAIN s = 1..Len(s) /\ DOMAIN Append(s, x) = 1..(Len(s) + 1)
  BY <1>1
<1>3. \A i \in 1..(Len(s) + 1) : i \in 1..Len(s) \/ i = Len(s) + 1
  BY <1>2
<1>4. Check!ToSet(Append(s, x)) \subseteq Check!ToSet(s) \cup {x}
  BY <1>1, <1>2, <1>3 DEF Check!ToSet
<1>5. Check!ToSet(s) \cup {x} \subseteq Check!ToSet(Append(s, x))
  <2>1. \A i \in 1..Len(s) : i \in 1..(Len(s) + 1)
    BY <1>2
  <2>2. Len(s) + 1 \in 1..(Len(s) + 1)
    BY <1>2
  <2> QED BY <1>1, <1>2, <2>1, <2>2 DEF Check!ToSet
<1> QED BY <1>1, <1>4, <1>5

LEMMA EdgesAre ==
  ASSUME NEW p, NEW ts \in Seq(Nodes)
  PROVE  Kept(p, ts) \in Seq(Ids(p)) /\ Check!ToSet(Kept(p, ts)) = Check!ToSet(ts) \cap Ids(p)
<1> DEFINE S == Seq(Ids(p))
           n == Len(ts)
           f == [i \in 1..n |-> [s \in S |-> Keep(p, s, ts[i])]]
<1>1. n \in Nat /\ << >> \in S /\ DOMAIN ts = 1..n
  OBVIOUS
<1>2. \A s \in S : \A t : Keep(p, s, t) \in S
  BY DEF Keep
<1>3. f \in [1..n -> [S -> S]]
  BY <1>2
<1>4. PICK h : Listed(S, n, << >>, f, h)
  <2> HIDE DEF f, S, n
  <2> QED BY <1>1, <1>3, RecursionIs
<1>5. Keeping(p, ts, h)
  <2>1. \A i \in 1..n : i \in 0..n /\ i - 1 \in 0..n
    BY <1>1
  <2>2. /\ h \in [0..n -> S] /\ h[0] = << >>
        /\ \A i \in 1..n : h[i] = f[i][h[i - 1]]
    BY <1>4 DEF Listed
  <2>3. \A i \in 1..n : h[i] = Keep(p, h[i - 1], ts[i])
    BY <2>1, <2>2
  <2>4. \A i \in 0..n : i = 0 \/ i \in 1..n
    BY <1>1
  <2>5. \A i \in 0..n : h[i] = IF i = 0 THEN << >> ELSE Keep(p, h[i - 1], ts[i])
    BY <2>2, <2>3, <2>4
  <2>6. h = [i \in 0..n |-> h[i]]
    BY <2>2
  <2> HIDE DEF f, S
  <2> QED BY <2>5, <2>6 DEF Keeping
<1> DEFINE g == CHOOSE k : Keeping(p, ts, k)
<1>6. Keeping(p, ts, g)
  BY <1>5
<1>7. Kept(p, ts) = g[n]
  BY DEF Kept
<1> HIDE DEF g, f
<1>8. g[0] = << >> /\ \A i \in 1..n : g[i] = Keep(p, g[i - 1], ts[i])
  <2>1. \A i \in 0..n : g[i] = IF i = 0 THEN << >> ELSE Keep(p, g[i - 1], ts[i])
    BY <1>6 DEF Keeping
  <2>2. 0 \in 0..n /\ \A i \in 1..n : i \in 0..n /\ i # 0
    BY <1>1
  <2> QED BY <2>1, <2>2
<1> DEFINE Good(i) == g[i] \in S /\ Check!ToSet(g[i]) = {ts[j] : j \in 1..i} \cap Ids(p)
           T == {i \in 0..n : ~Good(i)}
<1>9. T = {}
  <2> SUFFICES ASSUME T # {} PROVE FALSE
    OBVIOUS
  <2>1. PICK k \in T : \A m \in T : k <= m
    <3>1. T \subseteq Nat
      BY <1>1
    <3> HIDE DEF T
    <3> QED BY <3>1, LeastNumber
  <2>2. k # 0
    <3>1. Good(0)
      BY <1>8 DEF Check!ToSet
    <3> QED BY <3>1
  <2>3. k \in 1..n /\ k - 1 \in 0..n /\ k - 1 < k /\ k - 1 \in Nat
    BY <1>1, <2>2
  <2>4. Good(k - 1)
    <3> HIDE DEF Good
    <3>1. k - 1 \notin T
      BY <1>1, <2>1, <2>3
    <3> QED BY <2>3, <3>1
  <2>5. g[k] = Keep(p, g[k - 1], ts[k])
    BY <1>8, <2>3
  <2>6. {ts[j] : j \in 1..k} = {ts[j] : j \in 1..(k - 1)} \cup {ts[k]}
    <3>1. \A j : j \in 1..k <=> j \in 1..(k - 1) \/ j = k
      BY <2>3
    <3> QED BY <3>1
  <2>7. CASE ts[k] \in Ids(p)
    <3>1. g[k] = Append(g[k - 1], ts[k])
      BY <2>5, <2>7 DEF Keep
    <3>2. g[k] \in S /\ Check!ToSet(g[k]) = Check!ToSet(g[k - 1]) \cup {ts[k]}
      BY <2>4, <2>7, <3>1, OneMoreHeld
    <3> QED BY <2>1, <2>4, <2>6, <2>7, <3>2
  <2>8. CASE ts[k] \notin Ids(p)
    <3>1. g[k] = g[k - 1]
      BY <2>5, <2>8 DEF Keep
    <3> QED BY <2>1, <2>4, <2>6, <2>8, <3>1
  <2> QED BY <2>7, <2>8
<1>10. Good(n)
  <2> HIDE DEF Good
  <2> QED BY <1>1, <1>9
<1> QED BY <1>1, <1>7, <1>10 DEF Check!ToSet

-----------------------------------------------------------------------------
(* The sort.                                                                *)

In(p, t) == UNION {{n} \X {i \in DOMAIN To(p, n) : To(p, n)[i] = t} : n \in Ids(p)}

LEMMA IncomingIs == \A t : Check!Incoming(t) = In(program, t)
BY DEF Check!Incoming, In, Check!Successors, To, Check!ids, Ids

LEMMA PlanIs ==
  ASSUME NEW p, IsProgram(p)
  PROVE  /\ Ids(p) \subseteq Nodes /\ IsFiniteSet(Ids(p))
         /\ \A n \in Ids(p) : To(p, n) \in Seq(Nodes)
<1>1. Ids(p) \subseteq Nodes /\ IsFiniteSet(Ids(p)) /\ \A n \in Ids(p) : p.nodes[n] \in Node
  BY DEF IsProgram, Ids
<1>2. \A m \in Node : Check!SuccessorTargets(m) \in Seq(Nodes)
  BY TargetsAreSuccessors
<1> QED BY <1>1, <1>2 DEF To

LEMMA InIs ==
  ASSUME NEW p, IsProgram(p), NEW t
  PROVE  /\ IsFiniteSet(In(p, t))
         /\ \A a : a \in In(p, t) <=> /\ a = <<a[1], a[2]>> /\ a[1] \in Ids(p)
                                      /\ a[2] \in 1..Len(To(p, a[1])) /\ To(p, a[1])[a[2]] = t
         /\ In(p, t) # {} <=> \E n \in Ids(p) : t \in Check!ToSet(To(p, n))
<1> DEFINE Slots(n) == {i \in DOMAIN To(p, n) : To(p, n)[i] = t}
           f == [n \in Ids(p) |-> {n} \X Slots(n)]
           T == {{n} \X Slots(n) : n \in Ids(p)}
<1>1. IsFiniteSet(Ids(p)) /\ \A n \in Ids(p) : To(p, n) \in Seq(Nodes)
  BY PlanIs
<1>2. \A n \in Ids(p) : DOMAIN To(p, n) = 1..Len(To(p, n)) /\ Len(To(p, n)) \in Nat
  BY <1>1
<1>3. ASSUME NEW n \in Ids(p) PROVE IsFiniteSet({n} \X Slots(n))
  <2>1. IsFiniteSet(1..Len(To(p, n)))
    BY <1>2, FS_Interval
  <2>2. IsFiniteSet(Slots(n))
    BY <1>2, <2>1, FS_Subset
  <2>3. IsFiniteSet({n})
    BY FS_Singleton
  <2> QED BY <2>2, <2>3, FS_Product
<1>4. IsFiniteSet(T)
  <2>1. f \in Surjection(Ids(p), T)
    BY DEF Surjection
  <2> QED BY <1>1, <2>1, FS_Surjection
<1>5. IsFiniteSet(UNION T)
  BY <1>3, <1>4, FS_UNION
<1>6. In(p, t) = UNION T
  BY DEF In
<1>7. \A a : a \in In(p, t) <=> /\ a = <<a[1], a[2]>> /\ a[1] \in Ids(p)
                               /\ a[2] \in 1..Len(To(p, a[1])) /\ To(p, a[1])[a[2]] = t
  BY <1>2 DEF In
<1>8. In(p, t) # {} <=> \E n \in Ids(p) : t \in Check!ToSet(To(p, n))
  <2>1. ASSUME In(p, t) # {} PROVE \E n \in Ids(p) : t \in Check!ToSet(To(p, n))
    BY <1>2, <1>7, <2>1 DEF Check!ToSet
  <2>2. ASSUME NEW n \in Ids(p), t \in Check!ToSet(To(p, n)) PROVE In(p, t) # {}
    <3>1. PICK i \in 1..Len(To(p, n)) : To(p, n)[i] = t
      BY <1>2, <2>2 DEF Check!ToSet
    <3>2. <<n, i>> \in In(p, t)
      BY <1>7, <3>1
    <3> QED BY <3>2
  <2> QED BY <2>1, <2>2
<1> QED BY <1>5, <1>6, <1>7, <1>8

Distinct(s) == \A i, j \in DOMAIN s : s[i] = s[j] => i = j

\* The edges into t of nodes that were not emitted; and without the first i of n's.
LeftOf(p, t, o) == {a \in In(p, t) : a[1] \notin Check!ToSet(o)}
LeftAt(p, t, o, n, i) == {a \in LeftOf(p, t, o) : ~(a[1] = n /\ a[2] <= i)}

Sorts(p) == [degree : [Ids(p) -> Int], queue : Seq(Ids(p))]

Stage(p, o, n, i, s) ==
  /\ s \in Sorts(p)
  /\ Distinct(s.queue) /\ Check!ToSet(s.queue) \cap (Check!ToSet(o) \cup {n}) = {}
  /\ \A t \in Ids(p) :
       /\ s.degree[t] = Cardinality(LeftAt(p, t, o, n, i))
       /\ t \in Check!ToSet(s.queue) \cup Check!ToSet(o) \cup {n} <=> s.degree[t] = 0

LEMMA DistinctGrows ==
  ASSUME NEW S, NEW s \in Seq(S), NEW x \in S, Distinct(s), x \notin Check!ToSet(s)
  PROVE  Distinct(Append(s, x))
<1>1. /\ Len(Append(s, x)) = Len(s) + 1 /\ Append(s, x) \in Seq(S)
      /\ Append(s, x)[Len(s) + 1] = x
      /\ \A i \in 1..Len(s) : Append(s, x)[i] = s[i]
  BY OneMoreHeld
<1>2. Len(s) \in Nat /\ DOMAIN s = 1..Len(s) /\ DOMAIN Append(s, x) = 1..(Len(s) + 1)
  BY <1>1
<1>3. \A i \in 1..(Len(s) + 1) : i \in 1..Len(s) \/ i = Len(s) + 1
  BY <1>2
<1>4. \A i \in 1..Len(s) : s[i] # x
  BY <1>2 DEF Check!ToSet
<1> QED BY <1>1, <1>2, <1>3, <1>4 DEF Distinct

LEMMA ReleaseIsSort ==
  ASSUME NEW p, NEW s \in Sorts(p), NEW t
  PROVE  /\ ReleaseOf(p, s, t) \in Sorts(p)
         /\ t \notin Ids(p) => ReleaseOf(p, s, t) = s
         /\ t \in Ids(p) =>
              /\ \A u \in Ids(p) : ReleaseOf(p, s, t).degree[u]
                                     = IF u = t THEN s.degree[t] - 1 ELSE s.degree[u]
              /\ ReleaseOf(p, s, t).queue
                   = IF s.degree[t] - 1 = 0 THEN Append(s.queue, t) ELSE s.queue
<1>1. s.degree \in [Ids(p) -> Int] /\ s.queue \in Seq(Ids(p))
  BY DEF Sorts
<1>2. ASSUME t \in Ids(p)
      PROVE  /\ [s.degree EXCEPT ![t] = s.degree[t] - 1] \in [Ids(p) -> Int]
             /\ Append(s.queue, t) \in Seq(Ids(p))
  BY <1>1, <1>2
<1> QED BY <1>1, <1>2 DEF ReleaseOf, Sorts

LEMMA StageGoesOn ==
  ASSUME NEW p, IsProgram(p), NEW o, NEW n \in Ids(p), n \notin Check!ToSet(o),
         NEW i \in 1..Len(To(p, n)), NEW s, Stage(p, o, n, i - 1, s)
  PROVE  Stage(p, o, n, i, ReleaseOf(p, s, To(p, n)[i]))
<1> DEFINE t == To(p, n)[i]
           r == ReleaseOf(p, s, t)
<1>1. /\ s \in Sorts(p) /\ s.queue \in Seq(Ids(p)) /\ s.degree \in [Ids(p) -> Int]
      /\ Distinct(s.queue) /\ Check!ToSet(s.queue) \cap (Check!ToSet(o) \cup {n}) = {}
      /\ \A u \in Ids(p) :
           /\ s.degree[u] = Cardinality(LeftAt(p, u, o, n, i - 1))
           /\ u \in Check!ToSet(s.queue) \cup Check!ToSet(o) \cup {n} <=> s.degree[u] = 0
  BY DEF Stage, Sorts
<1>2. i \in Nat /\ Len(To(p, n)) \in Nat
  BY PlanIs
<1>3. ASSUME NEW u \in Ids(p), NEW a \in LeftOf(p, u, o)
      PROVE  a \in LeftAt(p, u, o, n, i) <=> a \in LeftAt(p, u, o, n, i - 1) /\ a # <<n, i>>
  <2>1. a = <<a[1], a[2]>> /\ a[2] \in 1..Len(To(p, a[1])) /\ a[1] \in Ids(p)
    BY InIs DEF LeftOf
  <2>2. a[2] \in Int
    <3>1. Len(To(p, a[1])) \in Nat
      BY <2>1, PlanIs
    <3> QED BY <2>1, <3>1
  <2>3. a[2] <= i <=> a[2] <= i - 1 \/ a[2] = i
    BY <1>2, <2>2
  <2>4. a = <<n, i>> <=> a[1] = n /\ a[2] = i
    BY <2>1
  <2> QED BY <2>3, <2>4 DEF LeftAt
<1>4. ASSUME NEW u \in Ids(p)
      PROVE  LeftAt(p, u, o, n, i) = LeftAt(p, u, o, n, i - 1) \ {<<n, i>>}
  BY <1>3 DEF LeftAt
<1>5. ASSUME NEW u \in Ids(p), NEW k PROVE IsFiniteSet(LeftAt(p, u, o, n, k))
  <2>1. LeftAt(p, u, o, n, k) \subseteq In(p, u)
    BY DEF LeftAt, LeftOf
  <2> QED BY <2>1, InIs, FS_Subset
<1>6. ASSUME NEW u \in Ids(p)
      PROVE  <<n, i>> \in LeftAt(p, u, o, n, i - 1) <=> u = t
  <2>1. <<n, i>> \in In(p, u) <=> t = u
    BY InIs
  <2> QED BY <1>2, <2>1 DEF LeftAt, LeftOf
<1>7. ASSUME NEW u \in Ids(p), u # t
      PROVE  Cardinality(LeftAt(p, u, o, n, i)) = Cardinality(LeftAt(p, u, o, n, i - 1))
  <2>1. LeftAt(p, u, o, n, i) = LeftAt(p, u, o, n, i - 1)
    BY <1>4, <1>6, <1>7
  <2> QED BY <2>1
<1>8. CASE t \notin Ids(p)
  <2>1. r = s
    BY <1>1, <1>8, ReleaseIsSort
  <2>2. \A u \in Ids(p) : s.degree[u] = Cardinality(LeftAt(p, u, o, n, i))
    BY <1>1, <1>7, <1>8
  <2> QED BY <1>1, <2>1, <2>2 DEF Stage
<1>9. CASE t \in Ids(p)
  <2>1. /\ r \in Sorts(p)
        /\ \A u \in Ids(p) : r.degree[u] = IF u = t THEN s.degree[t] - 1 ELSE s.degree[u]
        /\ r.queue = IF s.degree[t] - 1 = 0 THEN Append(s.queue, t) ELSE s.queue
    BY <1>1, <1>9, ReleaseIsSort
  <2>2. Cardinality(LeftAt(p, t, o, n, i)) = Cardinality(LeftAt(p, t, o, n, i - 1)) - 1
    BY <1>4, <1>5, <1>6, <1>9, FS_RemoveElement
  <2>3. s.degree[t] \in Nat /\ s.degree[t] # 0
    <3>1. LeftAt(p, t, o, n, i - 1) # {}
      BY <1>6, <1>9
    <3> QED BY <1>1, <1>5, <1>9, <3>1, FS_CardinalityType, FS_EmptySet
  <2>4. t \notin Check!ToSet(s.queue) /\ t \notin Check!ToSet(o) /\ t # n
    BY <1>1, <1>9, <2>3
  <2>5. \A u \in Ids(p) : r.degree[u] = Cardinality(LeftAt(p, u, o, n, i))
    BY <1>1, <1>7, <2>1, <2>2
  <2>6. CASE s.degree[t] - 1 = 0
    <3>1. r.queue = Append(s.queue, t)
      BY <2>1, <2>6
    <3>2. Distinct(r.queue) /\ Check!ToSet(r.queue) = Check!ToSet(s.queue) \cup {t}
      BY <1>1, <1>9, <2>4, <3>1, DistinctGrows, OneMoreHeld
    <3>3. Check!ToSet(r.queue) \cap (Check!ToSet(o) \cup {n}) = {}
      BY <1>1, <2>4, <3>2
    <3>4. \A u \in Ids(p) :
            u \in Check!ToSet(r.queue) \cup Check!ToSet(o) \cup {n} <=> r.degree[u] = 0
      BY <1>1, <2>1, <2>6, <3>2
    <3> QED BY <2>1, <2>5, <3>2, <3>3, <3>4 DEF Stage
  <2>7. CASE s.degree[t] - 1 # 0
    <3>1. r.queue = s.queue
      BY <2>1, <2>7
    <3>2. \A u \in Ids(p) :
            u \in Check!ToSet(r.queue) \cup Check!ToSet(o) \cup {n} <=> r.degree[u] = 0
      BY <1>1, <2>1, <2>3, <2>7, <3>1
    <3> QED BY <1>1, <2>1, <2>5, <3>1, <3>2 DEF Stage
  <2> QED BY <2>6, <2>7
<1> QED BY <1>8, <1>9

\* All the edges of n are released one after another.
LEMMA ReleasedIs ==
  ASSUME NEW p, NEW ts \in Seq(Nodes), NEW b \in Sorts(p)
  PROVE  \E g : /\ g[0] = b /\ g[Len(ts)] = ReleasedOf(p, ts, b)
                /\ \A i \in 1..Len(ts) : g[i] = ReleaseOf(p, g[i - 1], ts[i])
<1> DEFINE S == Sorts(p)
           n == Len(ts)
           f == [i \in 1..n |-> [s \in S |-> ReleaseOf(p, s, ts[i])]]
<1>1. n \in Nat /\ \A s \in S : \A t : ReleaseOf(p, s, t) \in S
  BY ReleaseIsSort
<1>2. f \in [1..n -> [S -> S]]
  BY <1>1
<1>3. PICK h : Listed(S, n, b, f, h)
  <2> HIDE DEF f, S, n
  <2>1. b \in S
    BY DEF S
  <2> QED BY <1>1, <1>2, <2>1, RecursionIs
<1>4. Releasing(p, ts, b, h)
  <2>1. \A i \in 1..n : i \in 0..n /\ i - 1 \in 0..n
    BY <1>1
  <2>2. /\ h \in [0..n -> S] /\ h[0] = b
        /\ \A i \in 1..n : h[i] = f[i][h[i - 1]]
    BY <1>3 DEF Listed
  <2>3. \A i \in 1..n : h[i] = ReleaseOf(p, h[i - 1], ts[i])
    BY <2>1, <2>2
  <2>4. \A i \in 0..n : i = 0 \/ i \in 1..n
    BY <1>1
  <2>5. \A i \in 0..n : h[i] = IF i = 0 THEN b ELSE ReleaseOf(p, h[i - 1], ts[i])
    BY <2>2, <2>3, <2>4
  <2>6. h = [i \in 0..n |-> h[i]]
    BY <2>2
  <2> HIDE DEF f, S
  <2> QED BY <2>5, <2>6 DEF Releasing
<1> DEFINE g == CHOOSE k : Releasing(p, ts, b, k)
<1>5. Releasing(p, ts, b, g)
  BY <1>4
<1>6. ReleasedOf(p, ts, b) = g[n]
  BY DEF ReleasedOf
<1> HIDE DEF g, f
<1>7. \A i \in 0..n : g[i] = IF i = 0 THEN b ELSE ReleaseOf(p, g[i - 1], ts[i])
  BY <1>5 DEF Releasing
<1>8. 0 \in 0..n /\ \A i \in 1..n : i \in 0..n /\ i # 0
  BY <1>1
<1>9. g[0] = b /\ \A i \in 1..n : g[i] = ReleaseOf(p, g[i - 1], ts[i])
  BY <1>7, <1>8
<1> QED BY <1>6, <1>9

LEMMA AllReleased ==
  ASSUME NEW p, IsProgram(p), NEW o, NEW n \in Ids(p), n \notin Check!ToSet(o),
         NEW b, Stage(p, o, n, 0, b)
  PROVE  Stage(p, o, n, Len(To(p, n)), ReleasedOf(p, To(p, n), b))
<1> DEFINE ts == To(p, n)
           e == Len(ts)
<1>1. ts \in Seq(Nodes) /\ e \in Nat /\ b \in Sorts(p)
  BY PlanIs DEF Stage
<1>2. PICK g : /\ g[0] = b /\ g[e] = ReleasedOf(p, ts, b)
               /\ \A i \in 1..e : g[i] = ReleaseOf(p, g[i - 1], ts[i])
  BY <1>1, ReleasedIs
<1> DEFINE T == {i \in 0..e : ~Stage(p, o, n, i, g[i])}
<1>3. T = {}
  <2> SUFFICES ASSUME T # {} PROVE FALSE
    OBVIOUS
  <2>1. PICK k \in T : \A m \in T : k <= m
    <3>1. T \subseteq Nat
      BY <1>1
    <3> HIDE DEF T
    <3> QED BY <3>1, LeastNumber
  <2>2. k # 0
    BY <1>2
  <2>3. k \in 1..e /\ k - 1 \in 0..e /\ ~(k <= k - 1)
    BY <1>1, <2>2
  <2>4. Stage(p, o, n, k - 1, g[k - 1])
    BY <2>1, <2>3
  <2>5. Stage(p, o, n, k, ReleaseOf(p, g[k - 1], ts[k]))
    BY <2>3, <2>4, StageGoesOn
  <2> QED BY <1>2, <2>1, <2>3, <2>5
<1>4. e \notin T
  BY <1>3
<1> QED BY <1>1, <1>2, <1>4

SortInv(p, d, q, o) ==
  /\ d \in [Ids(p) -> Nat] /\ q \in Seq(Ids(p)) /\ o \in Seq(Ids(p))
  /\ Distinct(q) /\ Distinct(o) /\ Check!ToSet(q) \cap Check!ToSet(o) = {}
  /\ Cardinality(Check!ToSet(o)) = Len(o) /\ IsFiniteSet(Check!ToSet(o))
  /\ \A t \in Ids(p) :
       /\ d[t] = Cardinality(LeftOf(p, t, o))
       /\ t \in Check!ToSet(q) \cup Check!ToSet(o) <=> d[t] = 0
  /\ \A i \in DOMAIN o : \A n \in Ids(p) :
       o[i] \in LeadsTo(p, n) => \E j \in 1..(i - 1) : o[j] = n

\* The last of a list and the rest.
LEMMA LastIs ==
  ASSUME NEW S, NEW s \in Seq(S), s # << >>
  PROVE  /\ Check!Last(s) \in S /\ Check!Front(s) \in Seq(S)
         /\ Check!ToSet(s) = Check!ToSet(Check!Front(s)) \cup {Check!Last(s)}
         /\ Distinct(s) => /\ Distinct(Check!Front(s))
                           /\ Check!Last(s) \notin Check!ToSet(Check!Front(s))
<1> DEFINE n == Len(s)
<1>1. n \in Nat /\ n # 0 /\ DOMAIN s = 1..n
  BY EmptySeq
<1>2. n - 1 \in Nat /\ n \in 1..n /\ \A i \in 1..n : s[i] \in S
  BY <1>1
<1> DEFINE r == SubSeq(s, 1, n - 1)
<1>3. /\ r \in Seq(S) /\ Len(r) = n - 1 /\ DOMAIN r = 1..(n - 1)
      /\ \A i \in 1..(n - 1) : r[i] = s[i]
  <2>1. \A i \in 1..(n - 1) : s[i] \in S
    BY <1>2
  <2>2. /\ r \in Seq(S) /\ Len(r) = (IF 1 <= n - 1 THEN n - 1 - 1 + 1 ELSE 0)
        /\ \A i \in 1..(n - 1 - 1 + 1) : r[i] = s[1 + i - 1]
    BY <1>2, <2>1, SubSeqProperties
  <2>3. Len(r) = n - 1
    <3> HIDE DEF r, n
    <3>1. n \in Nat /\ n # 0
      BY <1>1
    <3> QED BY <2>2, <3>1
  <2>4. \A i \in 1..(n - 1) : i \in 1..(n - 1 - 1 + 1) /\ 1 + i - 1 = i
    BY <1>2
  <2> QED BY <2>2, <2>3, <2>4
<1>4. \A i \in 1..n : i \in 1..(n - 1) \/ i = n
  BY <1>2
<1>5. \A i \in 1..(n - 1) : i \in 1..n /\ i # n
  BY <1>2
<1>6. Check!ToSet(s) = Check!ToSet(r) \cup {s[n]}
  BY <1>1, <1>2, <1>3, <1>4, <1>5 DEF Check!ToSet
<1>7. ASSUME Distinct(s) PROVE Distinct(r) /\ s[n] \notin Check!ToSet(r)
  BY <1>1, <1>2, <1>3, <1>5, <1>7 DEF Distinct, Check!ToSet
<1> HIDE DEF r
<1>8. Check!Last(s) = s[n] /\ Check!Front(s) = r
  BY DEF Check!Last, Check!Front, r
<1> QED BY <1>2, <1>3, <1>6, <1>7, <1>8

LEMMA EmitKeeps ==
  ASSUME NEW p, IsProgram(p), NEW d, NEW q, NEW o, SortInv(p, d, q, o), q # << >>
  PROVE  LET n == Check!Last(q)
             s == ReleasedOf(p, To(p, n), [degree |-> d, queue |-> Check!Front(q)])
         IN SortInv(p, s.degree, s.queue, Append(o, n))
<1> DEFINE n == Check!Last(q)
           b == [degree |-> d, queue |-> Check!Front(q)]
           e == Len(To(p, n))
           s == ReleasedOf(p, To(p, n), b)
           w == Append(o, n)
<1>1. /\ d \in [Ids(p) -> Nat] /\ q \in Seq(Ids(p)) /\ o \in Seq(Ids(p))
      /\ Distinct(q) /\ Distinct(o) /\ Check!ToSet(q) \cap Check!ToSet(o) = {}
      /\ Cardinality(Check!ToSet(o)) = Len(o) /\ IsFiniteSet(Check!ToSet(o))
      /\ \A t \in Ids(p) :
           /\ d[t] = Cardinality(LeftOf(p, t, o))
           /\ t \in Check!ToSet(q) \cup Check!ToSet(o) <=> d[t] = 0
      /\ \A i \in DOMAIN o : \A m \in Ids(p) :
           o[i] \in LeadsTo(p, m) => \E j \in 1..(i - 1) : o[j] = m
  BY DEF SortInv
<1>2. /\ n \in Ids(p) /\ Check!Front(q) \in Seq(Ids(p))
      /\ Check!ToSet(q) = Check!ToSet(Check!Front(q)) \cup {n}
      /\ Distinct(Check!Front(q)) /\ n \notin Check!ToSet(Check!Front(q))
  BY <1>1, LastIs
<1>3. To(p, n) \in Seq(Nodes) /\ e \in Nat
  BY <1>2, PlanIs
<1>4. n \notin Check!ToSet(o)
  BY <1>1, <1>2
<1>5. ASSUME NEW t \in Ids(p), NEW a \in In(p, t)
      PROVE  /\ ~(a[1] = n /\ a[2] <= 0)
             /\ a[1] = n => a[2] <= e
  BY <1>3, InIs
<1>6. Stage(p, o, n, 0, b)
  <2>1. \A t \in Ids(p) : LeftAt(p, t, o, n, 0) = LeftOf(p, t, o)
    BY <1>5 DEF LeftAt, LeftOf
  <2>2. b \in Sorts(p) /\ b.degree = d /\ b.queue = Check!Front(q)
    BY <1>1, <1>2 DEF Sorts
  <2>3. Check!ToSet(Check!Front(q)) \cap (Check!ToSet(o) \cup {n}) = {}
    BY <1>1, <1>2
  <2> HIDE DEF b, n
  <2> QED BY <1>1, <1>2, <2>1, <2>2, <2>3 DEF Stage
<1>7. Stage(p, o, n, e, s)
  BY <1>2, <1>4, <1>6, AllReleased
<1> HIDE DEF n, b, s
<1>8. /\ w \in Seq(Ids(p)) /\ Len(w) = Len(o) + 1 /\ w[Len(o) + 1] = n
      /\ \A i \in 1..Len(o) : w[i] = o[i]
      /\ Check!ToSet(w) = Check!ToSet(o) \cup {n} /\ Distinct(w)
  BY <1>1, <1>2, <1>4, OneMoreHeld, DistinctGrows
<1> HIDE DEF w
<1>9. \A t \in Ids(p) : LeftAt(p, t, o, n, e) = LeftOf(p, t, w)
  <2>1. \A t \in Ids(p) : \A a \in In(p, t) :
          a \in LeftAt(p, t, o, n, e) <=> a \in LeftOf(p, t, w)
    BY <1>5, <1>8 DEF LeftAt, LeftOf
  <2> QED BY <2>1 DEF LeftAt, LeftOf
<1>10. /\ s \in Sorts(p) /\ Distinct(s.queue)
       /\ Check!ToSet(s.queue) \cap Check!ToSet(w) = {}
       /\ \A t \in Ids(p) :
            /\ s.degree[t] = Cardinality(LeftOf(p, t, w))
            /\ t \in Check!ToSet(s.queue) \cup Check!ToSet(w) <=> s.degree[t] = 0
  BY <1>7, <1>8, <1>9 DEF Stage
<1>11. ASSUME NEW t \in Ids(p), NEW v PROVE IsFiniteSet(LeftOf(p, t, v))
  <2>1. LeftOf(p, t, v) \subseteq In(p, t)
    BY DEF LeftOf
  <2> QED BY <2>1, InIs, FS_Subset
<1>12. s.degree \in [Ids(p) -> Nat] /\ s.queue \in Seq(Ids(p))
  <2>1. \A t \in Ids(p) : s.degree[t] \in Nat
    BY <1>10, <1>11, FS_CardinalityType
  <2>2. s.degree \in [Ids(p) -> Int] /\ s.queue \in Seq(Ids(p))
    BY <1>10 DEF Sorts
  <2> QED BY <2>1, <2>2
<1>13. Cardinality(Check!ToSet(w)) = Len(w) /\ IsFiniteSet(Check!ToSet(w))
  <2>1. /\ IsFiniteSet(Check!ToSet(o) \cup {n})
        /\ Cardinality(Check!ToSet(o) \cup {n}) = Cardinality(Check!ToSet(o)) + 1
    BY <1>1, <1>4, FS_AddElement
  <2> QED BY <1>1, <1>8, <2>1
<1>14. ASSUME NEW i \in DOMAIN w, NEW m \in Ids(p), w[i] \in LeadsTo(p, m)
       PROVE  \E j \in 1..(i - 1) : w[j] = m
  <2>1. Len(o) \in Nat /\ DOMAIN w = 1..(Len(o) + 1) /\ DOMAIN o = 1..Len(o)
    BY <1>1, <1>8
  <2>2. CASE i \in 1..Len(o)
    <3>1. PICK j \in 1..(i - 1) : o[j] = m
      BY <1>1, <1>8, <1>14, <2>1, <2>2
    <3>2. j \in 1..Len(o)
      BY <2>1, <2>2
    <3> QED BY <1>8, <3>1, <3>2
  <2>3. CASE i = Len(o) + 1
    <3>1. n \in Check!ToSet(To(p, m))
      BY <1>8, <1>14, <2>3 DEF LeadsTo
    <3>2. LeftOf(p, n, o) = {}
      <4>1. d[n] = 0
        BY <1>1, <1>2
      <4> QED BY <1>1, <1>2, <1>11, <4>1, FS_EmptySet
    <3>3. m \in Check!ToSet(o)
      <4>1. PICK k \in DOMAIN To(p, m) : To(p, m)[k] = n
        BY <3>1 DEF Check!ToSet
      <4>2. <<m, k>> \in In(p, n)
        BY <4>1 DEF In
      <4> QED BY <3>2, <4>2 DEF LeftOf
    <3>4. PICK j \in 1..Len(o) : o[j] = m
      BY <2>1, <3>3 DEF Check!ToSet
    <3> QED BY <1>8, <2>1, <2>3, <3>4
  <2> QED BY <2>1, <2>2, <2>3
<1> QED BY <1>8, <1>10, <1>12, <1>13, <1>14 DEF SortInv, n, b, s, w

\* Once everything is sorted, what follows comes later.
LEMMA FollowsLater ==
  ASSUME NEW p, IsProgram(p), NEW d, NEW q, NEW o, SortInv(p, d, q, o),
         Len(o) = Cardinality(Ids(p))
  PROVE  /\ Check!ToSet(o) = Ids(p)
         /\ \A i \in DOMAIN o : Follow(p, o[i]) \subseteq {o[j] : j \in (i + 1)..Len(o)}
<1>1. /\ o \in Seq(Ids(p)) /\ Distinct(o) /\ Cardinality(Check!ToSet(o)) = Len(o)
      /\ \A i \in DOMAIN o : \A n \in Ids(p) :
           o[i] \in LeadsTo(p, n) => \E j \in 1..(i - 1) : o[j] = n
  BY DEF SortInv
<1>2. Len(o) \in Nat /\ DOMAIN o = 1..Len(o) /\ IsFiniteSet(Ids(p))
  BY <1>1, PlanIs
<1>3. Check!ToSet(o) = Ids(p)
  <2>1. Check!ToSet(o) \subseteq Ids(p)
    BY <1>1, <1>2 DEF Check!ToSet
  <2> QED BY <1>1, <1>2, <2>1, FS_Subset
<1>4. ASSUME NEW i \in DOMAIN o
      PROVE  Follow(p, o[i]) \subseteq {o[j] : j \in (i + 1)..Len(o)}
  <2> DEFINE C == {o[j] : j \in (i + 1)..Len(o)}
  <2>1. C \subseteq Ids(p)
    BY <1>1, <1>2
  <2>2. ASSUME NEW s \in C \cup {o[i]}, NEW m \in LeadsTo(p, s) PROVE m \in C
    <3>1. PICK l \in i..Len(o) : o[l] = s
      BY <1>2
    <3>2. PICK k \in 1..Len(o) : o[k] = m
      BY <1>2, <1>3 DEF LeadsTo, Check!ToSet
    <3>3. s \in Ids(p)
      BY <1>1, <1>2, <2>1
    <3>4. PICK j \in 1..(k - 1) : o[j] = s
      BY <1>1, <1>2, <3>2, <3>3
    <3>5. j = l
      <4>1. j \in DOMAIN o /\ l \in DOMAIN o
        BY <1>2, <3>1, <3>2, <3>4
      <4> QED BY <1>1, <3>1, <3>4, <4>1 DEF Distinct
    <3>6. k \in (i + 1)..Len(o)
      BY <1>2, <3>1, <3>2, <3>4, <3>5
    <3> QED BY <3>2, <3>6
  <2> HIDE DEF C
  <2>3. Follow(p, o[i]) \subseteq C
    BY <2>1, <2>2, FollowIsLeast
  <2> QED BY <2>3 DEF C
<1> QED BY <1>3, <1>4

LEMMA SortedIsAcyclic ==
  ASSUME NEW p, IsProgram(p), NEW d, NEW q, NEW o, SortInv(p, d, q, o),
         Len(o) = Cardinality(Ids(p)), NEW n \in Ids(p)
  PROVE  n \notin Follow(p, n)
<1>1. o \in Seq(Ids(p)) /\ Distinct(o)
  BY DEF SortInv
<1>2. Len(o) \in Nat /\ DOMAIN o = 1..Len(o)
  BY <1>1
<1>3. PICK i \in DOMAIN o : o[i] = n
  BY FollowsLater DEF Check!ToSet
<1>4. Follow(p, n) \subseteq {o[j] : j \in (i + 1)..Len(o)}
  BY <1>3, FollowsLater
<1>5. \A j \in (i + 1)..Len(o) : o[j] # n
  BY <1>1, <1>2, <1>3 DEF Distinct
<1> QED BY <1>4, <1>5

\* What the sort leaves over has something that follows from itself.
LEMMA LeftoverCycles ==
  ASSUME NEW p, IsProgram(p), NEW d, NEW o, SortInv(p, d, << >>, o),
         Len(o) # Cardinality(Ids(p))
  PROVE  \E n \in Ids(p) : n \in Follow(p, n)
<1> DEFINE U == Ids(p) \ Check!ToSet(o)
           P(x) == {y \in U : x \in Follow(p, y)}
<1> SUFFICES ASSUME \A n \in U : n \notin Follow(p, n) PROVE FALSE
  OBVIOUS
<1>1. /\ o \in Seq(Ids(p)) /\ Cardinality(Check!ToSet(o)) = Len(o) /\ IsFiniteSet(Ids(p))
      /\ \A t \in Ids(p) :
           /\ d[t] = Cardinality(LeftOf(p, t, o))
           /\ t \in Check!ToSet(<< >>) \cup Check!ToSet(o) <=> d[t] = 0
  BY PlanIs DEF SortInv
<1>2. Check!ToSet(<< >>) = {}
  BY DEF Check!ToSet
<1>3. U # {}
  <2>1. Check!ToSet(o) \subseteq Ids(p)
    BY <1>1 DEF Check!ToSet
  <2>2. Check!ToSet(o) # Ids(p)
    BY <1>1
  <2> QED BY <2>1, <2>2
<1>4. ASSUME NEW x \in U PROVE \E y \in U : x \in LeadsTo(p, y)
  <2>1. d[x] # 0
    BY <1>1, <1>2
  <2>2. LeftOf(p, x, o) # {}
    BY <1>1, <2>1, FS_EmptySet
  <2>3. PICK a \in LeftOf(p, x, o) : TRUE
    BY <2>2
  <2>4. a[1] \in U /\ a[2] \in 1..Len(To(p, a[1])) /\ To(p, a[1])[a[2]] = x
    BY InIs DEF LeftOf
  <2>5. To(p, a[1]) \in Seq(Nodes)
    BY <2>4, PlanIs
  <2>6. x \in LeadsTo(p, a[1])
    BY <2>4, <2>5 DEF LeadsTo, Check!ToSet
  <2> QED BY <2>4, <2>6
<1>5. ASSUME NEW x \in U PROVE IsFiniteSet(P(x)) /\ Cardinality(P(x)) \in Nat
  <2>1. P(x) \subseteq Ids(p)
    OBVIOUS
  <2>2. IsFiniteSet(P(x))
    BY <1>1, <2>1, FS_Subset
  <2> QED BY <2>2, FS_CardinalityType
<1> DEFINE T == {Cardinality(P(x)) : x \in U}
<1>6. PICK c \in T : \A e \in T : c <= e
  <2>1. T \subseteq Nat
    BY <1>5
  <2>2. T # {}
    BY <1>3
  <2> HIDE DEF T
  <2> QED BY <2>1, <2>2, LeastNumber
<1>7. PICK x \in U : c = Cardinality(P(x))
  OBVIOUS
<1>8. PICK y \in U : x \in LeadsTo(p, y)
  BY <1>4
<1>9. x \in Follow(p, y)
  BY <1>8, FollowIsClosed
<1>10. P(y) \subseteq P(x)
  <2> SUFFICES ASSUME NEW z \in U, y \in Follow(p, z) PROVE x \in Follow(p, z)
    OBVIOUS
  <2> QED BY <1>9, FollowGoesOn
<1>11. y \in P(x) /\ y \notin P(y)
  BY <1>9
<1>12. Cardinality(P(y)) <= Cardinality(P(x)) /\ Cardinality(P(x)) # Cardinality(P(y))
  <2>1. IsFiniteSet(P(x)) /\ P(x) # P(y)
    BY <1>5, <1>11
  <2> HIDE DEF P
  <2> QED BY <1>10, <2>1, FS_Subset
<1>13. c <= Cardinality(P(y))
  BY <1>6
<1> HIDE DEF P, T
<1> QED BY <1>5, <1>7, <1>12, <1>13
-----------------------------------------------------------------------------
(* The search.                                                              *)

SearchInv(p, r, f) ==
  /\ r \subseteq Ids(p) /\ f \in Seq(Ids(p))
  /\ p.entry \in Ids(p) => p.entry \in r \cup Check!ToSet(f)
  /\ r \cup Check!ToSet(f) \subseteq {p.entry} \cup Follow(p, p.entry)
  /\ \A s \in r : LeadsTo(p, s) \subseteq r \cup Check!ToSet(f)

LEMMA SearchStarts ==
  ASSUME NEW p
  PROVE  SearchInv(p, {}, IF p.entry \in Ids(p) THEN <<p.entry>> ELSE << >>)
<1>1. Check!ToSet(<<p.entry>>) = {p.entry} /\ Check!ToSet(<< >>) = {}
  BY DEF Check!ToSet
<1> QED BY <1>1 DEF SearchInv

LEMMA VisitKeeps ==
  ASSUME NEW p, IsProgram(p), NEW r, NEW f, SearchInv(p, r, f), f # << >>
  PROVE  LET n == Check!Last(f)
         IN SearchInv(p, r \cup {n}, IF n \in r THEN Check!Front(f)
                                                ELSE Check!Front(f) \o Kept(p, To(p, n)))
<1> DEFINE n == Check!Last(f)
           l == Check!Front(f)
           k == Kept(p, To(p, n))
<1>1. /\ r \subseteq Ids(p) /\ f \in Seq(Ids(p))
      /\ p.entry \in Ids(p) => p.entry \in r \cup Check!ToSet(f)
      /\ r \cup Check!ToSet(f) \subseteq {p.entry} \cup Follow(p, p.entry)
      /\ \A s \in r : LeadsTo(p, s) \subseteq r \cup Check!ToSet(f)
  BY DEF SearchInv
<1>2. n \in Ids(p) /\ l \in Seq(Ids(p)) /\ Check!ToSet(f) = Check!ToSet(l) \cup {n}
  BY <1>1, LastIs
<1>3. k \in Seq(Ids(p)) /\ Check!ToSet(k) = LeadsTo(p, n)
  <2>1. To(p, n) \in Seq(Nodes)
    BY <1>2, PlanIs
  <2> QED BY <2>1, EdgesAre DEF LeadsTo
<1>4. l \o k \in Seq(Ids(p)) /\ Check!ToSet(l \o k) = Check!ToSet(l) \cup Check!ToSet(k)
  <2>1. Ids(p) \subseteq Nodes
    BY PlanIs
  <2>2. l \in Seq(Nodes) /\ k \in Seq(Nodes)
    BY <1>2, <1>3, <2>1, SeqMonotonic
  <2>3. Check!ToSet(l \o k) = Check!ToSet(l) \cup Check!ToSet(k)
    BY <2>2, Joined
  <2>4. l \o k \in Seq(Ids(p))
    BY <1>2, <1>3, ConcatProperties
  <2> QED BY <2>3, <2>4
<1>5. LeadsTo(p, n) \subseteq Follow(p, p.entry)
  BY <1>1, <1>2, FollowIsClosed
<1> HIDE DEF n, l, k
<1>6. CASE n \in r
  <2>1. SearchInv(p, r \cup {n}, l)
    BY <1>1, <1>2, <1>6 DEF SearchInv
  <2> QED BY <1>6, <2>1 DEF n, l
<1>7. CASE n \notin r
  <2>1. SearchInv(p, r \cup {n}, l \o k)
    BY <1>1, <1>2, <1>3, <1>4, <1>5 DEF SearchInv
  <2> QED BY <1>7, <2>1 DEF n, l, k
<1> QED BY <1>6, <1>7

LEMMA SearchEnds ==
  ASSUME NEW p, NEW r, SearchInv(p, r, << >>), p.entry \in Ids(p)
  PROVE  r = {p.entry} \cup Follow(p, p.entry)
<1>1. Check!ToSet(<< >>) = {}
  BY DEF Check!ToSet
<1>2. /\ r \subseteq Ids(p) /\ p.entry \in r /\ r \subseteq {p.entry} \cup Follow(p, p.entry)
      /\ \A s \in r : LeadsTo(p, s) \subseteq r
  BY <1>1 DEF SearchInv
<1>3. Follow(p, p.entry) \subseteq r
  BY <1>2, FollowIsLeast
<1> QED BY <1>2, <1>3
-----------------------------------------------------------------------------
(* One order for a plan that is admitted.                                   *)

Roots(p) == {n \in Ids(p) : In(p, n) = {}}

\* The sort of a plan whose one root is its entry.
StartOf(p) == [degree |-> [n \in Ids(p) |-> Cardinality(In(p, n))],
               queue  |-> <<p.entry>>, order |-> << >>]

EmitOf(p, st) ==
  LET n == Check!Last(st.queue)
      s == ReleasedOf(p, To(p, n), [degree |-> st.degree, queue |-> Check!Front(st.queue)])
  IN [degree |-> s.degree, queue |-> s.queue, order |-> Append(st.order, n)]

SortRun(p, k, r) == r[0] = StartOf(p) /\ \A i \in 1..k : r[i] = EmitOf(p, r[i - 1])

Replayed(p, d, q, o) ==
  Roots(p) = {p.entry} =>
    \E r : SortRun(p, Len(o), r) /\ r[Len(o)] = [degree |-> d, queue |-> q, order |-> o]

LEMMA SameCount == \A S : Check!Cardinality(S) = Cardinality(S)
BY DEF Check!Cardinality, Cardinality

LEMMA SeqsOfSet ==
  ASSUME NEW R, IsFiniteSet(R), NEW q \in Check!SetToSeqs(R)
  PROVE  q \in Seq(R) /\ Distinct(q) /\ Check!ToSet(q) = R
<1> DEFINE c == Cardinality(R)
<1>1. c \in Nat
  BY FS_CardinalityType
<1>2. q \in [1..c -> R] /\ \A i, j \in 1..c : i # j => q[i] # q[j]
  BY SameCount DEF Check!SetToSeqs
<1>3. q \in Seq(R)
  BY <1>1, <1>2
<1>4. Distinct(q)
  <2>1. DOMAIN q = 1..c
    BY <1>2
  <2> QED BY <1>2, <2>1 DEF Distinct
<1>5. q \in Injection(1..c, R)
  BY <1>2 DEF Injection, IsInjective
<1>6. Cardinality(1..c) = c
  BY <1>1, FS_Interval
<1>7. q \in Surjection(1..c, R)
  BY <1>5, <1>6, FS_Injection
<1>8. Check!ToSet(q) = R
  BY <1>2, <1>7 DEF Surjection, Check!ToSet
<1> QED BY <1>3, <1>4, <1>8

LEMMA SortStarts ==
  ASSUME NEW p, IsProgram(p), NEW d, d = [n \in Ids(p) |-> Cardinality(In(p, n))],
         NEW q \in Check!SetToSeqs({n \in Ids(p) : d[n] = 0})
  PROVE  SortInv(p, d, q, << >>) /\ Replayed(p, d, q, << >>)
<1>1. /\ IsFiniteSet(Ids(p))
      /\ \A n \in Ids(p) : d[n] = Cardinality(In(p, n)) /\ IsFiniteSet(In(p, n))
  BY PlanIs, InIs
<1>2. d \in [Ids(p) -> Nat]
  BY <1>1, FS_CardinalityType
<1> DEFINE R == {n \in Ids(p) : d[n] = 0}
<1>3. IsFiniteSet(R)
  BY <1>1, FS_Subset
<1>4. q \in Seq(R) /\ Distinct(q) /\ Check!ToSet(q) = R
  <2> HIDE DEF R
  <2>1. q \in Check!SetToSeqs(R)
    BY DEF R
  <2> QED BY <1>3, <2>1, SeqsOfSet
<1>5. q \in Seq(Ids(p))
  BY <1>4, SeqMonotonic
<1>6. /\ Check!ToSet(<< >>) = {} /\ << >> \in Seq(Ids(p)) /\ Len(<< >>) = 0
      /\ DOMAIN << >> = {} /\ Cardinality({}) = 0 /\ IsFiniteSet({})
  BY FS_EmptySet DEF Check!ToSet
<1>7. \A t \in Ids(p) : LeftOf(p, t, << >>) = In(p, t)
  BY <1>6 DEF LeftOf
<1>8. SortInv(p, d, q, << >>)
  <2>1. \A t \in Ids(p) : /\ d[t] = Cardinality(LeftOf(p, t, << >>))
                          /\ t \in Check!ToSet(q) \cup Check!ToSet(<< >>) <=> d[t] = 0
    BY <1>1, <1>4, <1>6, <1>7
  <2>2. Distinct(<< >>)
    BY <1>6 DEF Distinct
  <2> HIDE DEF R
  <2> QED BY <1>2, <1>4, <1>5, <1>6, <2>1, <2>2 DEF SortInv
<1>9. ASSUME Roots(p) = {p.entry} PROVE q = <<p.entry>>
  <2>1. R = {p.entry}
    <3>1. R = Roots(p)
      BY <1>1, FS_EmptySet DEF Roots
    <3> QED BY <1>9, <3>1
  <2>2. Cardinality({p.entry}) = 1
    BY FS_Singleton
  <2>3. q \in [1..1 -> {p.entry}]
    BY <2>1, <2>2, SameCount DEF Check!SetToSeqs
  <2> QED BY <2>3
<1>10. ASSUME Roots(p) = {p.entry}
       PROVE  \E r : SortRun(p, 0, r) /\ r[0] = [degree |-> d, queue |-> q, order |-> << >>]
  <2> DEFINE r == [i \in {0} |-> StartOf(p)]
  <2>1. SortRun(p, 0, r)
    BY DEF SortRun
  <2>2. r[0] = [degree |-> d, queue |-> q, order |-> << >>]
    BY <1>9, <1>10 DEF StartOf
  <2> QED BY <2>1, <2>2
<1> QED BY <1>6, <1>8, <1>10 DEF Replayed

LEMMA EmitReplays ==
  ASSUME NEW p, NEW d, NEW q, NEW o, SortInv(p, d, q, o), Replayed(p, d, q, o), q # << >>
  PROVE  LET n == Check!Last(q)
             s == ReleasedOf(p, To(p, n), [degree |-> d, queue |-> Check!Front(q)])
         IN Replayed(p, s.degree, s.queue, Append(o, n))
<1> DEFINE n == Check!Last(q)
           s == ReleasedOf(p, To(p, n), [degree |-> d, queue |-> Check!Front(q)])
           k == Len(o)
<1>1. q \in Seq(Ids(p)) /\ o \in Seq(Ids(p))
  BY DEF SortInv
<1>2. k \in Nat /\ Len(Append(o, n)) = k + 1
  <2>1. n \in Ids(p)
    BY <1>1, LastIs
  <2> HIDE DEF n
  <2> QED BY <1>1, <2>1
<1> SUFFICES ASSUME Roots(p) = {p.entry}
             PROVE  \E u : /\ SortRun(p, k + 1, u)
                           /\ u[k + 1] = [degree |-> s.degree, queue |-> s.queue,
                                          order |-> Append(o, n)]
  BY <1>2 DEF Replayed
<1>3. PICK r : SortRun(p, k, r) /\ r[k] = [degree |-> d, queue |-> q, order |-> o]
  BY DEF Replayed
<1>4. EmitOf(p, r[k]) = [degree |-> s.degree, queue |-> s.queue, order |-> Append(o, n)]
  BY <1>3 DEF EmitOf
<1> DEFINE u == [i \in 0..(k + 1) |-> IF i = k + 1 THEN EmitOf(p, r[k]) ELSE r[i]]
<1> HIDE DEF k, s, n
<1>5. u[0] = StartOf(p)
  BY <1>2, <1>3 DEF SortRun
<1>6. ASSUME NEW i \in 1..(k + 1) PROVE u[i] = EmitOf(p, u[i - 1])
  <2>1. i \in 0..(k + 1) /\ i - 1 \in 0..(k + 1) /\ i - 1 # k + 1
    BY <1>2
  <2>2. u[i - 1] = r[i - 1]
    BY <2>1
  <2>3. CASE i = k + 1
    <3>1. u[i] = EmitOf(p, r[k]) /\ i - 1 = k
      BY <1>2, <2>1, <2>3
    <3> QED BY <2>2, <3>1
  <2>4. CASE i # k + 1
    <3>1. u[i] = r[i] /\ i \in 1..k
      BY <1>2, <2>1, <2>4
    <3> QED BY <1>3, <2>2, <3>1 DEF SortRun
  <2> QED BY <2>3, <2>4
<1>7. u[k + 1] = EmitOf(p, r[k])
  BY <1>2
<1> HIDE DEF u
<1>8. SortRun(p, k + 1, u)
  BY <1>5, <1>6 DEF SortRun
<1> QED BY <1>4, <1>7, <1>8

LEMMA RunsAgree ==
  ASSUME NEW p, NEW k \in Nat, NEW r, NEW u, SortRun(p, k, r), SortRun(p, k, u)
  PROVE  r[k] = u[k]
<1> DEFINE T == {i \in 0..k : r[i] # u[i]}
<1> SUFFICES ASSUME T # {} PROVE FALSE
  OBVIOUS
<1>1. PICK i \in T : \A m \in T : i <= m
  <2>1. T \subseteq Nat
    OBVIOUS
  <2> HIDE DEF T
  <2> QED BY <2>1, LeastNumber
<1>2. i # 0
  BY DEF SortRun
<1>3. i \in 1..k /\ i - 1 \in 0..k /\ ~(i <= i - 1)
  BY <1>2
<1>4. r[i - 1] = u[i - 1]
  BY <1>1, <1>3
<1> QED BY <1>1, <1>3, <1>4 DEF SortRun

IndexOf(o, n) == CHOOSE i \in DOMAIN o : o[i] = n
PointsForward(p, o, n, s) == s \in Ids(p) /\ IndexOf(o, s) >= IndexOf(o, n)

\* What the passes find of p when they end with the order o and have reached r.
Unsound(p) == p.entry \notin Ids(p) \/ \E n \in Ids(p) : ~(Check!ToSet(To(p, n)) \subseteq Ids(p))
Endless(p, r) == r # {} /\ \A n \in r : To(p, n) # << >>
Forwards(p, o) == \E n \in Ids(p) : \E s \in p.nodes[n].uses : PointsForward(p, o, n, s)

Clean(p, o, r) ==
  ~Unsound(p) /\ Len(o) = Cardinality(Ids(p)) /\ Ids(p) \ r = {} /\ ~Endless(p, r)
    /\ ~(Len(o) = Cardinality(Ids(p)) /\ Forwards(p, o))

\* The same of p alone.
Admissible(p) ==
  /\ ~Unsound(p) /\ \A n \in Ids(p) : n \notin Follow(p, n)
  /\ Ids(p) = {p.entry} \cup Follow(p, p.entry) /\ ~Endless(p, Ids(p))
  /\ \E r : SortRun(p, Cardinality(Ids(p)), r) /\ ~Forwards(p, r[Cardinality(Ids(p))].order)

\* A plan that is sorted and reached from its entry starts nowhere else.
LEMMA OneRoot ==
  ASSUME NEW p, IsProgram(p), NEW d, NEW q, NEW o, SortInv(p, d, q, o),
         Len(o) = Cardinality(Ids(p)), p.entry \in Ids(p),
         Ids(p) = {p.entry} \cup Follow(p, p.entry)
  PROVE  Roots(p) = {p.entry}
<1>1. /\ o \in Seq(Ids(p)) /\ Check!ToSet(o) = Ids(p)
      /\ \A i \in DOMAIN o : \A n \in Ids(p) :
           o[i] \in LeadsTo(p, n) => \E j \in 1..(i - 1) : o[j] = n
  <2>1. Check!ToSet(o) = Ids(p)
    BY FollowsLater
  <2> QED BY <2>1 DEF SortInv
<1>2. \A t \in Ids(p) : t \in Roots(p) <=> \A n \in Ids(p) : t \notin LeadsTo(p, n)
  BY InIs DEF Roots, LeadsTo
<1>3. Roots(p) \subseteq {p.entry}
  <2> DEFINE C == {m \in Ids(p) : \E s \in Ids(p) : m \in LeadsTo(p, s)}
  <2>1. \A s \in C \cup {p.entry} : LeadsTo(p, s) \subseteq C
    BY DEF LeadsTo
  <2>2. Follow(p, p.entry) \subseteq C
    <3>1. C \subseteq Ids(p)
      OBVIOUS
    <3> HIDE DEF C
    <3> QED BY <2>1, <3>1, FollowIsLeast
  <2>3. \A t \in Roots(p) : t \notin C
    BY <1>2 DEF Roots
  <2>4. Roots(p) \subseteq Ids(p)
    BY DEF Roots
  <2> QED BY <2>2, <2>3, <2>4
<1>4. Roots(p) # {}
  <2>1. Len(o) \in Nat /\ DOMAIN o = 1..Len(o)
    BY <1>1
  <2>2. PICK i \in DOMAIN o : o[i] = p.entry
    BY <1>1 DEF Check!ToSet
  <2>3. 1 \in DOMAIN o /\ o[1] \in Ids(p) /\ 1..(1 - 1) = {}
    <3>1. i \in 1..Len(o) /\ Len(o) \in Nat
      BY <2>1
    <3>2. 1 \in 1..Len(o)
      BY <3>1
    <3>3. 1 \in DOMAIN o
      BY <2>1, <3>2
    <3> QED BY <1>1, <3>3
  <2>4. \A n \in Ids(p) : o[1] \notin LeadsTo(p, n)
    BY <1>1, <2>3
  <2>5. o[1] \in Roots(p)
    BY <1>2, <2>3, <2>4
  <2> QED BY <2>5
<1> QED BY <1>3, <1>4

LEMMA CleanIsAdmissible ==
  ASSUME NEW p, IsProgram(p), NEW d, NEW o, NEW r, SortInv(p, d, << >>, o),
         Replayed(p, d, << >>, o), SearchInv(p, r, << >>)
  PROVE  Clean(p, o, r) <=> Admissible(p)
<1> DEFINE c == Cardinality(Ids(p))
<1>1. c \in Nat /\ Len(o) \in Nat
  BY PlanIs, FS_CardinalityType DEF SortInv
<1>2. ASSUME Len(o) = c, p.entry \in Ids(p), Ids(p) = {p.entry} \cup Follow(p, p.entry)
      PROVE  \E u : SortRun(p, c, u) /\ o = u[c].order
  <2>1. Roots(p) = {p.entry}
    BY <1>2, OneRoot
  <2>2. PICK u : /\ SortRun(p, Len(o), u)
                 /\ u[Len(o)] = [degree |-> d, queue |-> << >>, order |-> o]
    BY <2>1 DEF Replayed
  <2>3. u[c].order = o
    BY <1>2, <2>2
  <2> HIDE DEF c
  <2> QED BY <1>2, <2>2, <2>3
<1>3. ASSUME Clean(p, o, r) PROVE Admissible(p)
  <2>1. Len(o) = c /\ p.entry \in Ids(p)
    BY <1>3 DEF Clean, Unsound
  <2>2. r = {p.entry} \cup Follow(p, p.entry) /\ r = Ids(p)
    BY <1>3, <2>1, SearchEnds DEF Clean, SearchInv
  <2>3. \A n \in Ids(p) : n \notin Follow(p, n)
    BY <2>1, SortedIsAcyclic
  <2>4. PICK u : SortRun(p, c, u) /\ o = u[c].order
    BY <1>2, <2>1, <2>2
  <2>5. ~Unsound(p) /\ ~Endless(p, Ids(p)) /\ ~Forwards(p, u[c].order)
    BY <1>3, <2>1, <2>2, <2>4 DEF Clean
  <2> QED BY <2>2, <2>3, <2>4, <2>5 DEF Admissible
<1>4. ASSUME Admissible(p) PROVE Clean(p, o, r)
  <2>1. /\ ~Unsound(p) /\ \A n \in Ids(p) : n \notin Follow(p, n)
        /\ Ids(p) = {p.entry} \cup Follow(p, p.entry) /\ ~Endless(p, Ids(p))
    BY <1>4 DEF Admissible
  <2>2. PICK v : SortRun(p, c, v) /\ ~Forwards(p, v[c].order)
    BY <1>4 DEF Admissible
  <2>3. Len(o) = c
    BY <2>1, LeftoverCycles
  <2>4. p.entry \in Ids(p)
    BY <2>1 DEF Unsound
  <2>5. r = Ids(p)
    BY <2>1, <2>4, SearchEnds
  <2>6. PICK u : SortRun(p, c, u) /\ o = u[c].order
    BY <1>2, <2>1, <2>3, <2>4
  <2>7. u[c] = v[c]
    BY <1>1, <2>2, <2>6, RunsAgree
  <2>8. ~Forwards(p, o)
    BY <2>2, <2>6, <2>7
  <2> QED BY <2>1, <2>3, <2>5, <2>8 DEF Clean
<1> QED BY <1>3, <1>4
-----------------------------------------------------------------------------
(* The validator.                                                           *)

\* What has been found when the sort has begun, and when it has ended.
Opened(d) == d = Check!Found("V2_DANGLING_REF", Check!Dangling)
Sifted(d, o) ==
  d = Check!Found("V2_DANGLING_REF", Check!Dangling)
        \cup Check!Found("V3_CYCLE", ~(Len(o) = Cardinality(Ids(program))))

CheckInv ==
  /\ IsProgram(program)
  /\ pc \in {"references", "sort", "search", "done"}
  /\ pc # "references" =>
       SortInv(program, degree, queue, order) /\ Replayed(program, degree, queue, order)
  /\ pc \in {"search", "done"} => queue = << >> /\ SearchInv(program, reachable, frontier)
  /\ pc = "sort" => Opened(diags)
  /\ pc = "search" => Sifted(diags, order)
  /\ pc = "done" => /\ frontier = << >> /\ (diags = {} <=> Admissible(program))
                    /\ "V3_CYCLE" \in diags <=> Len(order) # Cardinality(Ids(program))
  /\ verdicts \in Seq({"OK", "FAIL"})
  /\ \A i \in 1..Len(verdicts) : verdicts[i] = "OK" <=> Admissible(program)

LEMMA DanglingIs == Check!Dangling <=> Unsound(program)
BY DEF Check!Dangling, Unsound, Check!ids, Ids, Check!Successors, To

LEMMA ReferencesKeep ==
  ASSUME CheckInv, Check!CheckReferences PROVE CheckInv'
<1> DEFINE p == program
<1>1. /\ diags' = Check!Found("V2_DANGLING_REF", Check!Dangling)
      /\ degree' = [n \in Ids(p) |-> Cardinality(Check!Incoming(n))]
      /\ queue' \in Check!SetToSeqs({n \in Ids(p) : degree'[n] = 0})
      /\ order' = << >> /\ pc' = "sort" /\ program' = program /\ verdicts' = verdicts
  BY SameCount DEF Check!CheckReferences, Check!ids, Ids
<1>2. degree' = [n \in Ids(p) |-> Cardinality(In(p, n))]
  BY <1>1, IncomingIs
<1>3. SortInv(p, degree', queue', order') /\ Replayed(p, degree', queue', order')
  <2>1. IsProgram(p)
    BY DEF CheckInv
  <2> HIDE DEF p
  <2> QED BY <1>1, <1>2, <2>1, SortStarts
<1>4. Check!Dangling' = Check!Dangling
  BY <1>1 DEF Check!Dangling, Check!ids, Check!Successors
<1> QED BY <1>1, <1>3, <1>4 DEF CheckInv, Opened

LEMMA EmitKeepsCheck ==
  ASSUME CheckInv, Check!Emit PROVE CheckInv'
<1> DEFINE p == program
           n == Check!Last(queue)
           s == ReleasedOf(p, To(p, n), [degree |-> degree, queue |-> Check!Front(queue)])
<1>1. /\ pc = "sort" /\ queue # << >> /\ order' = Append(order, n)
      /\ program' = program /\ pc' = pc /\ diags' = diags /\ verdicts' = verdicts
  BY DEF Check!Emit
<1>2. degree' = s.degree /\ queue' = s.queue
  BY ListsAre DEF Check!Emit, Check!Successors, To
<1>3. /\ IsProgram(p) /\ SortInv(p, degree, queue, order) /\ Replayed(p, degree, queue, order)
      /\ Opened(diags)
  BY <1>1 DEF CheckInv
<1>4. SortInv(p, s.degree, s.queue, Append(order, n))
  <2> HIDE DEF p
  <2> QED BY <1>1, <1>3, EmitKeeps
<1>5. Replayed(p, s.degree, s.queue, Append(order, n))
  <2> HIDE DEF p
  <2> QED BY <1>1, <1>3, EmitReplays
<1>6. Opened(diags)'
  BY <1>1, <1>3 DEF Opened, Check!Dangling, Check!ids, Check!Successors
<1> HIDE DEF s, n
<1> QED BY <1>1, <1>2, <1>4, <1>5, <1>6 DEF CheckInv

LEMMA EndSortKeeps ==
  ASSUME CheckInv, Check!EndSort PROVE CheckInv'
<1> DEFINE p == program
<1>1. /\ pc = "sort" /\ queue = << >> /\ pc' = "search" /\ reachable' = {}
      /\ diags' = diags \cup Check!Found("V3_CYCLE", ~(Len(order) = Cardinality(Ids(p))))
      /\ frontier' = IF p.entry \in Ids(p) THEN <<p.entry>> ELSE << >>
      /\ program' = program /\ degree' = degree /\ queue' = queue /\ order' = order
      /\ verdicts' = verdicts
  BY SameCount DEF Check!EndSort, Check!Sorted, Check!ids, Ids
<1>2. Sifted(diags, order)'
  <2>1. Check!Dangling' = Check!Dangling
    BY <1>1 DEF Check!Dangling, Check!ids, Check!Successors
  <2>2. Opened(diags)
    BY <1>1 DEF CheckInv
  <2> QED BY <1>1, <2>1, <2>2 DEF Sifted, Opened, Ids
<1>3. SearchInv(p, reachable', frontier')
  BY <1>1, SearchStarts
<1> QED BY <1>1, <1>2, <1>3 DEF CheckInv

LEMMA VisitKeepsCheck ==
  ASSUME CheckInv, Check!Visit PROVE CheckInv'
<1> DEFINE p == program
           n == Check!Last(frontier)
<1>1. /\ pc = "search" /\ frontier # << >>
      /\ frontier' = IF n \in reachable THEN Check!Front(frontier)
                                        ELSE Check!Front(frontier) \o Kept(p, To(p, n))
      /\ reachable' = reachable \cup {n}
      /\ program' = program /\ pc' = pc /\ degree' = degree /\ queue' = queue
      /\ order' = order /\ diags' = diags /\ verdicts' = verdicts
  BY ListsAre DEF Check!Visit
<1>2. IsProgram(p) /\ SearchInv(p, reachable, frontier) /\ Sifted(diags, order)
  BY <1>1 DEF CheckInv
<1>3. SearchInv(p, reachable', frontier')
  <2> HIDE DEF p
  <2> QED BY <1>1, <1>2, VisitKeeps
<1>4. Sifted(diags, order)'
  <2>1. Check!Dangling' = Check!Dangling
    BY <1>1 DEF Check!Dangling, Check!ids, Check!Successors
  <2> QED BY <1>1, <1>2, <2>1 DEF Sifted, Ids
<1> HIDE DEF n
<1> QED BY <1>1, <1>3, <1>4 DEF CheckInv

LEMMA EndSearchKeeps ==
  ASSUME CheckInv, Check!EndSearch PROVE CheckInv'
<1> DEFINE p == program
           c == Cardinality(Ids(p))
<1>1. /\ pc = "search" /\ frontier = << >> /\ pc' = "done"
      /\ diags' = diags
           \cup Check!Found("V6_UNREACHABLE", Ids(p) \ reachable # {})
           \cup Check!Found("V6_NO_TERMINAL", Endless(p, reachable))
           \cup Check!Found("V6_FORWARD_REF", Len(order) = c /\ Forwards(p, order))
      /\ verdicts' = Append(verdicts, IF diags' = {} THEN "OK" ELSE "FAIL")
      /\ program' = program /\ degree' = degree /\ queue' = queue /\ order' = order
      /\ reachable' = reachable /\ frontier' = frontier
  BY SameCount DEF Check!EndSearch, Check!search, Check!Unreachable, Check!Sorted, Check!ids, Ids,
     Endless, Check!Successors, To, Forwards, Check!Sources, Check!Forward, PointsForward,
     Check!Index, IndexOf
<1>2. /\ IsProgram(p) /\ SearchInv(p, reachable, << >>) /\ Sifted(diags, order)
      /\ SortInv(p, degree, << >>, order) /\ Replayed(p, degree, << >>, order)
      /\ verdicts \in Seq({"OK", "FAIL"}) /\ queue = << >>
      /\ \A i \in 1..Len(verdicts) : verdicts[i] = "OK" <=> Admissible(p)
  BY <1>1 DEF CheckInv
<1>3. diags' = {} <=> Clean(p, order, reachable)
  BY <1>1, <1>2, DanglingIs DEF Sifted, Check!Found, Clean
<1>4. diags' = {} <=> Admissible(p)
  <2> HIDE DEF p
  <2> QED BY <1>2, <1>3, CleanIsAdmissible
<1>5. "V3_CYCLE" \in diags' <=> Len(order) # c
  BY <1>1, <1>2 DEF Sifted, Check!Found
<1> DEFINE v == IF diags' = {} THEN "OK" ELSE "FAIL"
<1>6. v \in {"OK", "FAIL"} /\ (v = "OK" <=> Admissible(p))
  BY <1>4
<1>7. verdicts' = Append(verdicts, v)
  BY <1>1
<1> HIDE DEF v
<1>8. /\ Append(verdicts, v) \in Seq({"OK", "FAIL"}) /\ Len(Append(verdicts, v)) = Len(verdicts) + 1
      /\ Append(verdicts, v)[Len(verdicts) + 1] = v
      /\ \A i \in 1..Len(verdicts) : Append(verdicts, v)[i] = verdicts[i]
  BY <1>2, <1>6, AppendIs
<1>9. \A i \in 1..(Len(verdicts) + 1) : i \in 1..Len(verdicts) \/ i = Len(verdicts) + 1
  BY <1>2
<1>10. \A i \in 1..Len(verdicts') : verdicts'[i] = "OK" <=> Admissible(p)
  BY <1>2, <1>6, <1>7, <1>8, <1>9
<1> QED BY <1>1, <1>2, <1>4, <1>5, <1>7, <1>8, <1>10 DEF CheckInv

LEMMA CheckNext == CheckInv /\ [Check!Next]_(Check!vars) => CheckInv'
<1> SUFFICES ASSUME CheckInv, [Check!Next]_(Check!vars) PROVE CheckInv'
  OBVIOUS
<1>1. CASE Check!ValidateAgain
  BY <1>1 DEF CheckInv, Check!ValidateAgain, Check!search
<1>2. CASE UNCHANGED Check!vars
  <2>1. /\ program' = program /\ pc' = pc /\ degree' = degree /\ queue' = queue
        /\ order' = order /\ reachable' = reachable /\ frontier' = frontier
        /\ diags' = diags /\ verdicts' = verdicts
    BY <1>2 DEF Check!vars, Check!search
  <2>2. Opened(diags) => Opened(diags)'
    BY <2>1 DEF Opened, Check!Dangling, Check!ids, Check!Successors
  <2>3. Sifted(diags, order) => Sifted(diags, order)'
    BY <2>1 DEF Sifted, Ids, Check!Dangling, Check!ids, Check!Successors
  <2> QED BY <2>1, <2>2, <2>3 DEF CheckInv
<1> QED BY <1>1, <1>2, ReferencesKeep, EmitKeepsCheck, EndSortKeeps, VisitKeepsCheck,
           EndSearchKeeps DEF Check!Next

LEMMA CheckInit == ASSUME AdmittedInit PROVE CheckInv
<1>1. PICK p \in Programs : Check!Begin(p)
  BY DEF AdmittedInit, Submit
<1>2. IsProgram(program)
  BY <1>1, AdmittedRunAssumption DEF Check!Begin, IsBounded
<1>3. verdicts \in Seq({"OK", "FAIL"}) /\ Len(verdicts) = 0
  BY <1>1, EmptyIs DEF Check!Begin
<1>4. pc = "references"
  BY <1>1 DEF Check!Begin
<1> QED BY <1>2, <1>3, <1>4 DEF CheckInv

LEMMA ChecksAreRight == CheckInv => VerdictsAreRight
<1> SUFFICES ASSUME CheckInv PROVE VerdictsAreRight
  OBVIOUS
<1> DEFINE p == program
<1>1. ASSUME pc = "done" PROVE "V3_CYCLE" \in diags <=> \E n \in Ids(p) : n \in Follow(p, n)
  <2>1. /\ IsProgram(p) /\ SortInv(p, degree, << >>, order)
        /\ "V3_CYCLE" \in diags <=> Len(order) # Cardinality(Ids(p))
    BY <1>1 DEF CheckInv
  <2> HIDE DEF p
  <2> QED BY <2>1, SortedIsAcyclic, LeftoverCycles
<1>2. ASSUME pc = "done", p.entry \in Ids(p)
      PROVE  reachable = {p.entry} \cup Follow(p, p.entry)
  <2>1. SearchInv(p, reachable, << >>)
    BY <1>2 DEF CheckInv
  <2> HIDE DEF p
  <2> QED BY <1>2, <2>1, SearchEnds
<1>3. Check!PassesFindWhatIsThere
  BY <1>1, <1>2, FollowingIs DEF Check!PassesFindWhatIsThere, Check!ids, Ids
<1>4. Check!SameVerdict
  <2>1. DOMAIN verdicts = 1..Len(verdicts) /\ \A i \in 1..Len(verdicts) : verdicts[i] \in {"OK", "FAIL"}
    BY DEF CheckInv
  <2>2. \A i \in 1..Len(verdicts) : verdicts[i] = "OK" <=> Admissible(p)
    BY DEF CheckInv
  <2> QED BY <2>1, <2>2 DEF Check!SameVerdict
<1> QED BY <1>3, <1>4 DEF VerdictsAreRight

LEMMA AdmittedChecks == [AdmittedNext]_admitted => [Check!Next]_(Check!vars)
<1> SUFFICES ASSUME [AdmittedNext]_admitted PROVE [Check!Next]_(Check!vars)
  OBVIOUS
<1>1. CASE Validate
  BY <1>1 DEF Validate
<1>2. CASE Execute
  <2>1. program' = program
    BY <1>2, ProgramStays DEF Execute
  <2> QED BY <1>2, <2>1 DEF Execute, checking, Check!vars, Check!search
<1>3. CASE UNCHANGED admitted
  BY <1>3 DEF admitted, checking, vars, Check!vars, Check!search
<1> QED BY <1>1, <1>2, <1>3 DEF AdmittedNext

\* The sort leaves nodes over exactly when some node follows from itself, the search finds
\* exactly what follows from the entry, and a plan gets the same verdict however a process
\* iterates over the set of its node ids.
THEOREM VerdictsStayRight == KernelSpec => []VerdictsAreRight
<1>1. AdmittedInit => CheckInv
  BY CheckInit
<1>2. CheckInv /\ [AdmittedNext]_admitted => CheckInv'
  BY AdmittedChecks, CheckNext
<1>3. CheckInv => VerdictsAreRight
  BY ChecksAreRight
<1> QED BY <1>1, <1>2, <1>3, JobsAreApart, PTL DEF AdmittedSpec
-----------------------------------------------------------------------------
(* Straight plans.                                                          *)

Lined(p) ==
  \A n \in Ids(p) :
    LET m == p.nodes[n] IN
    /\ m.type \in {"action", "query", "notify", "wait"}
    /\ m.type \in {"action", "query"} => m.error = End
    /\ m.uses \subseteq Ids(p)

LEMMA LinedIs == Straight <=> Lined(program)
BY DEF Straight, Lined, Ids

\* Each node of a straight plan has one successor at most.
LEMMA OneSuccessor ==
  ASSUME NEW p, IsProgram(p), Lined(p), NEW n \in Ids(p)
  PROVE  /\ \A x \in LeadsTo(p, n) : x = p.nodes[n].next
         /\ p.nodes[n].next # End => p.nodes[n].next \in Check!ToSet(To(p, n))
<1> DEFINE m == p.nodes[n]
<1>1. m \in Node
  BY DEF IsProgram, Ids
<1>2. /\ m.type \in {"action", "query", "notify", "wait"}
      /\ m.type \in {"action", "query"} => m.error = End
  BY DEF Lined
<1> HIDE DEF m
<1>3. \A attr \in Attributes : attr \in DOMAIN m /\ m[attr] # End => attr = "next"
  BY <1>1, <1>2 DEF Node, Attributes
<1>4. \A x \in Check!ToSet(Check!SuccessorTargets(m)) : x = m["next"]
  BY <1>1, <1>2, <1>3, TargetsAreSuccessors
<1>5. "next" \in DOMAIN m
  BY <1>1, <1>2 DEF Node
<1>6. m.next # End => m.next \in Check!ToSet(Check!SuccessorTargets(m))
  BY <1>1, <1>5, TargetsAreSuccessors DEF Attributes
<1> QED BY <1>4, <1>6 DEF LeadsTo, To, m

\* What follows is reached last from a node that leads to it.
LEMMA FollowEnds ==
  ASSUME NEW p, NEW m \in Ids(p), NEW x \in Follow(p, m)
  PROVE  \E k \in {m} \cup Follow(p, m) : x \in LeadsTo(p, k)
<1> DEFINE C == {y \in Ids(p) : \E k \in {m} \cup Follow(p, m) : y \in LeadsTo(p, k)}
<1>1. \A s \in {m} \cup Follow(p, m) : LeadsTo(p, s) \subseteq C
  BY DEF LeadsTo
<1>2. C \subseteq Follow(p, m)
  BY FollowIsClosed
<1>3. Follow(p, m) \subseteq C
  <2>1. C \subseteq Ids(p) /\ \A s \in C \cup {m} : LeadsTo(p, s) \subseteq C
    BY <1>1, <1>2
  <2> HIDE DEF C
  <2> QED BY <2>1, FollowIsLeast
<1> QED BY <1>3

\* Of two nodes of a straight plan one follows the other.
LEMMA LineIsOrdered ==
  ASSUME NEW p, IsProgram(p), Lined(p), Ids(p) = {p.entry} \cup Follow(p, p.entry),
         NEW a \in Ids(p), NEW b \in Ids(p)
  PROVE  b = a \/ a \in Follow(p, b) \/ b \in Follow(p, a)
<1> DEFINE K == {c \in Ids(p) : c = a \/ a \in Follow(p, c) \/ c \in Follow(p, a)}
<1>1. p.entry \in K
  OBVIOUS
<1>2. ASSUME NEW c \in K, NEW x \in LeadsTo(p, c) PROVE x \in K
  <2>1. x \in Ids(p) /\ \A y \in LeadsTo(p, c) : y = x
    BY <1>2, OneSuccessor DEF LeadsTo
  <2>2. CASE c = a \/ c \in Follow(p, a)
    BY <2>1, <2>2, FollowIsClosed
  <2>3. CASE a \in Follow(p, c)
    <3>1. PICK y \in LeadsTo(p, c) : a = y \/ a \in Follow(p, y)
      BY <2>3, FollowSplits
    <3> QED BY <2>1, <3>1
  <2> QED BY <2>2, <2>3
<1>3. Follow(p, p.entry) \subseteq K
  <2>1. K \subseteq Ids(p) /\ \A s \in K \cup {p.entry} : LeadsTo(p, s) \subseteq K
    BY <1>1, <1>2
  <2> HIDE DEF K
  <2> QED BY <2>1, FollowIsLeast
<1> QED BY <1>1, <1>3

Passed(p, n, known, done) ==
  /\ \A m \in Ids(p) : n \in Follow(p, m) => m \in known \/ (IsAction(p, m) /\ m \notin done)
  /\ \A m \in done : m \in Ids(p) /\ n \in Follow(p, m)

LEMMA LineMoves ==
  ASSUME NEW p, IsProgram(p), Lined(p), Admissible(p), NEW n \in Ids(p), NEW x \in LeadsTo(p, n),
         NEW known, NEW done, Passed(p, n, known, done), NEW more, known \subseteq more,
         NEW all, all = done \/ all = done \cup {n},
         n \in more \/ (IsAction(p, n) /\ all = done)
  PROVE  Passed(p, x, more, all)
<1>1. /\ \A m \in Ids(p) : m \notin Follow(p, m)
      /\ Ids(p) = {p.entry} \cup Follow(p, p.entry)
  BY DEF Admissible
<1>2. x \in Ids(p) /\ x \in Follow(p, n)
  BY FollowIsClosed DEF LeadsTo
<1>3. ASSUME NEW k \in Ids(p), x \in LeadsTo(p, k) PROVE k = n
  <2>1. ASSUME NEW a \in Ids(p), NEW b \in Ids(p), x \in LeadsTo(p, a), x \in LeadsTo(p, b),
               a \in Follow(p, b)
        PROVE  FALSE
    <3>1. PICK y \in LeadsTo(p, b) : a = y \/ a \in Follow(p, y)
      BY <2>1, FollowSplits
    <3>2. y = x
      BY <2>1, OneSuccessor
    <3>3. x \in Follow(p, a)
      BY <2>1, FollowIsClosed
    <3>4. x \in Follow(p, x)
      BY <3>1, <3>2, <3>3, FollowGoesOn
    <3> QED BY <1>1, <1>2, <3>4
  <2> QED BY <1>1, <1>3, <2>1, LineIsOrdered
<1>4. ASSUME NEW m \in Ids(p), x \in Follow(p, m) PROVE m = n \/ n \in Follow(p, m)
  <2>1. PICK k \in {m} \cup Follow(p, m) : x \in LeadsTo(p, k)
    BY <1>4, FollowEnds
  <2>2. k \in Ids(p)
    BY DEF Follow
  <2> QED BY <1>3, <2>1, <2>2
<1>5. n \notin done
  BY <1>1 DEF Passed
<1>6. ASSUME NEW m \in Ids(p), x \in Follow(p, m)
      PROVE  m \in more \/ (IsAction(p, m) /\ m \notin all)
  <2>1. CASE m = n
    BY <1>5, <2>1
  <2>2. CASE n \in Follow(p, m)
    <3>1. m # n
      BY <1>1, <2>2
    <3> QED BY <2>2, <3>1 DEF Passed
  <2> QED BY <1>4, <1>6, <2>1, <2>2
<1>7. ASSUME NEW m \in all PROVE m \in Ids(p) /\ x \in Follow(p, m)
  <2>1. CASE m = n
    BY <1>2, <2>1
  <2>2. CASE m \in done
    <3>1. m \in Ids(p) /\ n \in Follow(p, m)
      BY <2>2 DEF Passed
    <3> QED BY <1>2, <3>1, FollowGoesOn
  <2> QED BY <2>1, <2>2
<1> QED BY <1>6, <1>7 DEF Passed

\* What an admitted straight plan refers to comes before.
LEMMA LineRefersBack ==
  ASSUME NEW p, IsProgram(p), Lined(p), Admissible(p), NEW d, NEW o, NEW r,
         SortInv(p, d, << >>, o), Clean(p, o, r), NEW n \in Ids(p), NEW s \in p.nodes[n].uses
  PROVE  s \in Ids(p) /\ n \in Follow(p, s)
<1>1. s \in Ids(p) /\ Len(o) = Cardinality(Ids(p))
  BY DEF Lined, Clean
<1>2. ~(IndexOf(o, s) >= IndexOf(o, n))
  BY <1>1 DEF Clean, Forwards, PointsForward
<1>3. Check!ToSet(o) = Ids(p)
  BY <1>1, FollowsLater
<1>4. o \in Seq(Ids(p)) /\ Distinct(o)
  BY DEF SortInv
<1>5. \A m \in Ids(p) : IndexOf(o, m) \in DOMAIN o /\ o[IndexOf(o, m)] = m
  <2> TAKE m \in Ids(p)
  <2>1. \E i \in DOMAIN o : o[i] = m
    BY <1>3 DEF Check!ToSet
  <2> QED BY <2>1 DEF IndexOf
<1> DEFINE i == IndexOf(o, s)
           j == IndexOf(o, n)
<1>6. i \in DOMAIN o /\ j \in DOMAIN o /\ o[i] = s /\ o[j] = n /\ ~(i >= j)
  BY <1>1, <1>2, <1>5
<1> HIDE DEF i, j
<1>7. DOMAIN o = 1..Len(o) /\ Len(o) \in Nat
  BY <1>4
<1>8. s # n
  BY <1>4, <1>6, <1>7 DEF Distinct
<1>9. s \notin Follow(p, n)
  <2> SUFFICES ASSUME s \in Follow(p, n) PROVE FALSE
    OBVIOUS
  <2>1. PICK k \in (j + 1)..Len(o) : o[k] = s
    BY <1>1, <1>6, FollowsLater
  <2>2. k \in DOMAIN o /\ k # i
    BY <1>6, <1>7
  <2> QED BY <1>4, <1>6, <2>1, <2>2 DEF Distinct
<1> QED BY <1>1, <1>8, <1>9, LineIsOrdered DEF Admissible

\* The one walk of a straight plan: what leads to its node has an output or was refused,
\* and what it has committed leads to its node.
Lining ==
  \A w \in DOMAIN walk :
    /\ w = << >> /\ walk[w].at \in Ids(program)
    /\ walk[w].pc \in {"start", "proposed", "sent"}
    /\ walk[w].pc # "start" => IsAction(program, walk[w].at)
    /\ Passed(program, walk[w].at, ctx, Check!ToSet(committed))

LineInv == Started /\ Lined(program) => Lining

LEMMA LineAdvances ==
  ASSUME IsProgram(program), Lined(program), Admissible(program), Lining,
         NEW w \in DOMAIN walk, NEW output, output \in {"output", "refused", "outcome"},
         Advance(w, output), program' = program,
         \/ committed' = committed /\ IsAction(program, walk[w].at)
         \/ committed' = committed /\ output # "refused"
         \/ Check!ToSet(committed') = Check!ToSet(committed) \cup {walk[w].at}
              /\ output # "refused"
  PROVE  Lining'
<1> DEFINE p == program
           n == walk[w].at
           x == NextAfter(p.nodes[n], output)
<1>1. n \in Ids(p) /\ Passed(p, n, ctx, Check!ToSet(committed)) /\ w = << >>
  BY DEF Lining
<1>2. DOMAIN walk = {w}
  BY <1>1 DEF Lining
<1>3. x = p.nodes[n].next
  BY DEF NextAfter
<1>4. ctx' = IF output = "refused" THEN ctx ELSE ctx \cup {n}
  BY DEF Advance
<1>5. walk' = IF x = End THEN Without({w}) ELSE [walk EXCEPT ![w] = At(x)]
  BY DEF Advance, node
<1>6. CASE x = End
  <2>1. DOMAIN walk' = {}
    BY <1>2, <1>5, <1>6 DEF Without
  <2> QED BY <2>1 DEF Lining
<1>7. CASE x # End
  <2>1. x \in LeadsTo(p, n)
    <3>1. x \in Check!ToSet(To(p, n))
      BY <1>1, <1>3, <1>7, OneSuccessor
    <3>2. Check!ToSet(To(p, n)) \subseteq Ids(p)
      BY <1>1 DEF Admissible, Unsound
    <3> QED BY <3>1, <3>2 DEF LeadsTo
  <2> DEFINE done == Check!ToSet(committed)
             all == Check!ToSet(committed')
  <2>2. /\ all = done \/ all = done \cup {n}
        /\ n \in ctx' \/ (IsAction(p, n) /\ all = done)
        /\ ctx \subseteq ctx'
    BY <1>4
  <2>3. Passed(p, x, ctx', all)
    <3> HIDE DEF p, n, x, done, all
    <3>1. Passed(p, n, ctx, done)
      BY <1>1 DEF done
    <3>2. IsProgram(p) /\ Lined(p) /\ Admissible(p)
      BY DEF p
    <3> QED BY <1>1, <2>1, <2>2, <3>1, <3>2, LineMoves
  <2>4. DOMAIN walk' = {w} /\ walk'[w].at = x /\ walk'[w].pc = "start"
    BY <1>2, <1>5, <1>7 DEF At
  <2>5. x \in Ids(p)
    BY <2>1 DEF LeadsTo
  <2> HIDE DEF x, n
  <2> QED BY <1>1, <2>3, <2>4, <2>5 DEF Lining
<1> QED BY <1>6, <1>7

LEMMA LineStays ==
  ASSUME Lining, program' = program, ctx' = ctx, committed' = committed,
         \A v \in DOMAIN walk' :
           /\ v \in DOMAIN walk /\ walk'[v].at = walk[v].at
           /\ walk'[v].pc \in {"start", "proposed", "sent"}
           /\ walk'[v].pc # "start" => IsAction(program, walk[v].at)
  PROVE  Lining'
<1> SUFFICES ASSUME NEW v \in DOMAIN walk'
             PROVE  /\ v = << >> /\ walk'[v].at \in Ids(program)
                    /\ walk'[v].pc \in {"start", "proposed", "sent"}
                    /\ walk'[v].pc # "start" => IsAction(program, walk'[v].at)
                    /\ Passed(program, walk'[v].at, ctx, Check!ToSet(committed))
  BY DEF Lining
<1>1. v \in DOMAIN walk /\ walk'[v].at = walk[v].at
  OBVIOUS
<1> QED BY <1>1 DEF Lining

LEMMA LiningStep ==
  ASSUME IsProgram(program), Lined(program), Admissible(program), IInv, Lining, [Next]_vars
  PROVE  Lining'
<1>1. ASSUME NEW w \in DOMAIN walk, NEW ending, Raise(w, ending), program' = program,
             committed' = committed
      PROVE  Lining'
  <2>1. \A v \in DOMAIN walk' : v \in DOMAIN walk /\ walk'[v] = walk[v]
    BY <1>1, RaiseStarts
  <2>2. ctx' = ctx
    BY <1>1, RaiseStarts
  <2>3. \A v \in DOMAIN walk' :
           /\ v \in DOMAIN walk /\ walk'[v].at = walk[v].at
           /\ walk'[v].pc \in {"start", "proposed", "sent"}
           /\ walk'[v].pc # "start" => IsAction(program, walk[v].at)
    BY <2>1 DEF Lining
  <2> QED BY <1>1, <2>2, <2>3, LineStays
<1>2. ASSUME NEW w \in DOMAIN walk
      PROVE  /\ node(w).type \in {"action", "query", "notify", "wait"}
             /\ walk[w] \in [at : Nodes, pc : {"start", "proposed", "sent", "join", "loop"},
                             left : 0..MaxItems]
             /\ walk[w].pc \in {"start", "proposed", "sent"} /\ committed \in Seq(Nodes)
             /\ walk[w].at \in Nodes
             /\ node(w).type = "action" <=> IsAction(program, walk[w].at)
  BY DEF Lining, Lined, Ids, node, IInv, Walks, WalksTyped, TypeOK, IsAction
<1>3. ASSUME NEW w \in DOMAIN walk, NEW c \in {"proposed", "sent"},
             walk' = [walk EXCEPT ![w].pc = c], IsAction(program, walk[w].at),
             program' = program, ctx' = ctx, committed' = committed
      PROVE  Lining'
  <2>1. \A v \in DOMAIN walk' :
           /\ v \in DOMAIN walk /\ walk'[v].at = walk[v].at
           /\ walk'[v].pc \in {"start", "proposed", "sent"}
           /\ walk'[v].pc # "start" => IsAction(program, walk[v].at)
    BY <1>2, <1>3 DEF Lining
  <2> QED BY <1>3, <2>1, LineStays
<1>4. ASSUME NEW w \in DOMAIN walk, Propose(w) PROVE Lining'
  <2>1. IsAction(program, walk[w].at) /\ program' = program /\ committed' = committed
    BY <1>2, <1>4 DEF Propose
  <2>2. CASE Raise(w, "unwinding") \/ Raise(w, "failed")
    BY <1>1, <2>1, <2>2
  <2>3. CASE Advance(w, "refused")
    BY <2>1, <2>3, LineAdvances
  <2>4. CASE walk' = [walk EXCEPT ![w].pc = "proposed"] /\ UNCHANGED ctx
    BY <1>3, <2>1, <2>4
  <2> QED BY <1>4, <2>2, <2>3, <2>4 DEF Propose
<1>5. ASSUME NEW w \in DOMAIN walk, SendCommit(w) PROVE Lining'
  <2>1. IsAction(program, walk[w].at)
    BY <1>5 DEF Lining, SendCommit
  <2> QED BY <1>3, <1>5, <2>1 DEF SendCommit
<1>6. ASSUME NEW w \in DOMAIN walk, Committed(w) PROVE Lining'
  <2>1. /\ committed' = Append(committed, walk[w].at) /\ program' = program
        /\ Advance(w, "outcome")
    BY <1>6 DEF Committed
  <2>2. Check!ToSet(committed') = Check!ToSet(committed) \cup {walk[w].at}
    BY <1>2, <2>1, OneMoreHeld
  <2> QED BY <2>1, <2>2, LineAdvances
<1>7. ASSUME NEW w \in DOMAIN walk, Compute(w) PROVE Lining'
  <2>1. program' = program /\ committed' = committed
    BY <1>7 DEF Compute
  <2>2. Outputs(node(w)) = {"output"}
    BY <1>2 DEF Outputs
  <2>3. CASE Advance(w, "output")
    BY <2>1, <2>3, LineAdvances
  <2>4. CASE Raise(w, "failed")
    BY <1>1, <2>1, <2>4
  <2> QED BY <1>7, <2>2, <2>3, <2>4 DEF Compute
<1>8. ASSUME NEW w \in DOMAIN walk, Unresolved(w) \/ CommitLost(w) PROVE Lining'
  BY <1>1, <1>8 DEF Unresolved, CommitLost
<1>9. ASSUME NEW w \in DOMAIN walk PROVE ~Fork(w) /\ ~Join(w) /\ ~Loop(w) /\ ~NextItem(w)
  BY <1>2, <1>9 DEF Fork, Join, Loop, NextItem
<1>10. CASE UndoPropose \/ UndoCommit \/ UNCHANGED vars
  <2>1. program' = program /\ walk' = walk /\ ctx' = ctx /\ committed' = committed
    BY <1>10 DEF UndoPropose, UndoCommit, Ends, vars
  <2> QED BY <2>1, LineStays DEF Lining
<1> QED BY <1>4, <1>5, <1>6, <1>7, <1>8, <1>9, <1>10 DEF Next, Walk, WalkStep

LEMMA LiningStarts ==
  ASSUME IsProgram(program), Admissible(program), Begin(program)
  PROVE  Lining
<1>1. /\ walk = [w \in {<< >>} |-> At(program.entry)] /\ ctx = {}
      /\ Check!ToSet(committed) = {}
  BY DEF Begin, Check!ToSet
<1>2. /\ \A m \in Ids(program) : m \notin Follow(program, m)
      /\ Ids(program) = {program.entry} \cup Follow(program, program.entry)
  BY DEF Admissible
<1>3. \A m \in Ids(program) : program.entry \notin Follow(program, m)
  <2> SUFFICES ASSUME NEW m \in Ids(program), program.entry \in Follow(program, m) PROVE FALSE
    OBVIOUS
  <2>1. m \in Follow(program, program.entry)
    BY <1>2
  <2> QED BY <1>2, <2>1, FollowGoesOn
<1>4. Passed(program, program.entry, ctx, Check!ToSet(committed))
  BY <1>1, <1>3 DEF Passed
<1> QED BY <1>1, <1>2, <1>4 DEF Lining, At

LEMMA LineResolves ==
  ASSUME CheckInv, committed \in Seq(Nodes), LineInv
  PROVE  StraightResolves
<1> SUFFICES ASSUME Started, Straight, NEW w \in DOMAIN walk,
                    NEW s \in program.nodes[walk[w].at].uses \ ctx
             PROVE  Refused(s)
  BY DEF StraightResolves
<1> DEFINE p == program
           n == walk[w].at
<1>1. Lined(p) /\ Lining
  BY LinedIs DEF LineInv
<1>2. /\ IsProgram(p) /\ SortInv(p, degree, << >>, order) /\ Replayed(p, degree, << >>, order)
      /\ SearchInv(p, reachable, << >>) /\ Admissible(p)
  BY DEF CheckInv, Started, Check!Admitted
<1>3. n \in Ids(p) /\ Passed(p, n, ctx, Check!ToSet(committed))
  BY <1>1 DEF Lining
<1>4. s \in Ids(p) /\ n \in Follow(p, s)
  <2>1. Clean(p, order, reachable)
    <3> HIDE DEF p
    <3> QED BY <1>2, CleanIsAdmissible
  <2>2. s \in p.nodes[n].uses
    OBVIOUS
  <2> HIDE DEF p, n
  <2> QED BY <1>1, <1>2, <1>3, <2>1, <2>2, LineRefersBack
<1>5. IsAction(p, s) /\ s \notin Check!ToSet(committed)
  BY <1>3, <1>4 DEF Passed
<1>6. \A i \in 1..Len(committed) : committed[i] # s
  <2>1. DOMAIN committed = 1..Len(committed)
    OBVIOUS
  <2> QED BY <1>5, <2>1 DEF Check!ToSet
<1> QED BY <1>5, <1>6 DEF Refused, IsAction

LEMMA LineStep ==
  ASSUME Watched, CheckInv, LineInv, [AdmittedNext]_admitted, CheckInv'
  PROVE  LineInv'
<1> SUFFICES ASSUME Started', Lined(program)' PROVE Lining'
  BY DEF LineInv
<1>1. CASE Validate
  <2>1. program' = program /\ ~Started
    BY <1>1 DEF Validate, Check!Next, Check!CheckReferences, Check!Emit, Check!EndSort, Check!Visit,
                Check!EndSearch, Check!ValidateAgain, Started, Check!Admitted
  <2>2. Begin(program) /\ UNCHANGED running
    BY <1>1, <2>1 DEF Watched, Validate
  <2>3. Begin(program)'
    BY <2>1, <2>2 DEF running, unwind, adapter, Begin
  <2>4. IsProgram(program)' /\ Admissible(program)'
    BY DEF CheckInv, Started, Check!Admitted
  <2>5. (IsProgram(program) /\ Admissible(program) /\ Begin(program) => Lining)'
    BY LiningStarts, PTL
  <2> QED BY <2>3, <2>4, <2>5
<1>2. ASSUME Started, [Next]_vars, UNCHANGED checking PROVE Lining'
  <2>1. program' = program
    BY <1>2, ProgramStays DEF vars
  <2>2. IsProgram(program) /\ Admissible(program) /\ Lined(program) /\ IInv /\ Lining
    BY <1>2, <2>1 DEF CheckInv, Started, Check!Admitted, Watched, RunInv, LineInv, Lined, Ids
  <2> QED BY <1>2, <2>2, LiningStep
<1>3. CASE Execute
  BY <1>2, <1>3 DEF Execute
<1>4. CASE UNCHANGED admitted
  <2>1. UNCHANGED <<checking, vars>> /\ Started
    BY <1>4 DEF admitted, checking, Started, Check!Admitted
  <2> QED BY <1>2, <2>1
<1> QED BY <1>1, <1>3, <1>4 DEF AdmittedNext

\* In an admitted plan of one path, whose references are to its own steps, what a step
\* refers to has an output when the step starts, unless it is an action that was refused.
THEOREM StraightStaysResolved == KernelSpec => []StraightResolves
<1> DEFINE Inv == Watched /\ CheckInv /\ LineInv
<1>1. AdmittedInit => Inv
  <2>1. AdmittedInit => ~Started
    BY DEF AdmittedInit, Submit, Check!Begin, Started, Check!Admitted
  <2> QED BY <2>1, AdmittedStart, CheckInit DEF LineInv
<1>2. Inv /\ [AdmittedNext]_admitted => Inv'
  <2>1. Watched /\ [AdmittedNext]_admitted => Watched'
    BY AdmittedStep
  <2>2. CheckInv /\ [AdmittedNext]_admitted => CheckInv'
    BY AdmittedChecks, CheckNext
  <2> QED BY <2>1, <2>2, LineStep
<1>3. Inv => StraightResolves
  <2>1. Watched => committed \in Seq(Nodes)
    BY WatchedIsOrderly DEF TypeOK
  <2> QED BY <2>1, LineResolves
<1> QED BY <1>1, <1>2, <1>3, JobsAreApart, PTL DEF AdmittedSpec

=============================================================================
