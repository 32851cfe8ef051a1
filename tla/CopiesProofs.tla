---------------------------- MODULE CopiesProofs ----------------------------
(***************************************************************************)
(* Walks over commits, and what is copied along them: a fork and its syncs   *)
(* (Forks), a clone and its fetches (UploadPack), for any commits, branches, *)
(* requests, clients and failures.                                           *)
(*                                                                         *)
(* Walks: the loop of CommitGraph ends, because each turn takes one off the    *)
(* queue and what it puts there are the links of a commit not visited before   *)
(* (Measure); what it visits is closed under parents up to the stops, and the   *)
(* least such set (WalkVisits).  So what is collected for a tip, with the        *)
(* histories of the stops, is the history of the tip (WalksCollect).              *)
(*                                                                         *)
(* Forks: a write of the fork's document goes through only on the one it was     *)
(* made from, and names what the request that writes it has brought or what the   *)
(* document had (RequestIsSound), so that a branch is ahead of the store by what    *)
(* came late for a copy at most.                                                     *)
(*                                                                         *)
(* UploadPack: the haves are of the clone, and a clone has with each commit its     *)
(* history, so that a pack which stops at the haves completes it (CloneIsSound).    *)
(***************************************************************************)
EXTENDS Forks, UploadPack, FiniteSetTheorems, SequenceTheorems, WellFoundedInduction, TLAPS

-----------------------------------------------------------------------------
\* Induction by sets: a set of numbers that has 0, and with each number the next, has them all.
LEMMA NumbersByStep ==
    ASSUME NEW T, 0 \in T, \A n \in Nat : n \in T => n + 1 \in T
    PROVE  Nat \subseteq T
<1> SUFFICES ASSUME Nat \ T # {} PROVE FALSE
    OBVIOUS
<1>1. PICK n \in Nat \ T : \A m \in Nat \ T : <<m, n>> \notin OpToRel(<, Nat)
    BY NatLessThanWellFounded, WFMin, Nat \ T \subseteq Nat
<1>2. n # 0 /\ n - 1 \in Nat /\ n - 1 < n /\ n = (n - 1) + 1
    OBVIOUS
<1>3. <<n - 1, n>> \in OpToRel(<, Nat)
    BY <1>2 DEF OpToRel
<1>4. n - 1 \in T
    BY <1>1, <1>2, <1>3
<1>5. QED
    BY <1>2, <1>4

-----------------------------------------------------------------------------
(* The loop.                                                                 *)

\* What the loop has at the beginning of a turn.
WalkStates == [visited : Seq(Commits), queue : Seq(Commits)]

\* What is queued are commits.
LEMMA ParentsTyped ==
    ASSUME GraphAssumption, NEW held, NEW c \in Commits
    PROVE  ParentsIn(held, c) \in Seq(Commits)
BY DEF GraphAssumption, ParentsIn

\* What a turn does, by cases.
LEMMA TurnRests ==
    ASSUME NEW held, NEW stops, NEW w, w.queue = <<>>
    PROVE  WalkTurn(held, stops, w) = w
BY DEF WalkTurn

Moved(held, stops, w) ==
    /\ WalkTurn(held, stops, w) \in WalkStates
    /\ Head(w.queue) \in Commits
    /\ \/ /\ Head(w.queue) \in stops \/ Head(w.queue) \in ToSet(w.visited)
          /\ WalkTurn(held, stops, w).visited = w.visited
          /\ WalkTurn(held, stops, w).queue = Tail(w.queue)
       \/ /\ Head(w.queue) \notin stops /\ Head(w.queue) \notin ToSet(w.visited)
          /\ WalkTurn(held, stops, w).visited = Append(w.visited, Head(w.queue))
          /\ WalkTurn(held, stops, w).queue = Tail(w.queue) \o ParentsIn(held, Head(w.queue))

\* A turn with something in the queue is one of the two.
LEMMA TurnMoves ==
    ASSUME GraphAssumption, NEW held, NEW stops, NEW w \in WalkStates, w.queue # <<>>
    PROVE  Moved(held, stops, w)
<1> DEFINE c == Head(w.queue)
<1>1. w.visited \in Seq(Commits) /\ w.queue \in Seq(Commits)
    BY DEF WalkStates
<1>2. c \in Commits /\ Tail(w.queue) \in Seq(Commits)
    BY <1>1, HeadTailProperties
<1>3. ParentsIn(held, c) \in Seq(Commits)
    BY <1>2, ParentsTyped
<1>4. Contains(w.visited, c) <=> c \in ToSet(w.visited)
    BY <1>1, LenProperties DEF Contains, ToSet
<1>5. CASE c \in stops \/ c \in ToSet(w.visited)
    <2>1. WalkTurn(held, stops, w) = [visited |-> w.visited, queue |-> Tail(w.queue)]
        BY <1>4, <1>5 DEF WalkTurn
    <2>2. QED
        BY <1>1, <1>2, <1>5, <2>1 DEF WalkStates, Moved
<1>6. CASE ~(c \in stops \/ c \in ToSet(w.visited))
    <2>1. WalkTurn(held, stops, w) = [visited |-> Append(w.visited, c), queue |-> Tail(w.queue) \o ParentsIn(held, c)]
        BY <1>4, <1>6 DEF WalkTurn
    <2>2. Append(w.visited, c) \in Seq(Commits) /\ Tail(w.queue) \o ParentsIn(held, c) \in Seq(Commits)
        BY <1>1, <1>2, <1>3, AppendProperties, ConcatProperties
    <2>3. QED
        BY <1>2, <1>6, <2>1, <2>2 DEF WalkStates, Moved
<1>7. QED
    BY <1>5, <1>6

\* A turn keeps the types.
LEMMA TurnTyped ==
    ASSUME GraphAssumption, NEW held, NEW stops, NEW w \in WalkStates
    PROVE  WalkTurn(held, stops, w) \in WalkStates
BY TurnRests, TurnMoves DEF Moved

\* The loop is what its definition says: it starts with the starts, and goes on turn by turn.
LEMMA AfterIsTurns ==
    ASSUME GraphAssumption, NEW held, NEW starts \in Seq(Commits), NEW stops, Turns(starts) \in Nat
    PROVE  /\ After(held, starts, stops) \in [0..Turns(starts) -> WalkStates]
           /\ After(held, starts, stops)[0] = [visited |-> <<>>, queue |-> starts]
           /\ \A n \in 1..Turns(starts) :
                 After(held, starts, stops)[n] = WalkTurn(held, stops, After(held, starts, stops)[n - 1])
<1> DEFINE K == Turns(starts)
           begin == [visited |-> <<>>, queue |-> starts]
           Good(g, m) == /\ g \in [0..m -> WalkStates] /\ g[0] = begin
                         /\ \A n \in 1..m : g[n] = WalkTurn(held, stops, g[n - 1])
           Reached == {m \in Nat : \E g : Good(g, m)}
<1>1. begin \in WalkStates
    BY EmptySeq DEF WalkStates
<1>2. 0 \in Reached
    <2>1. Good([n \in 0..0 |-> begin], 0)
        BY <1>1
    <2>2. QED
        BY <2>1
<1>3. ASSUME NEW m \in Nat, m \in Reached
      PROVE  m + 1 \in Reached
    <2>1. PICK g : Good(g, m)
        BY <1>3
    <2> DEFINE h == [n \in 0..m + 1 |-> IF n <= m THEN g[n] ELSE WalkTurn(held, stops, g[m])]
    <2>2. g[m] \in WalkStates
        BY <2>1
    <2>3. WalkTurn(held, stops, g[m]) \in WalkStates
        BY <2>2, TurnTyped
    <2>4. h \in [0..m + 1 -> WalkStates] /\ h[0] = begin
        BY <2>1, <2>3
    <2>5. ASSUME NEW n \in 1..m + 1
          PROVE  h[n] = WalkTurn(held, stops, h[n - 1])
        <3>1. n - 1 \in 0..m /\ n \in 0..m + 1 /\ n - 1 \in 0..m + 1 /\ n - 1 <= m
            OBVIOUS
        <3>2. h[n - 1] = g[n - 1]
            BY <3>1
        <3>3. CASE n <= m
            BY <2>1, <3>1, <3>2, <3>3
        <3>4. CASE ~(n <= m)
            <4>1. n - 1 = m
                BY <3>1, <3>4
            <4>2. h[n] = WalkTurn(held, stops, g[m])
                BY <3>1, <3>4
            <4>3. QED
                BY <3>2, <4>1, <4>2
        <3>5. QED
            BY <3>3, <3>4
    <2>6. Good(h, m + 1)
        BY <2>4, <2>5
    <2> HIDE DEF h, Good
    <2>7. QED
        BY <2>6
<1>4. K \in Reached
    BY <1>2, <1>3, NumbersByStep
<1>5. PICK g : Good(g, K)
    BY <1>4
<1> DEFINE Rule(f) == [n \in 0..K |-> IF n = 0 THEN begin ELSE WalkTurn(held, stops, f[n - 1])]
<1>6. g = Rule(g)
    <2>1. \A n \in 0..K : g[n] = IF n = 0 THEN begin ELSE WalkTurn(held, stops, g[n - 1])
        BY <1>5
    <2>2. g = [n \in 0..K |-> g[n]]
        BY <1>5
    <2>3. QED
        BY <2>1, <2>2
<1>7. After(held, starts, stops) = CHOOSE f : f = Rule(f)
    BY DEF After
<1>8. After(held, starts, stops) = Rule(After(held, starts, stops))
    BY <1>6, <1>7
<1> DEFINE f == After(held, starts, stops)
<1>9. /\ DOMAIN f = 0..K /\ f[0] = begin
      /\ \A n \in 1..K : f[n] = WalkTurn(held, stops, f[n - 1])
      /\ f = [n \in 0..K |-> f[n]]
    BY <1>8
<1> HIDE DEF f
<1> DEFINE Typed == {n \in Nat : n <= K => f[n] \in WalkStates}
<1>10. 0 \in Typed
    BY <1>1, <1>9
<1>11. ASSUME NEW n \in Nat, n \in Typed
       PROVE  n + 1 \in Typed
    <2>1. SUFFICES ASSUME n + 1 <= K
                   PROVE  f[n + 1] \in WalkStates
        OBVIOUS
    <2>2. f[n] \in WalkStates
        BY <1>11, <2>1
    <2>3. n + 1 \in 1..K /\ (n + 1) - 1 = n
        BY <2>1
    <2>4. f[n + 1] = WalkTurn(held, stops, f[n])
        BY <1>9, <2>3
    <2>5. WalkTurn(held, stops, f[n]) \in WalkStates
        BY <2>2, TurnTyped
    <2>6. QED
        BY <2>4, <2>5
<1>12. \A n \in 0..K : f[n] \in WalkStates
    <2>1. Nat \subseteq Typed
        <3> HIDE DEF Typed
        <3>1. QED
            BY <1>10, <1>11, NumbersByStep
    <2>2. QED
        BY <2>1
<1>13. f \in [0..K -> WalkStates]
    BY <1>9, <1>12
<1>14. QED
    BY <1>9, <1>13 DEF f

-----------------------------------------------------------------------------
(* The loop ends: each turn takes one off the queue, and what is put on it are links *)
(* of a commit that was not visited before.                                          *)

LinksOf(c) == {c} \X DOMAIN Parents[c]
LinksLeft(visited) == {e \in ParentLinks : e[1] \notin ToSet(visited)}
Measure(w) == Len(w.queue) + Cardinality(LinksLeft(w.visited))

\* The links are finitely many, and each commit has as many as it lists parents.
LEMMA LinksAreFinite ==
    ASSUME GraphAssumption
    PROVE  /\ IsFiniteSet(ParentLinks) /\ Cardinality(ParentLinks) \in Nat
           /\ \A c \in Commits : /\ LinksOf(c) \subseteq ParentLinks /\ IsFiniteSet(LinksOf(c))
                                /\ Cardinality(LinksOf(c)) = Len(Parents[c])
<1> DEFINE S == {LinksOf(c) : c \in Commits}
           g == [c \in Commits |-> LinksOf(c)]
<1>1. ParentLinks = UNION S
    BY DEF ParentLinks, LinksOf
<1>2. ASSUME NEW c \in Commits
      PROVE  /\ LinksOf(c) \subseteq ParentLinks /\ IsFiniteSet(LinksOf(c))
             /\ Cardinality(LinksOf(c)) = Len(Parents[c])
    <2>1. Parents[c] \in Seq(Commits)
        BY DEF GraphAssumption
    <2>2. DOMAIN Parents[c] = 1..Len(Parents[c]) /\ Len(Parents[c]) \in Nat
        BY <2>1, LenProperties
    <2>3. ASSUME NEW n \in Nat
          PROVE  IsFiniteSet(1..n) /\ Cardinality(1..n) = n
        BY FS_Interval
    <2>4. IsFiniteSet({c}) /\ Cardinality({c}) = 1
        BY FS_Singleton
    <2>5. IsFiniteSet(DOMAIN Parents[c]) /\ Cardinality(DOMAIN Parents[c]) = Len(Parents[c])
        BY <2>2, <2>3
    <2>6. /\ IsFiniteSet({c} \X DOMAIN Parents[c])
          /\ Cardinality({c} \X DOMAIN Parents[c]) = Cardinality({c}) * Cardinality(DOMAIN Parents[c])
        BY <2>4, <2>5, FS_Product
    <2>7. ASSUME NEW n \in Nat
          PROVE  1 * n = n
        OBVIOUS
    <2>8. LinksOf(c) \in S
        OBVIOUS
    <2>9. LinksOf(c) \subseteq ParentLinks
        BY <1>1, <2>8
    <2>10. Cardinality({c} \X DOMAIN Parents[c]) = Len(Parents[c])
        BY <2>2, <2>4, <2>5, <2>6, <2>7
    <2>11. QED
        BY <2>6, <2>9, <2>10 DEF LinksOf
<1>3. IsFiniteSet(S)
    <2>1. g \in Surjection(Commits, S)
        BY DEF Surjection
    <2>2. IsFiniteSet(Commits)
        BY DEF GraphAssumption
    <2>3. QED
        BY <2>1, <2>2, FS_Surjection
<1>4. IsFiniteSet(UNION S)
    BY <1>2, <1>3, FS_UNION
<1>5. QED
    BY <1>1, <1>2, <1>4, FS_CardinalityType

\* The bound on the turns is a number.
LEMMA TurnsTyped ==
    ASSUME GraphAssumption, NEW starts \in Seq(Commits)
    PROVE  Turns(starts) \in Nat
<1>1. Len(starts) \in Nat
    BY LenProperties
<1>2. QED
    BY <1>1, LinksAreFinite DEF Turns

\* Every turn with something in the queue brings the end nearer.
LEMMA TurnMeasured ==
    ASSUME GraphAssumption, NEW held, NEW stops, NEW w \in WalkStates
    PROVE  /\ Measure(w) \in Nat
           /\ w.queue # <<>> => Measure(WalkTurn(held, stops, w)) <= Measure(w) - 1
<1> DEFINE next == WalkTurn(held, stops, w)
           c == Head(w.queue)
<1>1. w.visited \in Seq(Commits) /\ w.queue \in Seq(Commits) /\ Len(w.queue) \in Nat
    BY LenProperties DEF WalkStates
<1>2. IsFiniteSet(LinksLeft(w.visited)) /\ Cardinality(LinksLeft(w.visited)) \in Nat
    BY LinksAreFinite, FS_Subset, FS_CardinalityType DEF LinksLeft
<1>3. Measure(w) \in Nat
    BY <1>1, <1>2 DEF Measure
<1>4. SUFFICES ASSUME w.queue # <<>>
               PROVE  Measure(next) <= Measure(w) - 1
    BY <1>3
<1>5. c \in Commits /\ Tail(w.queue) \in Seq(Commits) /\ Len(Tail(w.queue)) = Len(w.queue) - 1
    BY <1>1, <1>4, HeadTailProperties
<1>6. CASE next.visited = w.visited /\ next.queue = Tail(w.queue)
    BY <1>1, <1>2, <1>5, <1>6 DEF Measure
<1>7. CASE /\ c \notin ToSet(w.visited) /\ next.visited = Append(w.visited, c)
           /\ next.queue = Tail(w.queue) \o ParentsIn(held, c)
    <2>1. ToSet(next.visited) = ToSet(w.visited) \cup {c}
        <3>1. DOMAIN w.visited = 1..Len(w.visited) /\ Len(w.visited) \in Nat
            BY <1>1, LenProperties
        <3>2. /\ DOMAIN next.visited = 1..Len(w.visited) + 1
              /\ \A i \in 1..Len(w.visited) : next.visited[i] = w.visited[i]
              /\ next.visited[Len(w.visited) + 1] = c
            BY <1>1, <1>5, <1>7, <3>1, AppendProperties, LenProperties
        <3>3. QED
            BY <3>1, <3>2 DEF ToSet
    <2>2. LinksOf(c) \subseteq LinksLeft(w.visited)
        BY <1>5, <1>7, LinksAreFinite DEF LinksLeft, LinksOf
    <2>3. LinksLeft(next.visited) = LinksLeft(w.visited) \ LinksOf(c)
        <3>1. \A e \in ParentLinks : e \in LinksOf(c) <=> e[1] = c
            BY DEF LinksOf, ParentLinks
        <3>2. QED
            BY <2>1, <3>1 DEF LinksLeft
    <2>4. LinksLeft(w.visited) \cap LinksOf(c) = LinksOf(c)
        BY <2>2
    <2>5. Cardinality(LinksLeft(next.visited)) = Cardinality(LinksLeft(w.visited)) - Len(Parents[c])
        <3>1. Cardinality(LinksOf(c)) = Len(Parents[c])
            BY <1>5, LinksAreFinite
        <3> HIDE DEF c
        <3>2. Cardinality(LinksLeft(w.visited) \ LinksOf(c))
              = Cardinality(LinksLeft(w.visited)) - Cardinality(LinksLeft(w.visited) \cap LinksOf(c))
            BY <1>2, FS_Difference
        <3>3. QED
            BY <2>3, <2>4, <3>1, <3>2
    <2>6. Parents[c] \in Seq(Commits) /\ Len(Parents[c]) \in Nat
        BY <1>5, LenProperties DEF GraphAssumption
    <2>7. ParentsIn(held, c) \in Seq(Commits) /\ Len(ParentsIn(held, c)) \in 0..Len(Parents[c])
        BY <2>6, EmptySeq DEF ParentsIn
    <2>8. Len(next.queue) = Len(Tail(w.queue)) + Len(ParentsIn(held, c))
        BY <1>5, <1>7, <2>7, ConcatProperties
    <2>9. /\ Measure(next) = Len(next.queue) + Cardinality(LinksLeft(next.visited))
          /\ Measure(w) = Len(w.queue) + Cardinality(LinksLeft(w.visited))
        BY DEF Measure
    <2> HIDE DEF next, c
    <2>10. Len(next.queue) \in Nat /\ Len(ParentsIn(held, c)) \in Nat /\ Len(Tail(w.queue)) \in Nat
        BY <1>1, <1>5, <2>6, <2>7, <2>8, LenProperties
    <2>11. QED
        BY <1>1, <1>2, <1>5, <2>5, <2>6, <2>7, <2>8, <2>9, <2>10
<1>8. \/ next.visited = w.visited /\ next.queue = Tail(w.queue)
      \/ /\ c \notin ToSet(w.visited) /\ next.visited = Append(w.visited, c)
         /\ next.queue = Tail(w.queue) \o ParentsIn(held, c)
    <2>1. Moved(held, stops, w)
        BY <1>4, TurnMoves
    <2>2. QED
        BY <2>1 DEF Moved
<1>9. QED
    BY <1>6, <1>7, <1>8

\* All that was queued was looked at when the turns are over.
LEMMA WalkEnds ==
    ASSUME GraphAssumption, NEW held, NEW starts \in Seq(Commits), NEW stops
    PROVE  After(held, starts, stops)[Turns(starts)].queue = <<>>
<1> DEFINE K == Turns(starts)
           f == After(held, starts, stops)
           Ending == {n \in Nat : n <= K => f[n].queue = <<>> \/ Measure(f[n]) <= K - n}
<1>1. K \in Nat
    BY TurnsTyped
<1>2. /\ f \in [0..K -> WalkStates] /\ f[0] = [visited |-> <<>>, queue |-> starts]
      /\ \A n \in 1..K : f[n] = WalkTurn(held, stops, f[n - 1])
    BY <1>1, AfterIsTurns
<1>3. 0 \in Ending
    <2>1. LinksLeft(<<>>) = ParentLinks
        BY DEF LinksLeft, ToSet
    <2>2. Measure(f[0]) = K
        BY <1>2, <2>1 DEF Measure, Turns
    <2>3. QED
        BY <1>1, <2>2
<1> HIDE DEF f, K
<1>4. ASSUME NEW n \in Nat, n \in Ending
      PROVE  n + 1 \in Ending
    <2>1. SUFFICES ASSUME n + 1 <= K
                   PROVE  f[n + 1].queue = <<>> \/ Measure(f[n + 1]) <= K - (n + 1)
        OBVIOUS
    <2>2. n + 1 \in 1..K /\ (n + 1) - 1 = n /\ n \in 0..K
        BY <1>1, <2>1
    <2>3. f[n + 1] = WalkTurn(held, stops, f[n]) /\ f[n] \in WalkStates /\ f[n + 1] \in WalkStates
        BY <1>2, <2>2
    <2>4. CASE f[n].queue = <<>>
        <3>1. f[n + 1] = f[n]
            BY <2>3, <2>4, TurnRests
        <3>2. QED
            BY <2>4, <3>1
    <2>5. CASE f[n].queue # <<>>
        <3>1. Measure(f[n]) <= K - n
            BY <1>4, <2>2, <2>5
        <3>2. Measure(f[n]) \in Nat /\ Measure(f[n + 1]) \in Nat /\ Measure(f[n + 1]) <= Measure(f[n]) - 1
            BY <2>3, <2>5, TurnMeasured
        <3>3. QED
            BY <1>1, <3>1, <3>2
    <2>6. QED
        BY <2>4, <2>5
<1>5. K \in Ending
    <2>1. Nat \subseteq Ending
        <3> HIDE DEF Ending
        <3>1. QED
            BY <1>3, <1>4, NumbersByStep
    <2>2. QED
        BY <1>1, <2>1
<1>6. f[K] \in WalkStates
    BY <1>1, <1>2
<1>7. ASSUME f[K].queue # <<>>
      PROVE  FALSE
    <2>1. Measure(f[K]) <= 0
        BY <1>1, <1>5, <1>7
    <2>2. f[K].queue \in Seq(Commits) /\ f[K].visited \in Seq(Commits)
        BY <1>6 DEF WalkStates
    <2>3. Len(f[K].queue) \in Nat \ {0}
        BY <1>7, <2>2, EmptySeq
    <2>4. Cardinality(LinksLeft(f[K].visited)) \in Nat
        BY LinksAreFinite, FS_Subset, FS_CardinalityType DEF LinksLeft
    <2>5. QED
        BY <2>1, <2>3, <2>4 DEF Measure
<1>8. QED
    BY <1>7 DEF f, K

-----------------------------------------------------------------------------
(* What the loop visits.                                                     *)

\* The elements of sequences.
LEMMA ToSetFacts ==
    ASSUME NEW S, NEW s \in Seq(S)
    PROVE  /\ ToSet(s) \subseteq S
           /\ \A e \in S : ToSet(Append(s, e)) = ToSet(s) \cup {e}
           /\ \A t \in Seq(S) : ToSet(s \o t) = ToSet(s) \cup ToSet(t)
           /\ s # <<>> => Head(s) \in S /\ Tail(s) \in Seq(S) /\ ToSet(s) = {Head(s)} \cup ToSet(Tail(s))
<1>1. DOMAIN s = 1..Len(s) /\ Len(s) \in Nat /\ \A i \in 1..Len(s) : s[i] \in S
    BY LenProperties, ElementOfSeq
<1>2. ASSUME NEW e \in S
      PROVE  ToSet(Append(s, e)) = ToSet(s) \cup {e}
    <2>1. /\ DOMAIN Append(s, e) = 1..Len(s) + 1
          /\ \A i \in 1..Len(s) : Append(s, e)[i] = s[i]
          /\ Append(s, e)[Len(s) + 1] = e
        BY AppendProperties, LenProperties
    <2>2. QED
        BY <1>1, <2>1 DEF ToSet
<1>3. ASSUME NEW t \in Seq(S)
      PROVE  ToSet(s \o t) = ToSet(s) \cup ToSet(t)
    <2>1. DOMAIN t = 1..Len(t) /\ Len(t) \in Nat
        BY LenProperties
    <2>2. /\ DOMAIN (s \o t) = 1..Len(s) + Len(t)
          /\ \A i \in 1..Len(s) + Len(t) : (s \o t)[i] = IF i <= Len(s) THEN s[i] ELSE t[i - Len(s)]
        BY ConcatProperties, LenProperties
    <2>3. \A i \in 1..Len(s) : i \in 1..Len(s) + Len(t) /\ (s \o t)[i] = s[i]
        BY <1>1, <2>1, <2>2
    <2>4. \A i \in 1..Len(t) : Len(s) + i \in 1..Len(s) + Len(t) /\ (s \o t)[Len(s) + i] = t[i]
        BY <1>1, <2>1, <2>2
    <2>5. ToSet(s) \cup ToSet(t) \subseteq ToSet(s \o t)
        BY <1>1, <2>1, <2>2, <2>3, <2>4 DEF ToSet
    <2>6. ToSet(s \o t) \subseteq ToSet(s) \cup ToSet(t)
        BY <1>1, <2>1, <2>2 DEF ToSet
    <2>7. QED
        BY <2>5, <2>6
<1>4. ASSUME s # <<>>
      PROVE  Head(s) \in S /\ Tail(s) \in Seq(S) /\ ToSet(s) = {Head(s)} \cup ToSet(Tail(s))
    <2>1. /\ Head(s) \in S /\ Tail(s) \in Seq(S) /\ Len(Tail(s)) = Len(s) - 1
          /\ \A i \in 1..Len(Tail(s)) : Tail(s)[i] = s[i + 1]
        BY <1>4, HeadTailProperties
    <2>2. DOMAIN Tail(s) = 1..Len(s) - 1 /\ Len(s) \in Nat \ {0} /\ Head(s) = s[1]
        BY <1>4, <2>1, LenProperties, EmptySeq
    <2>3. \A i \in 1..Len(s) : i = 1 \/ (i - 1 \in 1..Len(s) - 1 /\ Tail(s)[i - 1] = s[i])
        BY <2>1, <2>2
    <2>4. ToSet(s) \subseteq {Head(s)} \cup ToSet(Tail(s))
        BY <1>1, <2>2, <2>3 DEF ToSet
    <2>5. 1 \in 1..Len(s) /\ \A i \in 1..Len(s) - 1 : i + 1 \in 1..Len(s) /\ Tail(s)[i] = s[i + 1]
        BY <2>1, <2>2
    <2>6. {Head(s)} \cup ToSet(Tail(s)) \subseteq ToSet(s)
        BY <1>1, <2>2, <2>5 DEF ToSet
    <2>7. QED
        BY <2>1, <2>4, <2>6
<1>5. ToSet(s) \subseteq S
    BY <1>1 DEF ToSet
<1>6. QED
    BY <1>2, <1>3, <1>4, <1>5

\* Nothing that was queued is lost, and nothing visited is a stop.
Explored(held, starts, stops, w) ==
    /\ ToSet(w.visited) \cap stops = {}
    /\ ToSet(starts) \subseteq ToSet(w.visited) \cup ToSet(w.queue) \cup stops
    /\ \A c \in ToSet(w.visited) : ToSet(ParentsIn(held, c)) \subseteq ToSet(w.visited) \cup ToSet(w.queue) \cup stops

\* Nothing is visited or queued that a set closed under parents does not have.
Within(stops, X, w) == ToSet(w.visited) \subseteq X /\ ToSet(w.queue) \ stops \subseteq X
Closed(held, stops, X) == \A c \in X \cap Commits : ToSet(ParentsIn(held, c)) \ stops \subseteq X

MovedSets(held, stops, w, c, next) ==
    /\ c \in Commits
    /\ ToSet(w.queue) = {c} \cup ToSet(Tail(w.queue))
    /\ \/ /\ c \in stops \/ c \in ToSet(w.visited)
          /\ ToSet(next.visited) = ToSet(w.visited) /\ ToSet(next.queue) = ToSet(Tail(w.queue))
       \/ /\ c \notin stops
          /\ ToSet(next.visited) = ToSet(w.visited) \cup {c}
          /\ ToSet(next.queue) = ToSet(Tail(w.queue)) \cup ToSet(ParentsIn(held, c))

\* The two kinds of turn, in terms of sets.
LEMMA TurnSets ==
    ASSUME GraphAssumption, NEW held, NEW stops, NEW w \in WalkStates, w.queue # <<>>
    PROVE  MovedSets(held, stops, w, Head(w.queue), WalkTurn(held, stops, w))
<1> DEFINE c == Head(w.queue)
           next == WalkTurn(held, stops, w)
<1>1. Moved(held, stops, w)
    BY TurnMoves
<1>2. w.visited \in Seq(Commits) /\ w.queue \in Seq(Commits)
    BY DEF WalkStates
<1>3. c \in Commits /\ Tail(w.queue) \in Seq(Commits) /\ ToSet(w.queue) = {c} \cup ToSet(Tail(w.queue))
    BY <1>2, ToSetFacts
<1>4. ParentsIn(held, c) \in Seq(Commits)
    BY <1>3, ParentsTyped
<1>5. ToSet(Append(w.visited, c)) = ToSet(w.visited) \cup {c}
    BY <1>2, <1>3, ToSetFacts
<1>6. ToSet(Tail(w.queue) \o ParentsIn(held, c)) = ToSet(Tail(w.queue)) \cup ToSet(ParentsIn(held, c))
    <2>1. ASSUME NEW t \in Seq(Commits), NEW u \in Seq(Commits)
          PROVE  ToSet(t \o u) = ToSet(t) \cup ToSet(u)
        BY ToSetFacts
    <2>2. QED
        BY <1>3, <1>4, <2>1
<1>7. QED
    BY <1>1, <1>3, <1>5, <1>6 DEF Moved, MovedSets

\* A turn keeps both.
LEMMA TurnExplores ==
    ASSUME GraphAssumption, NEW held, NEW starts, NEW stops, NEW w \in WalkStates
    PROVE  /\ Explored(held, starts, stops, w) => Explored(held, starts, stops, WalkTurn(held, stops, w))
           /\ \A X : Closed(held, stops, X) /\ Within(stops, X, w) => Within(stops, X, WalkTurn(held, stops, w))
<1>1. CASE w.queue = <<>>
    BY <1>1, TurnRests
<1>2. CASE w.queue # <<>>
    <2> DEFINE c == Head(w.queue)
               next == WalkTurn(held, stops, w)
    <2>1. MovedSets(held, stops, w, c, next)
        BY <1>2, TurnSets
    <2> HIDE DEF c, next
    <2>2. ASSUME Explored(held, starts, stops, w)
          PROVE  Explored(held, starts, stops, next)
        BY <2>1, <2>2 DEF Explored, MovedSets
    <2>3. ASSUME NEW X, Closed(held, stops, X), Within(stops, X, w)
          PROVE  Within(stops, X, next)
        BY <2>1, <2>3 DEF Closed, Within, MovedSets
    <2>4. QED
        BY <2>2, <2>3 DEF next
<1>3. QED
    BY <1>1, <1>2

\* What a walk has visited when it is over.
LEMMA WalkVisits ==
    ASSUME GraphAssumption, NEW held, NEW starts \in Seq(Commits), NEW stops
    PROVE  LET V == ToSet(Walk(held, starts, stops))
           IN /\ V \subseteq Commits
              /\ V \cap stops = {}
              /\ ToSet(starts) \subseteq V \cup stops
              /\ \A c \in V : ToSet(ParentsIn(held, c)) \subseteq V \cup stops
              /\ \A X : Closed(held, stops, X) /\ ToSet(starts) \ stops \subseteq X => V \subseteq X
<1> DEFINE K == Turns(starts)
           f == After(held, starts, stops)
           Exploring == {n \in Nat : n <= K =>
               /\ Explored(held, starts, stops, f[n])
               /\ \A X : Closed(held, stops, X) /\ ToSet(starts) \ stops \subseteq X => Within(stops, X, f[n])}
<1>1. K \in Nat
    BY TurnsTyped
<1>2. /\ f \in [0..K -> WalkStates] /\ f[0] = [visited |-> <<>>, queue |-> starts]
      /\ \A n \in 1..K : f[n] = WalkTurn(held, stops, f[n - 1])
    BY <1>1, AfterIsTurns
<1>3. 0 \in Exploring
    <2>1. f[0].visited = <<>> /\ f[0].queue = starts
        BY <1>2
    <2>2. ToSet(<<>>) = {}
        BY DEF ToSet
    <2>3. Explored(held, starts, stops, f[0])
        BY <2>1, <2>2 DEF Explored
    <2>4. ASSUME NEW X, ToSet(starts) \ stops \subseteq X
          PROVE  Within(stops, X, f[0])
        BY <2>1, <2>2, <2>4 DEF Within
    <2> HIDE DEF f
    <2>5. QED
        BY <2>3, <2>4
<1>9. Walk(held, starts, stops) = f[K].visited /\ f[K].queue = <<>>
    BY WalkEnds DEF Walk
<1> HIDE DEF f, K
<1>4. ASSUME NEW n \in Nat, n \in Exploring
      PROVE  n + 1 \in Exploring
    <2>1. SUFFICES ASSUME n + 1 <= K
                   PROVE  /\ Explored(held, starts, stops, f[n + 1])
                          /\ \A X : Closed(held, stops, X) /\ ToSet(starts) \ stops \subseteq X
                                    => Within(stops, X, f[n + 1])
        OBVIOUS
    <2>2. n + 1 \in 1..K /\ (n + 1) - 1 = n /\ n \in 0..K
        BY <1>1, <2>1
    <2>3. f[n + 1] = WalkTurn(held, stops, f[n]) /\ f[n] \in WalkStates
        BY <1>2, <2>2
    <2>4. /\ Explored(held, starts, stops, f[n])
          /\ \A X : Closed(held, stops, X) /\ ToSet(starts) \ stops \subseteq X => Within(stops, X, f[n])
        BY <1>4, <2>2
    <2>5. Explored(held, starts, stops, f[n + 1])
        BY <2>3, <2>4, TurnExplores
    <2>6. ASSUME NEW X, Closed(held, stops, X), ToSet(starts) \ stops \subseteq X
          PROVE  Within(stops, X, f[n + 1])
        BY <2>3, <2>4, <2>6, TurnExplores
    <2>7. QED
        BY <2>5, <2>6
<1>5. K \in Exploring
    <2>1. Nat \subseteq Exploring
        <3> HIDE DEF Exploring
        <3>1. QED
            BY <1>3, <1>4, NumbersByStep
    <2>2. QED
        BY <1>1, <2>1
<1> DEFINE V == ToSet(Walk(held, starts, stops))
<1>6. f[K] \in WalkStates /\ f[K].visited \in Seq(Commits)
    BY <1>1, <1>2 DEF WalkStates
<1>7. V = ToSet(f[K].visited) /\ ToSet(f[K].queue) = {} /\ V \subseteq Commits
    <2>1. ToSet(<<>>) = {}
        BY DEF ToSet
    <2>2. QED
        BY <1>6, <1>9, <2>1, ToSetFacts
<1>8. /\ V \cap stops = {} /\ ToSet(starts) \subseteq V \cup stops
      /\ \A c \in V : ToSet(ParentsIn(held, c)) \subseteq V \cup stops
    BY <1>1, <1>5, <1>7 DEF Explored
<1>10. ASSUME NEW X, Closed(held, stops, X), ToSet(starts) \ stops \subseteq X
       PROVE  V \subseteq X
    BY <1>1, <1>5, <1>7, <1>10 DEF Within
<1>11. QED
    BY <1>7, <1>8, <1>10

-----------------------------------------------------------------------------
(* Histories, and what is collected for a copy or a pack.                    *)

\* A walk from one commit.
LEMMA StartsOfOne ==
    ASSUME NEW c \in Commits
    PROVE  <<c>> \in Seq(Commits) /\ ToSet(<<c>>) = {c}
BY DEF ToSet

\* The history of a commit has the commit and with each commit its parents, and nothing else.
LEMMA HistoryFacts ==
    ASSUME GraphAssumption, NEW c \in Commits
    PROVE  /\ History(c) \subseteq Commits /\ c \in History(c)
           /\ \A d \in History(c) : ToSet(Parents[d]) \subseteq History(c)
           /\ \A X : c \in X /\ (\A d \in X \cap Commits : ToSet(Parents[d]) \subseteq X) => History(c) \subseteq X
<1> DEFINE starts == <<c>>
<1>1. starts \in Seq(Commits) /\ ToSet(starts) = {c}
    BY StartsOfOne
<1> HIDE DEF starts
<1>2. LET V == ToSet(Walk(Commits, starts, {}))
      IN /\ V \subseteq Commits
         /\ V \cap {} = {}
         /\ ToSet(starts) \subseteq V \cup {}
         /\ \A d \in V : ToSet(ParentsIn(Commits, d)) \subseteq V \cup {}
         /\ \A X : Closed(Commits, {}, X) /\ ToSet(starts) \ {} \subseteq X => V \subseteq X
    BY <1>1, WalkVisits
<1>3. History(c) = ToSet(Walk(Commits, starts, {}))
    BY DEF History, starts
<1>4. \A d \in Commits : ParentsIn(Commits, d) = Parents[d]
    BY DEF ParentsIn
<1>5. /\ History(c) \subseteq Commits /\ c \in History(c)
      /\ \A d \in History(c) : ToSet(Parents[d]) \subseteq History(c)
    BY <1>1, <1>2, <1>3, <1>4
<1>6. ASSUME NEW X, c \in X, \A d \in X \cap Commits : ToSet(Parents[d]) \subseteq X
      PROVE  History(c) \subseteq X
    <2>1. Closed(Commits, {}, X)
        BY <1>4, <1>6 DEF Closed
    <2>2. QED
        BY <1>1, <1>2, <1>3, <1>6, <2>1
<1>7. QED
    BY <1>5, <1>6

\* What is in a history has its own history there.
LEMMA HistoryOfMember ==
    ASSUME GraphAssumption, NEW c \in Commits, NEW d \in History(c)
    PROVE  History(d) \subseteq History(c)
<1>1. d \in Commits
    BY HistoryFacts
<1>2. \A e \in History(c) \cap Commits : ToSet(Parents[e]) \subseteq History(c)
    BY HistoryFacts
<1>3. QED
    BY <1>1, <1>2, HistoryFacts

\* A finite set as a sequence has the elements of the set.
LEMMA SequenceOfSet ==
    ASSUME NEW S, IsFiniteSet(S)
    PROVE  SetToSeq(S) \in Seq(S) /\ ToSet(SetToSeq(S)) = S
<1> DEFINE n == Cardinality(S)
<1>1. n \in Nat /\ ExistsBijection(1..n, S)
    BY FS_CardinalityType
<1>2. PICK g \in Bijection(1..n, S) : TRUE
    BY <1>1 DEF ExistsBijection
<1>3. g \in [1..n -> S] /\ IsInjective(g)
    BY <1>2 DEF Bijection, Injection
<1>4. SetToSeq(S) \in [1..n -> S] /\ IsInjective(SetToSeq(S))
    BY <1>3 DEF SetToSeq
<1>5. SetToSeq(S) \in Injection(1..n, S)
    BY <1>4 DEF Injection
<1>6. Cardinality(1..n) = n
    <2>1. ASSUME NEW k \in Nat
          PROVE  Cardinality(1..k) = k
        BY FS_Interval
    <2>2. QED
        BY <1>1, <2>1
<1>7. SetToSeq(S) \in Surjection(1..n, S)
    BY <1>5, <1>6, FS_Injection
<1>8. SetToSeq(S) \in Seq(S)
    BY <1>1, <1>4, SeqDef
<1>9. QED
    BY <1>4, <1>7, <1>8 DEF ToSet, Surjection

\* What is collected has all that is wanted and all it leads to, up to what is there.
LEMMA ReachableFacts ==
    ASSUME GraphAssumption, NEW wants \in SUBSET Commits, NEW haves
    PROVE  /\ ReachableFrom(wants, haves) \subseteq Commits
           /\ wants \subseteq ReachableFrom(wants, haves) \cup haves
           /\ \A c \in ReachableFrom(wants, haves) : ToSet(Parents[c]) \subseteq ReachableFrom(wants, haves) \cup haves
<1> DEFINE starts == SetToSeq(wants)
<1>1. IsFiniteSet(wants)
    BY FS_Subset DEF GraphAssumption
<1>2. starts \in Seq(Commits) /\ ToSet(starts) = wants
    BY <1>1, SequenceOfSet, SeqMonotonic
<1> HIDE DEF starts
<1>3. LET V == ToSet(Walk(Commits, starts, haves))
      IN /\ V \subseteq Commits
         /\ V \cap haves = {}
         /\ ToSet(starts) \subseteq V \cup haves
         /\ \A d \in V : ToSet(ParentsIn(Commits, d)) \subseteq V \cup haves
    BY <1>2, WalkVisits
<1>4. ReachableFrom(wants, haves) = ToSet(Walk(Commits, starts, haves))
    BY DEF ReachableFrom, starts
<1>5. \A d \in Commits : ParentsIn(Commits, d) = Parents[d]
    BY DEF ParentsIn
<1>6. QED
    BY <1>2, <1>3, <1>4, <1>5

\* The history of what is wanted is what is collected, with the histories of what is there.
LEMMA WalksCollect ==
    ASSUME GraphAssumption, NEW wants \in SUBSET Commits, NEW haves \in SUBSET Commits,
           NEW c \in wants \cup ReachableFrom(wants, haves)
    PROVE  History(c) \subseteq ReachableFrom(wants, haves) \cup UNION {History(h) : h \in haves}
<1> DEFINE X == ReachableFrom(wants, haves) \cup UNION {History(h) : h \in haves}
<1>1. haves \subseteq X
    BY HistoryFacts
<1>2. c \in X /\ c \in Commits
    BY <1>1, ReachableFacts
<1>3. ASSUME NEW d \in X
      PROVE  ToSet(Parents[d]) \subseteq X
    <2>1. CASE d \in ReachableFrom(wants, haves)
        BY <1>1, <2>1, ReachableFacts
    <2>2. CASE d \notin ReachableFrom(wants, haves)
        <3>1. PICK h \in haves : d \in History(h)
            BY <2>2
        <3>2. ToSet(Parents[d]) \subseteq History(h)
            BY <3>1, HistoryFacts
        <3>3. QED
            BY <3>2
    <2>3. QED
        BY <2>1, <2>2
<1> HIDE DEF X
<1>4. History(c) \subseteq X
    BY <1>2, <1>3, HistoryFacts
<1>5. QED
    BY <1>4 DEF X

-----------------------------------------------------------------------------
(* Forks and their syncs.                                                    *)

\* What a walk may bring: of which commits it is made up is nothing the proof needs.
Collected ==
    UNION {History(c) : c \in Commits \cup {None}}
    \cup UNION {ReachableFrom({c}, h) : c \in Commits \cup {None}, h \in SUBSET (Commits \cup {None})}

DocType == [refs : BranchTips, nth : Nat]
HeldType == [branch : Branches \cup {None}, left : SUBSET Collected, refs : BranchTips, tip : Commits \cup {None},
             snap : DocType \cup {Absent}]

ForksTyped ==
    /\ up \in BranchTips \cup {Absent} /\ upObjects \in SUBSET Collected
    /\ fork \in DocType \cup {Absent}
    /\ pc \in [ForkRequests -> Pcs] /\ forkReq \in [ForkRequests -> HeldType]

\* None of this depends on the state.
LEMMA TypesAreConstant ==
    BranchTips' = BranchTips /\ DocType' = DocType /\ HeldType' = HeldType /\ Collected' = Collected
OBVIOUS

\* What a request is put to, and what it holds then.
LEMMA RequestStaysTyped ==
    ASSUME ForksTyped, NEW r \in ForkRequests
    PROVE  /\ \A l \in Pcs : [pc EXCEPT ![r] = l] \in [ForkRequests -> Pcs]
           /\ \A q \in HeldType : [forkReq EXCEPT ![r] = q] \in [ForkRequests -> HeldType]
           /\ \A x \in SUBSET Collected : [forkReq EXCEPT ![r].left = x] \in [ForkRequests -> HeldType]
           /\ \A x \in BranchTips : [forkReq EXCEPT ![r].refs = x] \in [ForkRequests -> HeldType]
           /\ \A x \in DocType \cup {Absent} : [forkReq EXCEPT ![r].snap = x] \in [ForkRequests -> HeldType]
           /\ \A b \in Branches, x \in Commits \cup {None} :
                 [forkReq EXCEPT ![r].branch = b, ![r].tip = x] \in [ForkRequests -> HeldType]
<1>1. pc \in [ForkRequests -> Pcs] /\ forkReq \in [ForkRequests -> HeldType] /\ forkReq[r] \in HeldType
  BY DEF ForksTyped
<1>2. \A q \in HeldType : [forkReq EXCEPT ![r] = q] \in [ForkRequests -> HeldType]
  BY <1>1
<1>3. ASSUME NEW x \in SUBSET Collected PROVE [forkReq EXCEPT ![r].left = x] \in [ForkRequests -> HeldType]
  <2>1. [forkReq[r] EXCEPT !.left = x] \in HeldType
    BY <1>1, <1>3 DEF HeldType
  <2> QED BY <1>2, <2>1
<1>4. ASSUME NEW x \in BranchTips PROVE [forkReq EXCEPT ![r].refs = x] \in [ForkRequests -> HeldType]
  <2>1. [forkReq[r] EXCEPT !.refs = x] \in HeldType
    BY <1>1, <1>4 DEF HeldType
  <2> QED BY <1>2, <2>1
<1>5. ASSUME NEW x \in DocType \cup {Absent} PROVE [forkReq EXCEPT ![r].snap = x] \in [ForkRequests -> HeldType]
  <2>1. [forkReq[r] EXCEPT !.snap = x] \in HeldType
    BY <1>1, <1>5 DEF HeldType
  <2> QED BY <1>2, <2>1
<1>6. ASSUME NEW b \in Branches, NEW x \in Commits \cup {None}
      PROVE  [forkReq EXCEPT ![r].branch = b, ![r].tip = x] \in [ForkRequests -> HeldType]
  <2>1. [forkReq[r] EXCEPT !.branch = b, !.tip = x] \in HeldType
    BY <1>1, <1>6 DEF HeldType
  <2>2. [forkReq EXCEPT ![r].branch = b, ![r].tip = x] = [forkReq EXCEPT ![r] = [forkReq[r] EXCEPT !.branch = b, !.tip = x]]
    BY <1>1
  <2> QED BY <1>2, <2>1, <2>2
<1>7. \A l \in Pcs : [pc EXCEPT ![r] = l] \in [ForkRequests -> Pcs]
  BY <1>1
<1> QED BY <1>2, <1>3, <1>4, <1>5, <1>6, <1>7

\* What a request is before it begins.
LEMMA NoForkRequestIsTyped == EMPTY \in BranchTips /\ NoForkRequest \in HeldType
<1>1. EMPTY \in BranchTips
  BY DEF EMPTY, BranchTips
<1> QED BY <1>1 DEF NoForkRequest, HeldType

\* What a request is when it has ended.
LEMMA EndedIsTyped ==
    ASSUME ForksTyped, NEW r \in ForkRequests, Ended(r)
    PROVE  pc' \in [ForkRequests -> Pcs] /\ forkReq' \in [ForkRequests -> HeldType]
<1>1. "done" \in Pcs /\ "idle" \in Pcs
  BY DEF Pcs
<1> QED BY <1>1, NoForkRequestIsTyped, RequestStaysTyped DEF Ended, Goto

\* forks/service.ts: documents, places and what requests hold have their types.
LEMMA ForksTypedKept == ASSUME ForksTyped, [Next]_vars PROVE ForksTyped'
<1>1. /\ up \in BranchTips \cup {Absent} /\ upObjects \in SUBSET Collected /\ fork \in DocType \cup {Absent}
      /\ pc \in [ForkRequests -> Pcs] /\ forkReq \in [ForkRequests -> HeldType]
  BY DEF ForksTyped
<1>2. Forker \in ForkRequests /\ Syncers \subseteq ForkRequests
  BY DEF ForkRequests
<1>3. readRepoRefs(up) \in BranchTips
  BY <1>1, NoForkRequestIsTyped DEF readRepoRefs
<1>4. ASSUME NEW r \in ForkRequests PROVE forkReq[r] \in HeldType
  BY <1>1
<1>5. ASSUME NEW r \in ForkRequests, NEW l \in Pcs, Goto(r, l) PROVE pc' \in [ForkRequests -> Pcs]
  BY <1>5, RequestStaysTyped DEF Goto
\* What leaves the upstream, the fork's document and the places typed.
<1>6. ASSUME UNCHANGED <<upstreamVars, fork>>, pc' \in [ForkRequests -> Pcs], forkReq' \in [ForkRequests -> HeldType]
      PROVE  ForksTyped'
  BY <1>1, <1>6, TypesAreConstant DEF ForksTyped, upstreamVars
<1>7. CASE Provision
  <2>1. [refs |-> EMPTY, nth |-> 1] \in DocType
    BY NoForkRequestIsTyped DEF DocType
  <2>2. pc' \in [ForkRequests -> Pcs] /\ forkReq' \in [ForkRequests -> HeldType]
    <3>1. "copy" \in Pcs
      BY DEF Pcs
    <3> QED BY <1>1, <1>2, <1>5, <1>7, <3>1, RequestStaysTyped DEF Provision
  <2>3. UNCHANGED upstreamVars /\ fork' \in DocType
    BY <1>7, <2>1 DEF Provision
  <2> QED BY <1>1, <2>2, <2>3, TypesAreConstant DEF ForksTyped, upstreamVars
<1>8. ASSUME NEW r \in ForkRequests, NEW c \in forkReq[r].left, pc' = pc, UNCHANGED <<upstreamVars, fork>>,
             forkReq' = [forkReq EXCEPT ![r].left = forkReq[r].left \ {c}]
      PROVE  ForksTyped'
  <2>1. forkReq[r].left \ {c} \in SUBSET Collected
    BY <1>4 DEF HeldType
  <2>2. forkReq' \in [ForkRequests -> HeldType]
    BY <1>8, <2>1, RequestStaysTyped
  <2> QED BY <1>1, <1>6, <1>8, <2>2
<1>9. CASE CopyObject
  <2>1. PICK c \in forkReq[Forker].left : forkReq' = [forkReq EXCEPT ![Forker].left = @ \ {c}]
    BY <1>9 DEF CopyObject
  <2> QED BY <1>2, <1>8, <1>9, <2>1 DEF CopyObject
<1>10. ASSUME NEW s \in Syncers, MirrorObject(s) PROVE ForksTyped'
  <2>1. PICK c \in forkReq[s].left : forkReq' = [forkReq EXCEPT ![s].left = @ \ {c}]
    BY <1>10 DEF MirrorObject
  <2> QED BY <1>2, <1>8, <1>10, <2>1 DEF MirrorObject
<1>11. CASE ReadSource
  <2>1. "snapshot" \in Pcs
    BY DEF Pcs
  <2>2. pc' \in [ForkRequests -> Pcs] /\ forkReq' \in [ForkRequests -> HeldType]
    BY <1>2, <1>3, <1>5, <1>11, <2>1, RequestStaysTyped DEF ReadSource
  <2> QED BY <1>6, <1>11, <2>2 DEF ReadSource, forkVars
<1>12. ASSUME NEW r \in ForkRequests, Ended(r), UNCHANGED <<upstreamVars, fork>> PROVE ForksTyped'
  BY <1>6, <1>12, EndedIsTyped
<1>13. ASSUME NEW r \in ForkRequests, NEW l \in Pcs, Goto(r, l), forkReq' = forkReq, UNCHANGED <<upstreamVars, fork>>
       PROVE  ForksTyped'
  BY <1>1, <1>5, <1>6, <1>13
<1>14. CASE InsertEdge \/ DeleteRow
  BY <1>2, <1>12, <1>14 DEF InsertEdge, DeleteRow
<1>15. {"rollback", "deleteRow", "snapshot", "cas", "edge", "read", "mirror", "project"} \subseteq Pcs
  BY DEF Pcs
<1>16. CASE EdgeRefused \/ ForkFails
  BY <1>2, <1>13, <1>15, <1>16 DEF EdgeRefused, ForkFails, forkVars
<1>17. CASE Rollback
  <2>1. fork' = Absent /\ forkReq' = forkReq /\ UNCHANGED upstreamVars /\ pc' \in [ForkRequests -> Pcs]
    BY <1>2, <1>5, <1>15, <1>17 DEF Rollback
  <2> QED BY <1>1, <2>1, TypesAreConstant DEF ForksTyped, upstreamVars
<1>18. ASSUME NEW s \in Syncers, StartSync(s) PROVE ForksTyped'
  <2>1. PICK b \in Branches :
           readRepoRefs(up)[b] # None /\ forkReq' = [forkReq EXCEPT ![s].branch = b, ![s].tip = up[b]]
    BY <1>18 DEF StartSync
  <2>2. up[b] \in Commits \cup {None}
    BY <1>1, <2>1 DEF readRepoRefs, EMPTY, BranchTips
  <2>3. forkReq' \in [ForkRequests -> HeldType]
    BY <1>2, <2>1, <2>2, RequestStaysTyped
  <2>4. pc' \in [ForkRequests -> Pcs]
    BY <1>2, <1>5, <1>15, <1>18 DEF StartSync
  <2> QED BY <1>6, <1>18, <2>3, <2>4 DEF StartSync, forkVars
<1>19. ASSUME NEW s \in Syncers, ReadFork(s) PROVE ForksTyped'
  <2> DEFINE tip == forkReq[s].tip
             forkTip == IF fork = Absent THEN None ELSE fork.refs[forkReq[s].branch]
             haves == {forkTip} \ {None}
  <2>1. CASE Ended(s)
    BY <1>2, <1>12, <1>19, <2>1 DEF ReadFork, forkVars
  <2>2. CASE /\ forkReq' = [forkReq EXCEPT ![s].left = ReachableFrom({tip}, haves)] /\ Goto(s, "mirror")
             /\ CanCollect(upObjects, {tip}, haves)
    <3>1. ReachableFrom({tip}, haves) \in SUBSET Collected
      BY <1>1, <2>2 DEF CanCollect
    <3>2. forkReq' \in [ForkRequests -> HeldType]
      BY <1>2, <2>2, <3>1, RequestStaysTyped
    <3>3. pc' \in [ForkRequests -> Pcs]
      BY <1>2, <1>5, <1>15, <2>2
    <3> QED BY <1>6, <1>19, <3>2, <3>3 DEF ReadFork, forkVars
  <2> QED BY <1>19, <2>1, <2>2 DEF ReadFork
<1>20. ASSUME NEW s \in Syncers, Mirrored(s) PROVE ForksTyped'
  BY <1>2, <1>13, <1>15, <1>20 DEF Mirrored, forkVars
<1>21. ASSUME NEW r \in ForkRequests, Snapshot(r) PROVE ForksTyped'
  <2>1. forkReq' \in [ForkRequests -> HeldType] /\ pc' \in [ForkRequests -> Pcs]
    BY <1>1, <1>5, <1>15, <1>21, RequestStaysTyped DEF Snapshot
  <2> QED BY <1>6, <1>21, <2>1 DEF Snapshot, forkVars
<1>22. ASSUME NEW r \in ForkRequests, CommitRefs(r) PROVE ForksTyped'
  <2>1. fork \in DocType /\ forkReq[r].snap \in DocType /\ fork.nth + 1 \in Nat
    BY <1>1, <1>4, <1>22 DEF CommitRefs, EtagMatches, HeldType, DocType
  <2>2. mutateRefs(r) \in BranchTips
    <3>1. forkReq[r].refs \in BranchTips /\ forkReq[r].tip \in Commits \cup {None}
      BY <1>4 DEF HeldType
    <3>2. forkReq[r].snap.refs \in BranchTips
      BY <2>1 DEF DocType
    <3> QED BY <3>1, <3>2 DEF mutateRefs, BranchTips
  <2>3. fork' \in DocType
    BY <1>22, <2>1, <2>2 DEF CommitRefs, DocType
  <2>4. forkReq' = forkReq /\ UNCHANGED upstreamVars /\ pc' \in [ForkRequests -> Pcs]
    BY <1>5, <1>15, <1>22 DEF CommitRefs
  <2> QED BY <1>1, <2>3, <2>4, TypesAreConstant DEF ForksTyped, upstreamVars
<1>23. ASSUME NEW r \in ForkRequests, CommitRefused(r) \/ Project(r) PROVE ForksTyped'
  <2>1. UNCHANGED <<upstreamVars, fork>>
    BY <1>23 DEF CommitRefused, Project, forkVars
  <2>2. Ended(r) \/ (\E l \in {"rollback", "edge"} : Goto(r, l) /\ forkReq' = forkReq)
    BY <1>23 DEF CommitRefused, Project
  <2> QED BY <1>12, <1>13, <1>15, <2>1, <2>2
<1>24. CASE PushUpstream
  <2>1. PICK b \in Branches, c \in Commits \cup {None} :
           /\ up' = [up EXCEPT ![b] = c]
           /\ upObjects' = upObjects \cup (IF c = None THEN {} ELSE History(c) \ upObjects)
    BY <1>24 DEF PushUpstream
  <2>2. up' \in BranchTips
    BY <1>1, <1>24, <2>1 DEF PushUpstream, BranchTips
  <2>3. upObjects' \in SUBSET Collected
    <3>1. History(c) \subseteq Collected
      BY DEF Collected
    <3> QED BY <1>1, <2>1, <3>1
  <2>4. UNCHANGED <<fork, pc, forkReq>>
    BY <1>24 DEF PushUpstream, forkVars
  <2> QED BY <1>1, <2>2, <2>3, <2>4, TypesAreConstant DEF ForksTyped
<1>25. CASE PushFork
  <2>1. PICK b \in Branches, c \in Commits \cup {None} :
           fork' = [refs |-> [fork.refs EXCEPT ![b] = c], nth |-> fork.nth + 1]
    BY <1>25 DEF PushFork
  <2>2. fork \in DocType /\ fork.nth + 1 \in Nat
    BY <1>1, <1>25 DEF PushFork, DocType
  <2>3. fork' \in DocType
    BY <2>1, <2>2 DEF DocType, BranchTips
  <2>4. UNCHANGED <<upstreamVars, pc, forkReq>>
    BY <1>25 DEF PushFork
  <2> QED BY <1>1, <2>3, <2>4, TypesAreConstant DEF ForksTyped, upstreamVars
<1>26. CASE DeleteUpstream
  <2>1. up' = Absent /\ upObjects' = {} /\ UNCHANGED <<fork, pc, forkReq>>
    BY <1>26 DEF DeleteUpstream
  <2> QED BY <1>1, <2>1, TypesAreConstant DEF ForksTyped
<1>27. CASE RollbackFails
  BY <1>2, <1>12, <1>13, <1>15, <1>27 DEF RollbackFails, forkVars
<1>28. ASSUME NEW r \in ForkRequests, RequestDies(r) PROVE ForksTyped'
  BY <1>12, <1>28 DEF RequestDies, forkVars
<1>29. CASE UNCHANGED vars
  BY <1>1, <1>6, <1>29 DEF vars, forkVars
<1> QED BY <1>7, <1>9, <1>10, <1>11, <1>14, <1>16, <1>17, <1>18, <1>19, <1>20, <1>21, <1>22, <1>23, <1>24, <1>25,
           <1>26, <1>27, <1>28, <1>29
        DEF Next, ForkRequest, SyncRequest, WriteRefs

\* forks/service.ts: documents, places and what requests hold have their types in every state.
THEOREM ForksStayTyped == Spec => []ForksTyped
<1>1. Init => ForksTyped
  <2> SUFFICES ASSUME Init PROVE ForksTyped
    OBVIOUS
  <2>1. up \in BranchTips /\ upObjects = UNION {History(up[b]) : b \in Branches}
    BY DEF Init
  <2>2. \A b \in Branches : up[b] \in Commits \cup {None}
    BY <2>1 DEF BranchTips
  <2>3. upObjects \in SUBSET Collected
    BY <2>1, <2>2 DEF Collected
  <2>4. "idle" \in Pcs
    BY DEF Pcs
  <2> QED BY <2>1, <2>3, <2>4, NoForkRequestIsTyped DEF Init, ForksTyped
<1>2. ForksTyped /\ [Next]_vars => ForksTyped'
  BY ForksTypedKept
<1> QED BY <1>1, <1>2, PTL DEF Spec

\* forks/service.ts, syncFork: only the write of the fork's document moves a sync on to what follows it.
LEMMA SyncWrites ==
    ASSUME ForksTyped, Next, NEW s \in Syncers, pc[s] = "cas", pc'[s] = "project"
    PROVE  CommitRefs(s)
<1>1. pc \in [ForkRequests -> Pcs] /\ s \in ForkRequests /\ Forker \in ForkRequests /\ s # Forker
  BY ForksAssumption DEF ForksTyped, ForkRequests
<1>2. ASSUME NEW r \in ForkRequests, NEW l, Goto(r, l) PROVE r = s /\ l = "project"
  BY <1>1, <1>2 DEF Goto
<1>3. ASSUME NEW r \in ForkRequests, Ended(r) PROVE FALSE
  BY <1>2, <1>3 DEF Ended
<1>4. ASSUME pc' = pc PROVE FALSE
  BY <1>4
<1>5. ~ForkRequest
  BY <1>1, <1>2, <1>3, <1>4
     DEF ForkRequest, Provision, CopyObject, ReadSource, InsertEdge, EdgeRefused, Rollback, DeleteRow
<1>6. ASSUME NEW t \in Syncers PROVE ~SyncRequest(t)
  <2>1. t \in ForkRequests
    BY DEF ForkRequests
  <2> QED BY <1>2, <1>3, <1>4, <2>1 DEF SyncRequest, StartSync, ReadFork, MirrorObject, Mirrored
<1>7. ~(PushUpstream \/ PushFork \/ DeleteUpstream \/ ForkFails \/ RollbackFails)
  BY <1>1, <1>2, <1>3, <1>4 DEF PushUpstream, PushFork, DeleteUpstream, ForkFails, RollbackFails
<1>8. ASSUME NEW r \in ForkRequests, WriteRefs(r) PROVE CommitRefs(s)
  BY <1>2, <1>3, <1>8 DEF WriteRefs, Snapshot, CommitRefs, CommitRefused, Project
<1>9. ASSUME NEW r \in ForkRequests PROVE ~RequestDies(r)
  BY <1>3 DEF RequestDies
<1> QED BY <1>5, <1>6, <1>7, <1>8, <1>9 DEF Next

\* forks/service.ts, syncFork: a sync leaves every branch but its own where the document had it, whoever
\* pushed to the fork while it ran.
THEOREM SyncsMoveOneBranch == Spec => SyncMovesOneBranch
<1> DEFINE Others(s) == \A b \in Branches \ {forkReq[s].branch} : fork'.refs[b] = fork.refs[b]
<1>1. ForksTyped /\ [Next]_vars => [\A s \in Syncers : pc[s] = "cas" /\ pc'[s] = "project" => Others(s)]_vars
  <2> SUFFICES ASSUME ForksTyped, Next, NEW s \in Syncers, pc[s] = "cas", pc'[s] = "project",
                      NEW b \in Branches, b # forkReq[s].branch
               PROVE  fork'.refs[b] = fork.refs[b]
    OBVIOUS
  <2>1. CommitRefs(s)
    BY SyncWrites
  <2>2. fork \in DocType /\ forkReq[s].snap = fork /\ s # Forker
    BY <2>1, ForksAssumption DEF CommitRefs, EtagMatches, ForksTyped
  <2>3. fork' = [refs |-> [fork.refs EXCEPT ![forkReq[s].branch] = forkReq[s].tip], nth |-> fork.nth + 1]
    BY <2>1, <2>2 DEF CommitRefs, mutateRefs
  <2> QED BY <2>2, <2>3 DEF DocType, BranchTips
<1> QED BY <1>1, ForksStayTyped, PTL DEF Spec, SyncMovesOneBranch

-----------------------------------------------------------------------------
\* All that a branch of a document needs is in a store.
WholeIn(tips, stored) == \A b \in Branches : tips[b] # None => History(tips[b]) \subseteq stored

UpstreamIsWhole == up # Absent => WholeIn(up, upObjects)
ForkIsWhole == fork # Absent => WholeIn(fork.refs, objects \cup late)
BeginsWithTheFork == pc[Forker] = "idle" => forkRow = None /\ fork = Absent /\ \A s \in Syncers : pc[s] = "idle"

\* What a request relies on, where it is.
RequestIsSound(r) ==
    LET q == forkReq[r]
    IN /\ pc[r] \in {"copy", "edge", "rollback", "deleteRow", "done"} => r = Forker
       /\ pc[r] \in {"read", "mirror"} => r \in Syncers
       /\ pc[r] \in {"copy", "mirror"} => q.left \subseteq upObjects \cup late
       /\ pc[r] = "copy" => upObjects \subseteq objects \cup q.left \cup late
       /\ pc[r] = "mirror" /\ fork # Absent => History(q.tip) \subseteq objects \cup q.left \cup late
       /\ r \in Syncers /\ pc[r] # "idle" => q.branch \in Branches /\ q.tip \in Commits
       /\ pc[r] \in {"snapshot", "cas"} /\ fork # Absent =>
             IF r = Forker THEN WholeIn(q.refs, objects \cup late) ELSE History(q.tip) \subseteq objects \cup late

CopiesInv ==
    /\ UpstreamIsWhole /\ ForkIsWhole /\ BeginsWithTheFork
    /\ \A r \in ForkRequests : RequestIsSound(r)

\* forks/service.ts: a request that is not at work relies on nothing that the step of another changes.
LEMMA RequestStaysSound ==
    ASSUME NEW r \in ForkRequests, RequestIsSound(r), pc'[r] = pc[r], forkReq'[r] = forkReq[r],
           late \subseteq late', pc[r] = "copy" => upObjects' \subseteq upObjects \cup late',
           pc[r] \in {"copy", "mirror"} => upObjects \subseteq upObjects' \/ forkReq[r].left \subseteq late',
           objects \subseteq objects' \/ (fork' = Absent /\ pc[r] # "copy"),
           fork # Absent \/ fork' = Absent \/ pc[r] = "idle"
    PROVE  RequestIsSound(r)'
BY DEF RequestIsSound, WholeIn

\* A request that has answered, or died, relies on nothing.
LEMMA EndedIsSound ==
    ASSUME ForksTyped, NEW r \in ForkRequests, Ended(r)
    PROVE  RequestIsSound(r)' /\ (r # Forker => pc'[r] = "idle")
<1>1. pc'[r] = IF r = Forker THEN "done" ELSE "idle"
  BY DEF Ended, Goto, ForksTyped
<1> QED BY <1>1, ForksAssumption DEF RequestIsSound, ForkRequests

\* The steps of one request: what the others have is as it was.
OnlyMoves(r) ==
    \A o \in ForkRequests \ {r} : pc'[o] = pc[o] /\ forkReq'[o] = forkReq[o]

\* What moves one request leaves the others where they are.
LEMMA OthersRest ==
    ASSUME ForksTyped, NEW r \in ForkRequests
    PROVE  /\ Ended(r) => OnlyMoves(r)
           /\ \A l : Goto(r, l) /\ (forkReq' = forkReq \/ \E q : forkReq' = [forkReq EXCEPT ![r] = q]) => OnlyMoves(r)
           /\ \A l : Goto(r, l) => pc'[r] = l
           /\ \A q : forkReq' = [forkReq EXCEPT ![r] = q] => forkReq'[r] = q
BY DEF OnlyMoves, Ended, Goto, ForksTyped

\* A step of one request that takes nothing from either store or document keeps the invariant, if
\* what the request itself relies on is there.
LEMMA OneStepKeeps ==
    ASSUME CopiesInv, NEW r \in ForkRequests, OnlyMoves(r), UNCHANGED upstreamVars,
           objects \subseteq objects', fork' = fork, pc'[Forker] # "idle",
           RequestIsSound(r)'
    PROVE  CopiesInv'
<1>1. UNCHANGED <<up, upObjects, late>>
  BY DEF upstreamVars
<1>2. UpstreamIsWhole'
  BY <1>1 DEF CopiesInv, UpstreamIsWhole, WholeIn
<1>3. ForkIsWhole'
  BY <1>1 DEF CopiesInv, ForkIsWhole, WholeIn
<1>4. ASSUME NEW o \in ForkRequests, o # r PROVE RequestIsSound(o)'
  <2>1. fork # Absent \/ fork' = Absent
    OBVIOUS
  <2> QED BY <1>1, <1>4, <2>1, RequestStaysSound DEF CopiesInv, OnlyMoves
<1> QED BY <1>2, <1>3, <1>4 DEF CopiesInv, BeginsWithTheFork

\* forks/service.ts, the request that forks: what is copied is there until the refs are read.
LEMMA ForkingKeeps ==
    ASSUME GraphAssumption, ForksAssumption, ForksTyped, CopiesInv, ForkRequest
    PROVE  CopiesInv'
<1>1. /\ up \in BranchTips \cup {Absent} /\ fork \in DocType \cup {Absent}
      /\ pc \in [ForkRequests -> Pcs] /\ forkReq \in [ForkRequests -> HeldType]
  BY DEF ForksTyped
<1>2. Forker \in ForkRequests /\ Forker \notin Syncers
  BY DEF ForkRequests
<1>3. RequestIsSound(Forker) /\ UpstreamIsWhole /\ ForkIsWhole /\ BeginsWithTheFork
  BY <1>2 DEF CopiesInv
<1>4. CASE Provision
  <2>1. OnlyMoves(Forker) /\ pc'[Forker] = "copy" /\ forkReq'[Forker].left = upObjects
    BY <1>1, <1>2, <1>4 DEF Provision, Goto, OnlyMoves, HeldType
  <2>2. \A o \in ForkRequests \ {Forker} : pc[o] = "idle"
    BY <1>3, <1>4 DEF BeginsWithTheFork, Provision, ForkRequests
  <2>3. UNCHANGED <<up, upObjects, late, objects>> /\ fork' = [refs |-> EMPTY, nth |-> 1]
    BY <1>4 DEF Provision, upstreamVars
  <2>4. ASSUME NEW o \in ForkRequests, o # Forker PROVE RequestIsSound(o)'
    BY <2>1, <2>2, <2>4, <1>2 DEF OnlyMoves, RequestIsSound, ForkRequests
  <2>5. RequestIsSound(Forker)'
    BY <1>2, <2>1, <2>3 DEF RequestIsSound
  <2>6. ForkIsWhole' /\ UpstreamIsWhole'
    BY <1>3, <2>3 DEF ForkIsWhole, UpstreamIsWhole, WholeIn, EMPTY
  <2>7. BeginsWithTheFork'
    BY <2>1 DEF BeginsWithTheFork
  <2> QED BY <2>4, <2>5, <2>6, <2>7 DEF CopiesInv
<1>5. CASE CopyObject
  <2>1. PICK c \in forkReq[Forker].left :
           /\ objects' = objects \cup ({c} \cap upObjects)
           /\ forkReq' = [forkReq EXCEPT ![Forker].left = @ \ {c}]
    BY <1>5 DEF CopyObject
  <2>2. /\ UNCHANGED <<upRow, up, upObjects, late, forkRow, fork, pc>> /\ pc[Forker] = "copy"
        /\ UNCHANGED upstreamVars
    BY <1>5 DEF CopyObject, upstreamVars
  <2>3. OnlyMoves(Forker) /\ forkReq'[Forker].left = forkReq[Forker].left \ {c}
    BY <1>1, <1>2, <2>1, <2>2 DEF OnlyMoves, HeldType
  <2>4. RequestIsSound(Forker)'
    BY <1>2, <1>3, <2>1, <2>2, <2>3 DEF RequestIsSound
  <2> QED BY <1>2, <2>1, <2>2, <2>3, <2>4, OneStepKeeps
<1>6. CASE ReadSource
  <2>1. /\ pc[Forker] = "copy" /\ forkReq[Forker].left = {} /\ Goto(Forker, "snapshot")
        /\ forkReq' = [forkReq EXCEPT ![Forker].refs = readRepoRefs(up)]
        /\ UNCHANGED <<upstreamVars, upRow, up, upObjects, late, forkRow, fork, objects>>
    BY <1>6 DEF ReadSource, upstreamVars, forkVars
  <2>2. OnlyMoves(Forker) /\ pc'[Forker] = "snapshot" /\ forkReq'[Forker].refs = readRepoRefs(up)
    BY <1>1, <1>2, <2>1 DEF OnlyMoves, Goto, HeldType
  <2>3. upObjects \subseteq objects \cup late
    BY <1>3, <2>1 DEF RequestIsSound
  <2>4. WholeIn(readRepoRefs(up), objects \cup late)
    BY <1>3, <2>3 DEF UpstreamIsWhole, WholeIn, readRepoRefs, EMPTY
  <2>5. RequestIsSound(Forker)'
    BY <1>2, <2>1, <2>2, <2>4 DEF RequestIsSound, WholeIn
  <2> QED BY <1>2, <2>1, <2>2, <2>5, OneStepKeeps
<1>7. CASE InsertEdge \/ DeleteRow
  <2>1. Ended(Forker) /\ UNCHANGED <<upstreamVars, fork, objects>>
    BY <1>7 DEF InsertEdge, DeleteRow
  <2>2. pc'[Forker] = "done"
    BY <1>1, <1>2, <2>1 DEF Ended, Goto
  <2> QED BY <1>2, <2>1, <2>2, EndedIsSound, OthersRest, OneStepKeeps
<1>8. CASE EdgeRefused
  <2>1. Goto(Forker, "rollback") /\ forkReq' = forkReq /\ UNCHANGED <<upstreamVars, fork, objects>>
    BY <1>8 DEF EdgeRefused, forkVars
  <2>2. pc'[Forker] = "rollback" /\ OnlyMoves(Forker)
    BY <1>2, <2>1, OthersRest
  <2>3. RequestIsSound(Forker)'
    BY <1>2, <2>2 DEF RequestIsSound
  <2> QED BY <1>2, <2>1, <2>2, <2>3, OneStepKeeps
<1>9. CASE Rollback
  <2>1. /\ Goto(Forker, "deleteRow") /\ forkReq' = forkReq /\ UNCHANGED <<up, upObjects, late>>
        /\ pc[Forker] = "rollback" /\ fork' = Absent
    BY <1>9 DEF Rollback, upstreamVars
  <2>2. pc'[Forker] = "deleteRow" /\ OnlyMoves(Forker)
    BY <1>2, <2>1, OthersRest
  <2>3. RequestIsSound(Forker)'
    BY <1>2, <2>2 DEF RequestIsSound
  <2>4. ASSUME NEW o \in ForkRequests, o # Forker PROVE RequestIsSound(o)'
    <3>1. RequestIsSound(o) /\ pc'[o] = pc[o] /\ forkReq'[o] = forkReq[o]
      BY <2>2, <2>4 DEF CopiesInv, OnlyMoves
    <3>2. pc[o] # "copy"
      BY <2>4, <3>1 DEF RequestIsSound
    <3> QED BY <2>1, <3>1, <3>2, RequestStaysSound
  <2>5. UpstreamIsWhole' /\ ForkIsWhole' /\ BeginsWithTheFork'
    BY <1>3, <2>1, <2>2 DEF UpstreamIsWhole, ForkIsWhole, BeginsWithTheFork, WholeIn
  <2> QED BY <2>3, <2>4, <2>5 DEF CopiesInv
<1> QED BY <1>4, <1>5, <1>6, <1>7, <1>8, <1>9 DEF ForkRequest

\* forks/service.ts, syncFork: what is collected is copied, and what is not collected the fork has.
LEMMA SyncingKeeps ==
    ASSUME GraphAssumption, ForksAssumption, ForksTyped, CopiesInv, NEW s \in Syncers, SyncRequest(s)
    PROVE  CopiesInv'
<1>1. /\ up \in BranchTips \cup {Absent} /\ fork \in DocType \cup {Absent}
      /\ pc \in [ForkRequests -> Pcs] /\ forkReq \in [ForkRequests -> HeldType]
  BY DEF ForksTyped
<1>2. s \in ForkRequests /\ s # Forker /\ Forker \in ForkRequests
  BY DEF ForkRequests
<1>3. RequestIsSound(s) /\ UpstreamIsWhole /\ ForkIsWhole /\ BeginsWithTheFork /\ forkReq[s] \in HeldType
  BY <1>1, <1>2 DEF CopiesInv
\* A sync begins only when there is a fork to bring up to date.
<1>4. pc[Forker] # "idle"
  BY <1>3 DEF BeginsWithTheFork, SyncRequest, StartSync, ReadFork, MirrorObject, Mirrored
<1>5. ASSUME OnlyMoves(s) PROVE pc'[Forker] # "idle"
  BY <1>2, <1>4, <1>5 DEF OnlyMoves
<1>6. CASE StartSync(s)
  <2>1. PICK b \in Branches :
           readRepoRefs(up)[b] # None /\ forkReq' = [forkReq EXCEPT ![s].branch = b, ![s].tip = up[b]]
    BY <1>6 DEF StartSync
  <2>2. Goto(s, "read") /\ UNCHANGED <<upstreamVars, fork, objects>>
    BY <1>6 DEF StartSync, forkVars
  <2>3. up[b] \in Commits
    BY <1>1, <2>1 DEF readRepoRefs, EMPTY, BranchTips
  <2>4. pc'[s] = "read" /\ OnlyMoves(s) /\ forkReq'[s].branch = b /\ forkReq'[s].tip = up[b]
    BY <1>1, <1>2, <2>1, <2>2 DEF Goto, OnlyMoves, HeldType
  <2>5. RequestIsSound(s)'
    BY <1>2, <2>1, <2>3, <2>4 DEF RequestIsSound
  <2> QED BY <1>2, <1>5, <2>2, <2>4, <2>5, OneStepKeeps
<1>7. CASE ReadFork(s)
  <2> DEFINE tip == forkReq[s].tip
             forkTip == IF fork = Absent THEN None ELSE fork.refs[forkReq[s].branch]
             haves == {forkTip} \ {None}
             collected == ReachableFrom({tip}, haves)
  <2>1. UNCHANGED <<upstreamVars, fork, objects, upObjects, late>> /\ pc[s] = "read"
    BY <1>7 DEF ReadFork, forkVars, upstreamVars
  <2>2. CASE Ended(s)
    BY <1>2, <1>5, <2>1, <2>2, EndedIsSound, OthersRest, OneStepKeeps
  <2>3. CASE /\ CanCollect(upObjects, {tip}, haves)
             /\ forkReq' = [forkReq EXCEPT ![s].left = collected] /\ Goto(s, "mirror")
    <3>1. tip \in Commits /\ forkReq[s].branch \in Branches
      BY <1>2, <1>3, <2>1 DEF RequestIsSound
    <3>2. haves \in SUBSET Commits
      BY <1>1, <3>1 DEF DocType, BranchTips
    <3>3. History(tip) \subseteq collected \cup UNION {History(h) : h \in haves}
      <4> HIDE DEF tip, haves
      <4>1. {tip} \in SUBSET Commits /\ tip \in {tip} \cup collected
        BY <3>1
      <4> QED BY <3>2, <4>1, WalksCollect
    <3>4. fork # Absent => UNION {History(h) : h \in haves} \subseteq objects \cup late
      BY <1>3, <3>1 DEF ForkIsWhole, WholeIn
    <3>5. collected \subseteq upObjects
      BY <2>3 DEF CanCollect
    <3> HIDE DEF collected
    <3>6. /\ pc'[s] = "mirror" /\ OnlyMoves(s) /\ forkReq'[s].left = collected
          /\ forkReq'[s].tip = tip /\ forkReq'[s].branch = forkReq[s].branch
      BY <1>1, <1>2, <1>3, <2>3 DEF Goto, OnlyMoves, HeldType
    <3>7. fork # Absent => History(tip) \subseteq objects \cup collected \cup late
      BY <3>3, <3>4
    <3> HIDE DEF tip, haves
    <3>8. RequestIsSound(s)'
      BY <1>2, <2>1, <3>1, <3>5, <3>6, <3>7 DEF RequestIsSound
    <3> QED BY <1>2, <1>5, <2>1, <3>6, <3>8, OneStepKeeps
  <2> QED BY <1>7, <2>2, <2>3 DEF ReadFork
<1>8. CASE MirrorObject(s)
  <2>1. PICK c \in forkReq[s].left :
           /\ objects' = objects \cup ({c} \cap upObjects)
           /\ forkReq' = [forkReq EXCEPT ![s].left = @ \ {c}]
    BY <1>8 DEF MirrorObject
  <2>2. pc[s] = "mirror" /\ UNCHANGED <<upstreamVars, upObjects, late, fork, pc>>
    BY <1>8 DEF MirrorObject, upstreamVars
  <2>3. /\ OnlyMoves(s) /\ forkReq'[s].left = forkReq[s].left \ {c}
        /\ forkReq'[s].tip = forkReq[s].tip /\ forkReq'[s].branch = forkReq[s].branch
    BY <1>1, <1>2, <1>3, <2>1, <2>2 DEF OnlyMoves, HeldType
  <2>4. RequestIsSound(s)'
    BY <1>2, <1>3, <2>1, <2>2, <2>3 DEF RequestIsSound
  <2> QED BY <1>2, <1>5, <2>1, <2>2, <2>3, <2>4, OneStepKeeps
<1>9. CASE Mirrored(s)
  <2>1. /\ pc[s] = "mirror" /\ forkReq[s].left = {} /\ Goto(s, "snapshot") /\ forkReq' = forkReq
        /\ UNCHANGED <<upstreamVars, late, fork, objects>>
    BY <1>9 DEF Mirrored, forkVars, upstreamVars
  <2>2. pc'[s] = "snapshot" /\ OnlyMoves(s)
    BY <1>2, <2>1, OthersRest
  <2>3. RequestIsSound(s)'
    BY <1>2, <1>3, <2>1, <2>2 DEF RequestIsSound
  <2> QED BY <1>2, <1>5, <2>1, <2>2, <2>3, OneStepKeeps
<1> QED BY <1>6, <1>7, <1>8, <1>9 DEF SyncRequest

\* The write of the fork's document: it names only what the request that writes it has brought, and
\* what was there.
LEMMA WritingKeeps ==
    ASSUME ForksAssumption, ForksTyped, CopiesInv, NEW r \in ForkRequests, WriteRefs(r)
    PROVE  CopiesInv'
<1>1. /\ fork \in DocType \cup {Absent} /\ pc \in [ForkRequests -> Pcs] /\ forkReq \in [ForkRequests -> HeldType]
      /\ Forker \in ForkRequests /\ (r # Forker => r \in Syncers)
  BY DEF ForksTyped, ForkRequests
<1>2. RequestIsSound(r) /\ UpstreamIsWhole /\ ForkIsWhole /\ BeginsWithTheFork
  BY DEF CopiesInv
<1>3. pc[r] # "idle" /\ pc[Forker] # "idle"
  BY <1>1, <1>2 DEF WriteRefs, Snapshot, CommitRefs, CommitRefused, Project, BeginsWithTheFork
<1>4. ASSUME Ended(r) \/ \E l \in Pcs \ {"idle"} : Goto(r, l) PROVE pc'[Forker] # "idle"
  BY <1>1, <1>3, <1>4 DEF Ended, Goto
<1>5. {"rollback", "edge", "cas", "project"} \subseteq Pcs \ {"idle"}
  BY DEF Pcs
<1>6. ASSUME Ended(r), UNCHANGED <<upstreamVars, forkVars>> PROVE CopiesInv'
  BY <1>4, <1>6, EndedIsSound, OthersRest, OneStepKeeps DEF forkVars
<1>7. CASE Snapshot(r)
  <2>1. /\ pc[r] = "snapshot" /\ Goto(r, "cas") /\ forkReq' = [forkReq EXCEPT ![r].snap = fork]
        /\ UNCHANGED <<upstreamVars, late, fork, objects>>
    BY <1>7 DEF Snapshot, forkVars, upstreamVars
  <2>2. /\ pc'[r] = "cas" /\ OnlyMoves(r) /\ forkReq'[r].tip = forkReq[r].tip
        /\ forkReq'[r].branch = forkReq[r].branch /\ forkReq'[r].refs = forkReq[r].refs
    BY <1>1, <2>1 DEF Goto, OnlyMoves, HeldType
  <2>3. RequestIsSound(r)'
    BY <1>2, <2>1, <2>2 DEF RequestIsSound, WholeIn
  <2> QED BY <1>4, <1>5, <2>1, <2>2, <2>3, OneStepKeeps
<1>8. CASE CommitRefs(r)
  <2>1. /\ pc[r] = "cas" /\ forkReq[r].snap # Absent /\ fork # Absent /\ forkReq[r].snap = fork
        /\ fork' = [refs |-> mutateRefs(r), nth |-> fork.nth + 1] /\ Goto(r, "project") /\ forkReq' = forkReq
        /\ UNCHANGED <<upstreamVars, up, upObjects, late, objects>>
    BY <1>8 DEF CommitRefs, EtagMatches, upstreamVars
  <2>2. WholeIn(mutateRefs(r), objects \cup late)
    <3>1. CASE r = Forker
      BY <1>2, <2>1, <3>1 DEF RequestIsSound, mutateRefs
    <3>2. CASE r # Forker
      <4>1. mutateRefs(r) = [fork.refs EXCEPT ![forkReq[r].branch] = forkReq[r].tip] /\ fork.refs \in BranchTips
        BY <1>1, <2>1, <3>2 DEF mutateRefs, DocType
      <4>2. History(forkReq[r].tip) \subseteq objects \cup late /\ WholeIn(fork.refs, objects \cup late)
        BY <1>2, <2>1, <3>2 DEF RequestIsSound, ForkIsWhole
      <4> QED BY <4>1, <4>2 DEF WholeIn, BranchTips
    <3> QED BY <3>1, <3>2
  <2>3. ForkIsWhole' /\ UpstreamIsWhole'
    BY <1>2, <2>1, <2>2 DEF ForkIsWhole, UpstreamIsWhole, WholeIn
  <2>4. pc'[r] = "project" /\ OnlyMoves(r) /\ pc'[Forker] # "idle"
    BY <1>4, <1>5, <2>1, OthersRest
  <2>5. RequestIsSound(r)'
    BY <1>1, <1>2, <2>1, <2>4 DEF RequestIsSound
  <2>6. ASSUME NEW o \in ForkRequests, o # r PROVE RequestIsSound(o)'
    BY <2>1, <2>4, <2>6, RequestStaysSound DEF CopiesInv, OnlyMoves
  <2> QED BY <2>3, <2>4, <2>5, <2>6 DEF CopiesInv, BeginsWithTheFork
<1>9. CASE CommitRefused(r) \/ Project(r)
  <2>1. UNCHANGED <<upstreamVars, forkVars>>
    BY <1>9 DEF CommitRefused, Project
  <2>2. CASE r = Forker /\ forkReq' = forkReq /\ \E l \in {"rollback", "edge"} : Goto(r, l)
    <3>1. PICK l \in {"rollback", "edge"} : Goto(r, l)
      BY <2>2
    <3>2. pc'[r] = l /\ OnlyMoves(r)
      BY <2>2, <3>1, OthersRest
    <3>3. RequestIsSound(r)'
      BY <2>2, <3>2 DEF RequestIsSound
    <3> QED BY <1>4, <1>5, <2>1, <2>2, <3>1, <3>2, <3>3, OneStepKeeps DEF forkVars
  <2> QED BY <1>6, <1>9, <2>1, <2>2 DEF CommitRefused, Project
<1> QED BY <1>7, <1>8, <1>9 DEF WriteRefs

\* What others do to the two repositories: a push brings the history of what it moves a branch to,
\* and what it brings too late for a copy, or a deletion takes from one, is known.
LEMMA OthersKeep ==
    ASSUME ForksAssumption, ForksTyped, CopiesInv, PushUpstream \/ PushFork \/ DeleteUpstream
    PROVE  CopiesInv'
<1>1. /\ up \in BranchTips \cup {Absent} /\ fork \in DocType \cup {Absent}
      /\ UpstreamIsWhole /\ ForkIsWhole /\ BeginsWithTheFork /\ UNCHANGED <<pc, forkReq>>
  BY DEF ForksTyped, CopiesInv, PushUpstream, PushFork, DeleteUpstream
<1>2. ASSUME NEW r \in ForkRequests, objects \subseteq objects', fork' = fork \/ fork # Absent,
             late \subseteq late', pc[r] = "copy" => upObjects' \subseteq upObjects \cup late',
             pc[r] \in {"copy", "mirror"} => upObjects \subseteq upObjects' \/ forkReq[r].left \subseteq late'
      PROVE  RequestIsSound(r)'
  <2>1. RequestIsSound(r)
    BY DEF CopiesInv
  <2> QED BY <1>1, <1>2, <2>1, RequestStaysSound
<1>3. CASE PushUpstream
  <2>1. PICK b \in Branches, c \in Commits \cup {None} :
           LET brought == IF c = None THEN {} ELSE History(c) \ upObjects
           IN /\ up' = [up EXCEPT ![b] = c]
              /\ upObjects' = upObjects \cup brought
              /\ late' = late \cup (IF pc[Forker] = "copy" THEN brought ELSE {})
    BY <1>3 DEF PushUpstream
  <2>2. up \in BranchTips /\ UNCHANGED <<forkRow, fork, objects>>
    BY <1>1, <1>3 DEF PushUpstream, forkVars
  <2>3. UpstreamIsWhole'
    <3>1. \A x \in Branches : up'[x] = IF x = b THEN c ELSE up[x]
      BY <2>1, <2>2 DEF BranchTips
    <3>2. up # Absent /\ WholeIn(up, upObjects)
      BY <1>1, <1>3 DEF PushUpstream, UpstreamIsWhole
    <3>3. upObjects \subseteq upObjects' /\ (c # None => History(c) \subseteq upObjects')
      BY <2>1
    <3> QED BY <3>1, <3>2, <3>3 DEF UpstreamIsWhole, WholeIn
  <2>4. late \subseteq late'
    BY <2>1
  <2>5. ForkIsWhole' /\ BeginsWithTheFork'
    BY <1>1, <2>2, <2>4 DEF ForkIsWhole, BeginsWithTheFork, WholeIn
  <2>6. ASSUME NEW r \in ForkRequests PROVE RequestIsSound(r)'
    <3>1. pc[r] = "copy" => r = Forker
      BY DEF CopiesInv, RequestIsSound
    <3>2. pc[r] = "copy" => upObjects' \subseteq upObjects \cup late'
      BY <2>1, <3>1
    <3>3. upObjects \subseteq upObjects'
      BY <2>1
    <3> QED BY <1>2, <2>2, <2>4, <3>2, <3>3
  <2> QED BY <2>3, <2>5, <2>6 DEF CopiesInv
<1>4. CASE PushFork
  <2>1. PICK b \in Branches, c \in Commits \cup {None} :
           /\ fork' = [refs |-> [fork.refs EXCEPT ![b] = c], nth |-> fork.nth + 1]
           /\ objects' = objects \cup (IF c = None THEN {} ELSE History(c))
    BY <1>4 DEF PushFork
  <2>2. fork \in DocType /\ fork # Absent /\ UNCHANGED <<up, upObjects, late, forkRow>>
    BY <1>1, <1>4 DEF PushFork, upstreamVars
  <2>3. ForkIsWhole'
    BY <1>1, <2>1, <2>2 DEF ForkIsWhole, WholeIn, BranchTips, DocType
  <2>4. UpstreamIsWhole' /\ BeginsWithTheFork'
    BY <1>1, <2>2 DEF UpstreamIsWhole, BeginsWithTheFork, WholeIn
  <2>5. objects \subseteq objects'
    BY <2>1
  <2> QED BY <1>2, <2>2, <2>3, <2>4, <2>5 DEF CopiesInv
<1>5. CASE DeleteUpstream
  <2>1. /\ up' = Absent /\ upObjects' = {} /\ late' = late \cup ToBeCopied /\ UNCHANGED <<fork, objects>>
        /\ forkRow' = IF forkRow = None THEN None ELSE "nothing"
    BY <1>5 DEF DeleteUpstream
  <2>2. UpstreamIsWhole' /\ ForkIsWhole' /\ BeginsWithTheFork'
    BY <1>1, <2>1 DEF UpstreamIsWhole, ForkIsWhole, BeginsWithTheFork, WholeIn
  <2>3. ASSUME NEW r \in ForkRequests, pc[r] \in {"copy", "mirror"} PROVE forkReq[r].left \subseteq late'
    BY <2>1, <2>3 DEF ToBeCopied
  <2> QED BY <1>2, <2>1, <2>2, <2>3 DEF CopiesInv
<1> QED BY <1>3, <1>4, <1>5

\* What fails under a request, or ends it, takes nothing back but what the request remembered.
LEMMA FailingKeeps ==
    ASSUME ForksAssumption, ForksTyped, CopiesInv,
           ForkFails \/ RollbackFails \/ \E r \in ForkRequests : RequestDies(r)
    PROVE  CopiesInv'
<1>1. /\ UNCHANGED <<upstreamVars, fork, objects>> /\ Forker \in ForkRequests
      /\ pc \in [ForkRequests -> Pcs] /\ BeginsWithTheFork
  BY DEF ForkFails, RollbackFails, RequestDies, forkVars, ForkRequests, ForksTyped, CopiesInv
<1>2. ASSUME NEW r \in ForkRequests, Ended(r), pc[r] # "idle" PROVE CopiesInv'
  <2>1. pc'[Forker] # "idle"
    BY <1>1, <1>2 DEF Ended, Goto, BeginsWithTheFork, ForkRequests
  <2> QED BY <1>1, <1>2, <2>1, EndedIsSound, OthersRest, OneStepKeeps
<1>3. ASSUME NEW l \in {"rollback", "deleteRow"}, Goto(Forker, l), forkReq' = forkReq PROVE CopiesInv'
  <2>1. pc'[Forker] = l /\ OnlyMoves(Forker)
    BY <1>1, <1>3, OthersRest
  <2>2. RequestIsSound(Forker)'
    BY <1>1, <2>1, ForksAssumption DEF RequestIsSound
  <2> QED BY <1>1, <2>1, <2>2, OneStepKeeps
<1>4. CASE ForkFails
  BY <1>3, <1>4 DEF ForkFails
<1>5. CASE RollbackFails
  BY <1>1, <1>2, <1>3, <1>5 DEF RollbackFails
<1>6. CASE \E r \in ForkRequests : RequestDies(r)
  BY <1>2, <1>6 DEF RequestDies
<1> QED BY <1>4, <1>5, <1>6

\* forks/service.ts, repositories.ts: whatever is pushed to the upstream, or deleted, while it is copied, and
\* whatever syncs, pushes to the fork and failures meet, a branch of the fork lacks only what came late.
THEOREM ForksLackOnlyTheLate == GraphAssumption /\ ForksAssumption => (Spec => []LacksOnlyTheLate)
<1> SUFFICES ASSUME GraphAssumption, ForksAssumption PROVE Spec => []LacksOnlyTheLate
  OBVIOUS
<1>1. Init => CopiesInv
  <2> SUFFICES ASSUME Init PROVE CopiesInv
    OBVIOUS
  <2>1. up \in BranchTips /\ upObjects = UNION {History(up[b]) : b \in Branches} /\ fork = Absent /\ forkRow = None
        /\ pc = [r \in ForkRequests |-> "idle"]
    BY DEF Init
  <2>2. UpstreamIsWhole /\ ForkIsWhole
    BY <2>1 DEF UpstreamIsWhole, ForkIsWhole, WholeIn
  <2>3. BeginsWithTheFork /\ \A r \in ForkRequests : RequestIsSound(r)
    BY <2>1 DEF BeginsWithTheFork, RequestIsSound, ForkRequests
  <2> QED BY <2>2, <2>3 DEF CopiesInv
<1>2. ForksTyped /\ CopiesInv /\ [Next]_vars => CopiesInv'
  <2> SUFFICES ASSUME ForksTyped, CopiesInv, [Next]_vars PROVE CopiesInv'
    OBVIOUS
  <2>1. CASE UNCHANGED vars
    BY <2>1 DEF vars, upstreamVars, forkVars, CopiesInv, UpstreamIsWhole, ForkIsWhole, BeginsWithTheFork,
                RequestIsSound, WholeIn
  <2>2. CASE Next
    <3>1. CASE ForkRequest
      BY <3>1, ForkingKeeps
    <3>2. CASE \E s \in Syncers : SyncRequest(s)
      BY <3>2, SyncingKeeps
    <3>3. CASE \E r \in ForkRequests : WriteRefs(r)
      BY <3>3, WritingKeeps
    <3>4. CASE PushUpstream \/ PushFork \/ DeleteUpstream
      BY <3>4, OthersKeep
    <3>5. CASE ForkFails \/ RollbackFails \/ \E r \in ForkRequests : RequestDies(r)
      BY <3>5, FailingKeeps
    <3> QED BY <2>2, <3>1, <3>2, <3>3, <3>4, <3>5 DEF Next
  <2> QED BY <2>1, <2>2
<1>3. CopiesInv => LacksOnlyTheLate
  BY DEF CopiesInv, ForkIsWhole, WholeIn, LacksOnlyTheLate
<1> QED BY <1>1, <1>2, <1>3, ForksStayTyped, PTL DEF Spec

-----------------------------------------------------------------------------
(* Fetching.                                                                 *)

Fetches == [at : {"idle", "heard", "asked", "granted", "collected", "answered"},
            heard : [FetchBranches -> Commits \cup {NoCommit}], wants : SUBSET Commits,
            haves : SUBSET Commits, pack : SUBSET Commits]

\* A clone has with each commit its history, and what its branches were moved to; the client says only what
\* it has, and a pack is what was collected.
CloneIsSound(k) ==
    /\ \A c \in mine[k] : History(c) \subseteq mine[k]
    /\ \A b \in FetchBranches : tracked[k][b] # NoCommit => tracked[k][b] \in mine[k]
    /\ fetch[k].haves \subseteq mine[k]
    /\ fetch[k].at \in {"collected", "answered"} => fetch[k].pack = ReachableFrom(fetch[k].wants, fetch[k].haves)

FetchInv == FetchTypeOK /\ \A k \in Clients : CloneIsSound(k)

\* Nobody's clone or fetch changes by what is done to the repository.
LEMMA RepositoryMoves ==
    ASSUME FetchInv, FetchTypeOK', UNCHANGED <<mine, tracked, fetch>>
    PROVE  FetchInv'
BY DEF FetchInv, CloneIsSound

\* Nor by what another client does.
LEMMA ClientMoves ==
    ASSUME FetchInv, FetchTypeOK', NEW k \in Clients, CloneIsSound(k)',
           \A o \in Clients \ {k} : mine'[o] = mine[o] /\ tracked'[o] = tracked[o] /\ fetch'[o] = fetch[o]
    PROVE  FetchInv'
BY DEF FetchInv, CloneIsSound

\* smart-http.ts, what is done to the repository keeps the types.
LEMMA RepositoryTyped ==
    ASSUME FetchAssumption, GraphAssumption, FetchTypeOK,
           \/ \E b \in FetchBranches : DeleteBranch(b) \/ \E c \in Commits : StartPush(b, c)
           \/ \E c \in Commits : StoreObject(c) \/ RemoveObject(c)
           \/ FinishPush \/ DeleteRepository
    PROVE  FetchTypeOK' /\ UNCHANGED <<mine, tracked, fetch>>
<1>1. CASE \E b \in FetchBranches : DeleteBranch(b)
  BY <1>1, FetchAssumption DEF DeleteBranch, FetchTypeOK
<1>2. ASSUME NEW b \in FetchBranches, NEW c \in Commits, StartPush(b, c)
      PROVE  FetchTypeOK' /\ UNCHANGED <<mine, tracked, fetch>>
  <2>1. History(c) \subseteq Commits
    BY HistoryFacts
  <2>2. PICK brought \in SUBSET (History(c) \ store) : push' = [branch |-> b, tip |-> c, rest |-> brought]
    BY <1>2 DEF StartPush
  <2> QED BY <1>2, <2>1, <2>2, FetchAssumption DEF StartPush, FetchTypeOK
<1>3. ASSUME NEW c \in Commits, StoreObject(c) \/ RemoveObject(c)
      PROVE  FetchTypeOK' /\ UNCHANGED <<mine, tracked, fetch>>
  <2>1. push \in [branch : FetchBranches \cup {NoCommit}, tip : Commits \cup {NoCommit}, rest : SUBSET Commits]
    BY DEF FetchTypeOK
  <2>2. push' \in [branch : FetchBranches \cup {NoCommit}, tip : Commits \cup {NoCommit}, rest : SUBSET Commits]
    BY <1>3, <2>1 DEF StoreObject, RemoveObject
  <2> QED BY <1>3, <2>2 DEF StoreObject, RemoveObject, FetchTypeOK
<1>4. CASE FinishPush
  <2>1. NoPush \in [branch : FetchBranches \cup {NoCommit}, tip : Commits \cup {NoCommit}, rest : SUBSET Commits]
    BY DEF NoPush
  <2>2. refs' \in [FetchBranches -> Commits \cup {NoCommit}]
    BY <1>4 DEF FinishPush, FetchTypeOK
  <2> QED BY <1>4, <2>1, <2>2 DEF FinishPush, FetchTypeOK
<1>5. CASE DeleteRepository
  BY <1>5, FetchAssumption DEF DeleteRepository, FetchTypeOK
<1> QED BY <1>1, <1>2, <1>3, <1>4, <1>5

\* What a client's step makes of its fetch, for the others nothing.
LEMMA FetchTyped ==
    ASSUME FetchInv, NEW k \in Clients
    PROVE  /\ fetch[k] \in Fetches /\ NoFetch \in Fetches
           /\ \A q \in Fetches : fetch' = [fetch EXCEPT ![k] = q] =>
                 /\ fetch' \in [Clients -> Fetches] /\ fetch'[k] = q /\ \A o \in Clients \ {k} : fetch'[o] = fetch[o]
BY DEF FetchInv, FetchTypeOK, Fetches, NoFetch

\* A client's step that adds nothing to its clone.
LEMMA FetchGoesOn ==
    ASSUME FetchInv, NEW k \in Clients, NEW q \in Fetches, fetch' = [fetch EXCEPT ![k] = q],
           UNCHANGED <<Unmoved, mine, tracked>>, fetches' \in 0..MaxFetches, losses' \in 0..MaxLost,
           q.haves \subseteq mine[k],
           q.at \in {"collected", "answered"} => q.pack = ReachableFrom(q.wants, q.haves)
    PROVE  FetchInv'
<1>1. /\ fetch' \in [Clients -> Fetches] /\ fetch'[k] = q /\ \A o \in Clients \ {k} : fetch'[o] = fetch[o]
  BY FetchTyped
<1>2. FetchTypeOK'
  BY <1>1 DEF FetchInv, FetchTypeOK, Unmoved, Fetches
<1>3. CloneIsSound(k)'
  BY <1>1 DEF FetchInv, CloneIsSound
<1> QED BY <1>1, <1>2, <1>3, ClientMoves

\* smart-http.ts, the two requests of a fetch.
LEMMA FetchStepKeeps ==
    ASSUME FetchAssumption, GraphAssumption, FetchInv, NEW k \in Clients,
           Advertise(k) \/ Wish(k) \/ Grant(k) \/ Collect(k) \/ WritePack(k) \/ LoseFetch(k)
    PROVE  FetchInv'
<1> DEFINE q == fetch[k]
<1>1. /\ q \in Fetches /\ NoFetch \in Fetches /\ CloneIsSound(k) /\ DOMAIN fetch = Clients
      /\ mine[k] \in SUBSET Commits /\ refs \in [FetchBranches -> Commits \cup {NoCommit}]
      /\ fetches \in 0..MaxFetches /\ losses \in 0..MaxLost /\ {MaxFetches, MaxLost} \subseteq Nat
  BY FetchTyped, FetchAssumption DEF FetchInv, FetchTypeOK
<1>2. ASSUME GiveUp(k), UNCHANGED <<Unmoved, mine, tracked>>, fetches' \in 0..MaxFetches, losses' \in 0..MaxLost
      PROVE  FetchInv'
  <2>1. NoFetch.haves = {} /\ NoFetch.at = "idle"
    BY DEF NoFetch
  <2> QED BY <1>1, <1>2, <2>1, FetchGoesOn DEF GiveUp
<1>3. CASE Advertise(k)
  <2> DEFINE p == [NoFetch EXCEPT !.at = "heard", !.heard = refs]
  <2>1. p \in Fetches /\ p.haves = {} /\ p.at = "heard"
    BY <1>1 DEF NoFetch, Fetches
  <2>2. fetch' = [fetch EXCEPT ![k] = p] /\ fetches' \in 0..MaxFetches /\ UNCHANGED <<Unmoved, mine, tracked, losses>>
    BY <1>1, <1>3 DEF Advertise
  <2> HIDE DEF p
  <2> QED BY <1>1, <2>1, <2>2, FetchGoesOn
<1>4. CASE Wish(k)
  <2>1. PICK wants \in (SUBSET Tips(q.heard)) \ {{}}, haves \in SUBSET mine[k] :
           fetch' = [fetch EXCEPT ![k].at = "asked", ![k].wants = wants, ![k].haves = haves]
    BY <1>4 DEF Wish
  <2> DEFINE p == [q EXCEPT !.at = "asked", !.wants = wants, !.haves = haves]
  <2>2. wants \in SUBSET Commits /\ haves \in SUBSET Commits
    BY <1>1 DEF Fetches, Tips
  <2>3. p \in Fetches /\ p.haves = haves /\ p.at = "asked"
    BY <1>1, <2>2 DEF Fetches
  <2>4. fetch' = [fetch EXCEPT ![k] = p] /\ UNCHANGED <<Unmoved, mine, tracked, fetches, losses>>
    BY <1>1, <1>4, <2>1 DEF Wish
  <2> HIDE DEF p
  <2> QED BY <1>1, <2>3, <2>4, FetchGoesOn
<1>5. CASE Grant(k)
  <2>1. UNCHANGED <<Unmoved, mine, tracked, fetches, losses>>
    BY <1>5 DEF Grant
  <2>2. CASE q.at = "asked" /\ MoveTo(k, "granted")
    <3> DEFINE p == [q EXCEPT !.at = "granted"]
    <3>1. p \in Fetches /\ p.haves = q.haves /\ p.at = "granted"
      BY <1>1 DEF Fetches
    <3>2. fetch' = [fetch EXCEPT ![k] = p]
      BY <1>1, <2>2 DEF MoveTo
    <3>3. q.haves \subseteq mine[k]
      BY <1>1 DEF CloneIsSound
    <3> HIDE DEF p
    <3> QED BY <1>1, <2>1, <3>1, <3>2, <3>3, FetchGoesOn
  <2> QED BY <1>1, <1>2, <1>5, <2>1, <2>2 DEF Grant
<1>6. CASE Collect(k)
  <2> DEFINE found == ReachableFrom(q.wants, q.haves)
             p == [q EXCEPT !.at = "collected", !.pack = found]
  <2>1. UNCHANGED <<Unmoved, mine, tracked, fetches, losses>>
    BY <1>6 DEF Collect
  <2>2. CASE fetch' = [fetch EXCEPT ![k].at = "collected", ![k].pack = found]
    <3>1. found \in SUBSET Commits
      <4>1. q.wants \in SUBSET Commits
        BY <1>1 DEF Fetches
      <4> QED BY <4>1, ReachableFacts
    <3> HIDE DEF found
    <3>2. p \in Fetches /\ p.haves = q.haves /\ p.wants = q.wants /\ p.pack = found
      BY <1>1, <3>1 DEF Fetches
    <3>3. fetch' = [fetch EXCEPT ![k] = p]
      BY <1>1, <2>2
    <3>4. q.haves \subseteq mine[k] /\ p.pack = ReachableFrom(p.wants, p.haves)
      BY <1>1, <3>2 DEF CloneIsSound, found
    <3> HIDE DEF p
    <3> QED BY <1>1, <2>1, <3>2, <3>3, <3>4, FetchGoesOn
  <2> QED BY <1>1, <1>2, <1>6, <2>1, <2>2 DEF Collect
<1>7. CASE WritePack(k)
  <2> DEFINE p == [q EXCEPT !.at = "answered", !.pack = q.pack \cap store]
  <2>1. UNCHANGED <<Unmoved, mine, tracked, fetches, losses>> /\ q.at = "collected"
    BY <1>7 DEF WritePack
  <2>2. CASE NoneMissing(k) /\ fetch' = [fetch EXCEPT ![k].at = "answered", ![k].pack = q.pack \cap store]
    <3>1. q.pack \cap store = q.pack
      BY <2>2 DEF NoneMissing
    <3>2. p \in Fetches /\ p.haves = q.haves /\ p.wants = q.wants /\ p.pack = q.pack
      BY <1>1, <3>1 DEF Fetches
    <3>3. fetch' = [fetch EXCEPT ![k] = p]
      BY <1>1, <2>2
    <3>4. q.haves \subseteq mine[k] /\ p.pack = ReachableFrom(p.wants, p.haves)
      BY <1>1, <2>1, <3>2 DEF CloneIsSound
    <3> HIDE DEF p
    <3> QED BY <1>1, <2>1, <3>2, <3>3, <3>4, FetchGoesOn
  <2> QED BY <1>1, <1>2, <1>7, <2>1, <2>2 DEF WritePack
<1>8. CASE LoseFetch(k)
  <2>1. GiveUp(k) /\ UNCHANGED <<Unmoved, mine, tracked, fetches>> /\ losses' \in 0..MaxLost
    BY <1>1, <1>8 DEF LoseFetch
  <2> QED BY <1>1, <1>2, <2>1
<1> QED BY <1>3, <1>4, <1>5, <1>6, <1>7, <1>8

\* The pack completes what the client has; a commit of its own is made on top of what it has.
LEMMA CloneGrows ==
    ASSUME FetchAssumption, GraphAssumption, FetchInv, NEW k \in Clients,
           TakePack(k) \/ \E c \in Commits : CommitLocally(k, c)
    PROVE  FetchInv'
<1> DEFINE q == fetch[k]
<1>1. /\ q \in Fetches /\ NoFetch \in Fetches /\ CloneIsSound(k) /\ DOMAIN fetch = Clients
      /\ mine \in [Clients -> SUBSET Commits] /\ tracked \in [Clients -> [FetchBranches -> Commits \cup {NoCommit}]]
      /\ moves \in 0..MaxMoves /\ MaxMoves \in Nat
  BY FetchTyped, FetchAssumption DEF FetchInv, FetchTypeOK
<1>2. CASE TakePack(k)
  <2> DEFINE moved == [b \in FetchBranches |-> IF q.heard[b] \in q.wants THEN q.heard[b] ELSE tracked[k][b]]
  <2>1. /\ q.at = "answered" /\ fetch' = [fetch EXCEPT ![k] = NoFetch]
        /\ mine' = [mine EXCEPT ![k] = mine[k] \cup q.pack] /\ tracked' = [tracked EXCEPT ![k] = moved]
        /\ UNCHANGED <<Unmoved, fetches, losses>>
    BY <1>2 DEF TakePack, GiveUp
  <2>2. q.wants \in SUBSET Commits /\ q.haves \in SUBSET Commits /\ q.pack \in SUBSET Commits
    BY <1>1 DEF Fetches
  <2>3. q.pack = ReachableFrom(q.wants, q.haves) /\ q.haves \subseteq mine[k]
    BY <1>1, <2>1 DEF CloneIsSound
  <2>4. moved \in [FetchBranches -> Commits \cup {NoCommit}]
    BY <1>1, <2>2
  <2>5. q.wants \subseteq mine[k] \cup q.pack
    BY <2>2, <2>3, ReachableFacts
  <2>6. /\ mine'[k] = mine[k] \cup q.pack /\ tracked'[k] = moved /\ fetch'[k] = NoFetch
        /\ \A o \in Clients \ {k} : mine'[o] = mine[o] /\ tracked'[o] = tracked[o] /\ fetch'[o] = fetch[o]
    BY <1>1, <2>1
  <2>7. ASSUME NEW c \in mine[k] \cup q.pack PROVE History(c) \subseteq mine[k] \cup q.pack
    <3>1. CASE c \in mine[k]
      BY <1>1, <3>1 DEF CloneIsSound
    <3>2. CASE c \in q.pack
      <4>1. History(c) \subseteq q.pack \cup UNION {History(h) : h \in q.haves}
        <5> HIDE DEF q
        <5> QED BY <2>2, <2>3, <3>2, WalksCollect
      <4>2. UNION {History(h) : h \in q.haves} \subseteq mine[k]
        BY <1>1, <2>3 DEF CloneIsSound
      <4> QED BY <4>1, <4>2
    <3> QED BY <3>1, <3>2
  <2>8. \A b \in FetchBranches : moved[b] # NoCommit => moved[b] \in mine[k] \cup q.pack
    BY <1>1, <2>5 DEF CloneIsSound
  <2>9. NoFetch.haves = {} /\ NoFetch.at = "idle"
    BY DEF NoFetch
  <2>10. FetchTypeOK'
    <3> HIDE DEF moved
    <3>1. mine' \in [Clients -> SUBSET Commits] /\ tracked' \in [Clients -> [FetchBranches -> Commits \cup {NoCommit}]]
      BY <1>1, <2>1, <2>2, <2>4
    <3>2. fetch' \in [Clients -> Fetches]
      BY <2>1, FetchTyped
    <3> QED BY <2>1, <3>1, <3>2 DEF FetchInv, FetchTypeOK, Unmoved, Fetches
  <2> HIDE DEF moved
  <2>11. CloneIsSound(k)'
    BY <2>6, <2>7, <2>8, <2>9 DEF CloneIsSound
  <2> QED BY <2>6, <2>10, <2>11, ClientMoves
<1>3. ASSUME NEW c \in Commits, CommitLocally(k, c) PROVE FetchInv'
  <2>1. /\ fetch[k].at = "idle" /\ History(c) \subseteq mine[k] \cup {c} /\ mine' = [mine EXCEPT ![k] = mine[k] \cup {c}]
        /\ moves' \in 0..MaxMoves /\ UNCHANGED <<refs, store, push, deleted, tracked, fetch, fetches, losses>>
    BY <1>1, <1>3 DEF CommitLocally
  <2>2. mine'[k] = mine[k] \cup {c} /\ \A o \in Clients \ {k} : mine'[o] = mine[o]
    BY <1>1, <2>1
  <2>3. CloneIsSound(k)'
    BY <1>1, <2>1, <2>2 DEF CloneIsSound
  <2>4. FetchTypeOK'
    BY <1>1, <2>1 DEF FetchInv, FetchTypeOK
  <2> QED BY <2>1, <2>2, <2>3, <2>4, ClientMoves
<1> QED BY <1>2, <1>3

\* Every step of the repository and of every client.
LEMMA FetchInvKept == ASSUME FetchAssumption, GraphAssumption, FetchInv, [FetchNext]_fetchVars PROVE FetchInv'
<1>1. CASE UNCHANGED fetchVars
  BY <1>1 DEF fetchVars, FetchInv, FetchTypeOK, CloneIsSound
<1>2. CASE \/ \E b \in FetchBranches : DeleteBranch(b) \/ \E c \in Commits : StartPush(b, c)
           \/ \E c \in Commits : StoreObject(c) \/ RemoveObject(c)
           \/ FinishPush \/ DeleteRepository
  <2>1. FetchTypeOK
    BY DEF FetchInv
  <2>2. FetchTypeOK' /\ UNCHANGED <<mine, tracked, fetch>>
    BY <1>2, <2>1, RepositoryTyped
  <2> QED BY <2>2, RepositoryMoves
<1>3. ASSUME NEW k \in Clients,
             Advertise(k) \/ Wish(k) \/ Grant(k) \/ Collect(k) \/ WritePack(k) \/ LoseFetch(k)
      PROVE  FetchInv'
  BY <1>3, FetchStepKeeps
<1>4. ASSUME NEW k \in Clients, TakePack(k) \/ \E c \in Commits : CommitLocally(k, c) PROVE FetchInv'
  BY <1>4, CloneGrows
<1> QED BY <1>1, <1>2, <1>3, <1>4 DEF FetchNext

\* An empty repository, and clones that are empty.
LEMMA FetchBegins == ASSUME FetchAssumption, FetchInit PROVE FetchInv
<1>1. NoFetch \in Fetches /\ NoFetch.haves = {} /\ NoFetch.at = "idle"
  BY DEF NoFetch, Fetches
<1>2. FetchTypeOK
  <2>1. NoPush \in [branch : FetchBranches \cup {NoCommit}, tip : Commits \cup {NoCommit}, rest : SUBSET Commits]
    BY DEF NoPush
  <2>2. fetch \in [Clients -> Fetches] /\ push = NoPush
    BY <1>1 DEF FetchInit
  <2>3. 0 \in 0..MaxMoves /\ 0 \in 0..MaxFetches /\ 0 \in 0..MaxLost
    BY FetchAssumption
  <2> QED BY <2>1, <2>2, <2>3 DEF FetchInit, FetchTypeOK, Fetches
<1>3. \A k \in Clients : CloneIsSound(k)
  BY <1>1 DEF FetchInit, CloneIsSound
<1> QED BY <1>2, <1>3 DEF FetchInv

\* So it is in every state.
LEMMA FetchStays == FetchAssumption /\ GraphAssumption => (FetchSpec => []FetchInv)
<1> SUFFICES ASSUME FetchAssumption, GraphAssumption PROVE FetchSpec => []FetchInv
  OBVIOUS
<1>1. FetchInit => FetchInv
  BY FetchBegins
<1>2. FetchInv /\ [FetchNext]_fetchVars => FetchInv'
  BY FetchInvKept
<1> QED BY <1>1, <1>2, PTL DEF FetchSpec

\* smart-http.ts: everything a fetch remembers has its type.
THEOREM FetchTypesStay == FetchAssumption /\ GraphAssumption => (FetchSpec => []FetchTypeOK)
<1>1. FetchInv => FetchTypeOK
  BY DEF FetchInv
<1> QED BY <1>1, FetchStays, PTL

\* smart-http.ts, reachability.ts: whatever is pushed, moved or removed between the two requests and during the
\* second, what a clone has tracked it has with all its history, and a pack completes what was wanted.
THEOREM FetchedStaysComplete == FetchAssumption /\ GraphAssumption => (FetchSpec => []FetchedIsComplete)
<1> SUFFICES ASSUME FetchAssumption, GraphAssumption PROVE FetchSpec => []FetchedIsComplete
  OBVIOUS
<1>1. ASSUME FetchInv PROVE FetchedIsComplete
  <2> SUFFICES ASSUME NEW k \in Clients
               PROVE  /\ \A b \in FetchBranches : tracked[k][b] # NoCommit => History(tracked[k][b]) \subseteq mine[k]
                      /\ fetch[k].at = "answered" =>
                            \A w \in fetch[k].wants : History(w) \subseteq mine[k] \cup fetch[k].pack
    BY DEF FetchedIsComplete
  <2>1. CloneIsSound(k) /\ fetch[k] \in Fetches /\ mine[k] \in SUBSET Commits
    BY <1>1, FetchTyped DEF FetchInv, FetchTypeOK
  <2>2. ASSUME fetch[k].at = "answered", NEW w \in fetch[k].wants
        PROVE  History(w) \subseteq mine[k] \cup fetch[k].pack
    <3> DEFINE q == fetch[k]
    <3>1. /\ q.wants \in SUBSET Commits /\ q.haves \in SUBSET Commits /\ q.haves \subseteq mine[k]
          /\ q.pack = ReachableFrom(q.wants, q.haves) /\ w \in q.wants
      BY <2>1, <2>2 DEF CloneIsSound, Fetches
    <3>2. UNION {History(h) : h \in q.haves} \subseteq mine[k]
      BY <2>1 DEF CloneIsSound
    <3> HIDE DEF q
    <3>3. History(w) \subseteq q.pack \cup UNION {History(h) : h \in q.haves}
      BY <1>1, <3>1, WalksCollect
    <3> QED BY <3>2, <3>3 DEF q
  <2> QED BY <2>1, <2>2 DEF CloneIsSound
<1>2. FetchInv => FetchedIsComplete
  BY <1>1
<1>3. FetchSpec => []FetchInv
  BY FetchStays
<1> QED BY <1>2, <1>3, PTL

=============================================================================
