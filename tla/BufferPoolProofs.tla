-------------------------- MODULE BufferPoolProofs --------------------------
(***************************************************************************)
(* Proofs about the buffer pool: the clock sweep, turn by turn; what a pin *)
(* keeps in its frame; where the last change of a page is; what the commit *)
(* bit of a session vouches for.                                           *)
(***************************************************************************)
EXTENDS BufferPool, TLAPS, WellFoundedInduction, FiniteSetTheorems

-----------------------------------------------------------------------------
(* Induction over turns goes through the first turn that breaks a claim.   *)

LEMMA SmallestOf ==
    ASSUME NEW S \in SUBSET Nat, S # {}
    PROVE  \E m \in S : \A y \in S : m <= y
<1> DEFINE Less == {p \in Nat \X Nat : p[1] < p[2]}
<1>1. IsWellFoundedOn(Less, Nat)
  BY NatLessThanWellFounded DEF OpToRel
<1> HIDE DEF Less
<1>2. PICK m \in S : \A y \in S : ~(<<y, m>> \in Less)
  BY <1>1, WFMin
<1>3. ASSUME NEW y \in S, ~(m <= y) PROVE FALSE
  <2> DEFINE p == <<y, m>>
  <2>1. p \in Nat \X Nat /\ p[1] < p[2]
    BY <1>3
  <2>2. p \in Less
    BY <2>1 DEF Less
  <2> QED
    BY <1>2, <2>2
<1> QED
  BY <1>3

LEMMA FirstOf ==
    ASSUME NEW S \in SUBSET Nat, S # {}
    PROVE  \E m \in S : \A n \in Nat : n < m => n \notin S
<1>1. PICK m \in S : \A n \in S : m <= n
  BY SmallestOf
<1>2. ASSUME NEW n \in Nat, n < m, n \in S PROVE FALSE
  BY <1>1, <1>2
<1> QED
  BY <1>2

\* The turns up to the k-th, as the recursive definition of Sweep lists them.
TurnsTo(g, k) == g = [n \in 0 .. k |-> IF n = 0 THEN NoTurn ELSE Turn(g[n - 1])]

LEMMA TurnsToGrows ==
    ASSUME NEW k \in Nat, \E g : TurnsTo(g, k)
    PROVE  \E g : TurnsTo(g, k + 1)
<1>1. PICK g : TurnsTo(g, k)
  OBVIOUS
<1> DEFINE h == [n \in 0 .. k + 1 |-> IF n = k + 1 THEN Turn(g[k]) ELSE g[n]]
<1>2. ASSUME NEW n \in 0 .. k PROVE h[n] = g[n]
  OBVIOUS
<1>3. h[k + 1] = Turn(g[k])
  OBVIOUS
<1>4. ASSUME NEW n \in 0 .. k + 1
      PROVE  h[n] = IF n = 0 THEN NoTurn ELSE Turn(h[n - 1])
  <2> HIDE DEF h
  <2>1. CASE n = k + 1
    <3>1. n # 0 /\ n - 1 = k /\ k \in 0 .. k
      BY <2>1
    <3>2. h[k] = g[k]
      BY <1>2, <3>1
    <3> QED
      BY <1>3, <2>1, <3>1, <3>2
  <2>2. CASE n = 0
    <3>1. g[0] = NoTurn
      BY <1>1 DEF TurnsTo
    <3> QED
      BY <1>2, <2>2, <3>1
  <2>3. CASE n # 0 /\ n # k + 1
    <3>1. n \in 0 .. k /\ n - 1 \in 0 .. k
      BY <2>3
    <3>2. g[n] = Turn(g[n - 1])
      BY <1>1, <2>3, <3>1 DEF TurnsTo
    <3>3. h[n] = g[n] /\ h[n - 1] = g[n - 1]
      BY <1>2, <3>1
    <3> QED
      BY <2>3, <3>2, <3>3
  <2> QED
    BY <2>1, <2>2, <2>3
<1>5. TurnsTo(h, k + 1)
  <2> DEFINE r == [n \in 0 .. k + 1 |-> IF n = 0 THEN NoTurn ELSE Turn(h[n - 1])]
  <2>1. \A n \in 0 .. k + 1 : h[n] = r[n]
    BY <1>4
  <2>2. h = r
    BY <2>1
  <2> QED
    BY <2>2 DEF TurnsTo
<1> QED
  BY <1>5

LEMMA TurnsAreDefined == \A k \in Nat : \E g : TurnsTo(g, k)
<1> DEFINE Bad == {k \in Nat : ~\E g : TurnsTo(g, k)}
<1>1. SUFFICES ASSUME Bad # {} PROVE FALSE
  OBVIOUS
<1>2. PICK m \in Bad : \A n \in Nat : n < m => n \notin Bad
  BY <1>1, FirstOf
<1>3. CASE m = 0
  <2> DEFINE g == [n \in 0 .. 0 |-> NoTurn]
  <2>1. g = [n \in 0 .. 0 |-> IF n = 0 THEN NoTurn ELSE Turn(g[n - 1])]
    OBVIOUS
  <2>2. TurnsTo(g, 0)
    BY <2>1 DEF TurnsTo
  <2> QED
    BY <1>3, <2>2
<1>4. CASE m # 0
  <2>1. m - 1 \in Nat /\ (m - 1) + 1 = m /\ m - 1 < m
    BY <1>4
  <2>2. \E g : TurnsTo(g, m - 1)
    BY <1>2, <2>1
  <2>3. \E g : TurnsTo(g, m)
    BY <2>1, <2>2, TurnsToGrows
  <2> QED
    BY <2>3
<1> QED
  BY <1>3, <1>4

LEMMA MaxTurnsIsNat == MaxTurns \in Nat
BY PoolAssumption DEF MaxTurns

\* Sweep is what the last of the turns leaves.
LEMMA SweepIsLast ==
    \E g : TurnsTo(g, MaxTurns) /\ Sweep = g[MaxTurns]
<1> DEFINE After == CHOOSE g : TurnsTo(g, MaxTurns)
<1>1. TurnsTo(After, MaxTurns)
  BY TurnsAreDefined, MaxTurnsIsNat
<1>2. Sweep = After[MaxTurns]
  BY DEF Sweep, TurnsTo
<1> QED
  BY <1>1, <1>2

-----------------------------------------------------------------------------
(* The clock sweep.                                                        *)

LEMMA HandMoves ==
    ASSUME NEW a \in Frames
    PROVE  (a + 1) % NFrames = IF a + 1 = NFrames THEN 0 ELSE a + 1
<1>1. NFrames \in Nat /\ NFrames > 0 /\ a \in Nat /\ a < NFrames
  BY PoolAssumption DEF Frames
<1> QED
  BY <1>1

LEMMA AheadIs ==
    ASSUME NEW f \in Frames, NEW h \in Frames
    PROVE  (f - h + NFrames) % NFrames = IF f >= h THEN f - h ELSE f - h + NFrames
<1>1. NFrames \in Nat /\ NFrames > 0 /\ f \in Nat /\ f < NFrames /\ h \in Nat /\ h < NFrames
  BY PoolAssumption DEF Frames
<1> QED
  BY <1>1

FrameStates ==
    [page : Pages \cup {NoPage}, valid : BOOLEAN, pins : Nat,
     usage : 0 .. MaxUsageCount, dirty : BOOLEAN, val : 0 .. MaxWrites]

SweepStates ==
    [hand : Frames, usage : [Frames -> 0 .. MaxUsageCount],
     pinned : 0 .. NFrames, victim : Frames \cup {NoFrame}]

\* What the sweep starts from.
ClockTyped == frames \in [Frames -> FrameStates] /\ hand \in Frames

Free     == {f \in Frames : frames[f].pins = 0}
Need(f)  == IF frames[f].valid THEN frames[f].usage ELSE 0
Ahead(f) == IF f >= hand THEN f - hand ELSE f - hand + NFrames

\* After q rounds and r turns more: how often the hand has passed f, and how
\* many turns ago it last did.
Passes(f, q, r) == q + (IF Ahead(f) < r THEN 1 ELSE 0)
Since(f, r) == IF Ahead(f) < r THEN r - 1 - Ahead(f) ELSE r - 1 - Ahead(f) + NFrames

\* No frame is found yet: the ones that could be were lowered at each pass.
Searching(s, q, r) ==
    /\ s.victim = NoFrame /\ Ahead(s.hand) = r
    /\ \A f \in Free : Passes(f, q, r) <= Need(f)
    /\ \A f \in Frames : s.usage[f] = IF f \in Free /\ frames[f].valid
                                      THEN frames[f].usage - Passes(f, q, r)
                                      ELSE frames[f].usage
    /\ \A f \in Frames : Since(f, r) < s.pinned => f \notin Free

\* The sweep has its victim, or has seen every frame pinned.
Found(s) ==
    LET v == s.victim IN
    /\ v \in Free
    /\ \A f \in Free : Need(v) < Need(f) \/ (Need(v) = Need(f) /\ Ahead(v) <= Ahead(f))
    /\ s.hand = (v + 1) % NFrames
    /\ \A f \in Frames \ {v} : s.usage[f] =
          IF f \notin Free \/ ~frames[f].valid THEN frames[f].usage
          ELSE frames[f].usage - Need(v) - (IF Ahead(f) < Ahead(v) THEN 1 ELSE 0)

Stuck(s) ==
    /\ Free = {} /\ s.victim = NoFrame
    /\ \A f \in Frames : s.usage[f] = frames[f].usage

AfterTurns(s, n) ==
    /\ s \in SweepStates
    /\ \/ Found(s)
       \/ Stuck(s)
       \/ \E q \in Nat, r \in Frames : n = q * NFrames + r /\ Searching(s, q, r)

LEMMA FramesAreNat == NFrames \in Nat /\ NFrames > 0 /\ Frames = 0 .. NFrames - 1
                      /\ MaxUsageCount \in Nat /\ MaxUsageCount > 0
                      /\ NoFrame = -1
BY PoolAssumption DEF Frames, NoFrame

\* The frames lie around the clock, each at its own distance from the hand.
LEMMA AheadTyped ==
    ASSUME ClockTyped
    PROVE  \A f \in Frames : Ahead(f) \in Nat /\ Ahead(f) < NFrames
BY FramesAreNat DEF ClockTyped, Ahead

LEMMA SinceTyped ==
    ASSUME NEW r \in Nat, r < NFrames, NEW f, Ahead(f) \in Nat, Ahead(f) < NFrames
    PROVE  Since(f, r) \in Nat
BY FramesAreNat DEF Since

LEMMA AheadMoves ==
    ASSUME ClockTyped, NEW f \in Frames
    PROVE  Ahead(IF f + 1 = NFrames THEN 0 ELSE f + 1)
              = IF Ahead(f) + 1 = NFrames THEN 0 ELSE Ahead(f) + 1
BY FramesAreNat DEF ClockTyped, Ahead

LEMMA AheadDiffers ==
    ASSUME ClockTyped
    PROVE  \A f, g \in Frames : Ahead(f) = Ahead(g) => f = g
BY FramesAreNat DEF ClockTyped, Ahead

LEMMA NoTurnFits ==
    ASSUME ClockTyped
    PROVE  AfterTurns(NoTurn, 0)
<1>1. NoTurn \in SweepStates
  BY FramesAreNat DEF NoTurn, SweepStates, ClockTyped, FrameStates
<1>2. 0 \in Frames /\ 0 = 0 * NFrames + 0 /\ Ahead(hand) = 0
  BY FramesAreNat DEF Ahead, ClockTyped
<1>3. \A f \in Frames : Passes(f, 0, 0) = 0 /\ Since(f, 0) \in Nat
  <2> SUFFICES ASSUME NEW f \in Frames PROVE Passes(f, 0, 0) = 0 /\ Since(f, 0) \in Nat
    OBVIOUS
  <2>1. Ahead(f) \in Nat /\ Ahead(f) < NFrames /\ NFrames \in Nat
    BY FramesAreNat, AheadTyped
  <2> QED
    BY <2>1 DEF Passes, Since
<1>4. \A f \in Frames : frames[f].usage \in Nat /\ NoTurn.usage[f] = frames[f].usage
  BY FramesAreNat DEF NoTurn, ClockTyped, FrameStates
<1>5. NoTurn.victim = NoFrame /\ NoTurn.hand = hand /\ NoTurn.pinned = 0
  BY DEF NoTurn
<1>6. Searching(NoTurn, 0, 0)
  <2>1. \A f \in Frames : Passes(f, 0, 0) <= Need(f)
    BY <1>3, <1>4 DEF Need
  <2>2. \A f \in Frames : ~(Since(f, 0) < NoTurn.pinned)
    BY <1>3, <1>5
  <2>3. \A f \in Frames : NoTurn.usage[f] = IF f \in Free /\ frames[f].valid
                                             THEN frames[f].usage - Passes(f, 0, 0)
                                             ELSE frames[f].usage
    BY <1>3, <1>4
  <2>4. NoTurn.victim = NoFrame /\ Ahead(NoTurn.hand) = 0
    BY <1>2, <1>5
  <2> QED
    BY <2>1, <2>2, <2>3, <2>4, Zenon DEF Searching, Free
<1>7. \E q \in Nat, r \in Frames : 0 = q * NFrames + r /\ Searching(NoTurn, q, r)
  <2>1. 0 = 0 * NFrames + 0 /\ Searching(NoTurn, 0, 0)
    BY <1>2, <1>6
  <2>2. 0 \in Nat /\ 0 \in Frames
    BY <1>2
  <2> HIDE DEF Frames
  <2> QED
    BY <2>1, <2>2, Zenon
<1> QED
  BY <1>1, <1>7 DEF AfterTurns

\* The hand comes to the frame at the next distance; a new round begins
\* behind the last.
NextQ(q, r) == IF r + 1 = NFrames THEN q + 1 ELSE q
NextR(r) == IF r + 1 = NFrames THEN 0 ELSE r + 1

LEMMA PassesMove ==
    ASSUME ClockTyped, NEW h \in Frames, NEW q \in Nat, NEW r \in Frames, Ahead(h) = r
    PROVE  /\ NextQ(q, r) \in Nat /\ NextR(r) \in Frames
           /\ q * NFrames + r + 1 = NextQ(q, r) * NFrames + NextR(r)
           /\ Ahead((h + 1) % NFrames) = NextR(r)
           /\ Passes(h, q, r) = q /\ Passes(h, NextQ(q, r), NextR(r)) = q + 1
           /\ Since(h, NextR(r)) = 0
           /\ \A f \in Frames \ {h} :
                 /\ Passes(f, NextQ(q, r), NextR(r)) = Passes(f, q, r)
                 /\ Since(f, NextR(r)) = Since(f, r) + 1
<1>1. /\ NFrames \in Nat /\ NFrames > 0 /\ r \in Nat /\ r < NFrames
      /\ NextQ(q, r) \in Nat /\ NextR(r) \in Frames
  BY FramesAreNat DEF NextQ, NextR
<1>2. q * NFrames + r + 1 = NextQ(q, r) * NFrames + NextR(r)
  <2>1. (q + 1) * NFrames = q * NFrames + NFrames
    BY <1>1
  <2>2. q * NFrames \in Nat
    BY <1>1
  <2> QED
    BY <1>1, <2>1, <2>2 DEF NextQ, NextR
<1>3. Ahead((h + 1) % NFrames) = NextR(r)
  <2>1. (h + 1) % NFrames = IF h + 1 = NFrames THEN 0 ELSE h + 1
    BY HandMoves
  <2> QED
    BY <2>1, AheadMoves DEF NextR
<1>4. ASSUME NEW f \in Frames, f # h
      PROVE  /\ Passes(f, NextQ(q, r), NextR(r)) = Passes(f, q, r)
             /\ Since(f, NextR(r)) = Since(f, r) + 1
  <2>1. Ahead(f) \in Nat /\ Ahead(f) < NFrames
    BY AheadTyped
  <2>2. Ahead(f) # r
    BY <1>4, AheadDiffers
  <2> QED
    BY <1>1, <2>1, <2>2 DEF NextQ, NextR, Passes, Since
<1>5. Passes(h, q, r) = q /\ Passes(h, NextQ(q, r), NextR(r)) = q + 1 /\ Since(h, NextR(r)) = 0
  BY <1>1 DEF NextQ, NextR, Passes, Since
<1> QED
  BY <1>1, <1>2, <1>3, <1>4, <1>5

\* A turn of the search either goes on searching, or has its victim, or has
\* seen all frames pinned.
LEMMA TurnSearches ==
    ASSUME ClockTyped, NEW s \in SweepStates, NEW q \in Nat, NEW r \in Frames,
           Searching(s, q, r)
    PROVE  /\ Turn(s) \in SweepStates
           /\ Found(Turn(s)) \/ Stuck(Turn(s)) \/ Searching(Turn(s), NextQ(q, r), NextR(r))
<1> DEFINE h == s.hand
           t == [s EXCEPT !.hand = (h + 1) % NFrames]
           Q == NextQ(q, r)
           R == NextR(r)
<1>0. /\ NFrames \in Nat /\ r \in Nat /\ r < NFrames
      /\ \A f \in Frames : Ahead(f) \in Nat /\ Ahead(f) < NFrames
  <2>1. NFrames \in Nat /\ r \in Nat /\ r < NFrames
    BY FramesAreNat
  <2> QED
    BY <2>1, AheadTyped
<1>1. /\ s.victim = NoFrame /\ h \in Frames /\ Ahead(h) = r
      /\ s.usage \in [Frames -> 0 .. MaxUsageCount] /\ s.pinned \in 0 .. NFrames
  BY DEF Searching, SweepStates
<1>2. (h + 1) % NFrames \in Frames
  BY <1>1, HandMoves, FramesAreNat
<1>3. /\ t \in SweepStates /\ t.hand = (h + 1) % NFrames
      /\ t.usage = s.usage /\ t.pinned = s.pinned /\ t.victim = NoFrame
  BY <1>1, <1>2, SMTT(30) DEF SweepStates
<1>4. frames[h] \in FrameStates /\ frames[h].pins \in Nat /\ frames[h].usage \in 0 .. MaxUsageCount
  BY <1>1 DEF ClockTyped, FrameStates
<1>5. /\ Ahead(t.hand) = R
      /\ Passes(h, q, r) = q /\ Passes(h, Q, R) = q + 1 /\ Since(h, R) = 0
      /\ \A f \in Frames \ {h} : Passes(f, Q, R) = Passes(f, q, r) /\ Since(f, R) = Since(f, r) + 1
  BY <1>1, <1>3, PassesMove
<1> HIDE DEF t
<1> DEFINE p == [t EXCEPT !.pinned = @ + 1]
           d == [t EXCEPT !.pinned = 0, !.usage[h] = @ - 1]
           v == [t EXCEPT !.victim = h]
<1>6. CASE s.pinned = NFrames
  <2>1. Turn(s) = s
    BY <1>1, <1>6 DEF Turn
  <2>2. \A f \in Frames : Since(f, r) < s.pinned
    BY <1>0, <1>6 DEF Since
  <2>3. Free = {}
    BY <2>2 DEF Searching, Free
  <2>4. Stuck(s)
    BY <2>3 DEF Searching, Stuck
  <2> QED
    BY <2>1, <2>4
<1>7. CASE s.pinned # NFrames /\ frames[h].pins > 0
  <2>1. Turn(s) = p
    BY <1>1, <1>7 DEF Turn, t
  <2>0. s.pinned + 1 \in 0 .. NFrames
    BY <1>0, <1>1, <1>7
  <2>2. /\ p \in SweepStates /\ p.hand = t.hand /\ p.usage = s.usage
        /\ p.pinned = s.pinned + 1 /\ p.victim = NoFrame
    BY <1>3, <2>0 DEF SweepStates
  <2> HIDE DEF p
  <2>3. h \notin Free
    BY <1>7 DEF Free
  <2>4. \A f \in Free : Passes(f, Q, R) <= Need(f)
    BY <1>5, <2>3 DEF Searching, Free
  <2>5. \A f \in Frames : p.usage[f] = IF f \in Free /\ frames[f].valid
                                      THEN frames[f].usage - Passes(f, Q, R)
                                      ELSE frames[f].usage
    BY <1>5, <2>2, <2>3 DEF Searching
  <2>6. ASSUME NEW f \in Frames, Since(f, R) < p.pinned PROVE f \notin Free
    <3>1. CASE f = h
      BY <2>3, <3>1
    <3>2. CASE f # h
      <4>1. Since(f, R) = Since(f, r) + 1 /\ Since(f, r) \in Int
        <5>1. Since(f, r) \in Int
          BY <1>0, SinceTyped
        <5> QED
          BY <1>5, <3>2, <5>1
      <4>2. Since(f, r) < s.pinned
        <5>1. s.pinned \in Int
          BY <1>1
        <5> QED
          BY <2>2, <2>6, <4>1, <5>1
      <4> QED
        BY <4>2 DEF Searching
    <3> QED
      BY <3>1, <3>2
  <2>7. Searching(p, Q, R)
    BY <1>5, <2>2, <2>4, <2>5, <2>6 DEF Searching
  <2> QED
    BY <2>1, <2>2, <2>7
<1>8. CASE s.pinned # NFrames /\ ~(frames[h].pins > 0) /\ frames[h].valid /\ s.usage[h] > 0
  <2>1. Turn(s) = d
    BY <1>1, <1>8 DEF Turn, t
  <2>2. s.usage[h] \in 0 .. MaxUsageCount /\ s.usage[h] - 1 \in 0 .. MaxUsageCount
    <3>1. s.usage[h] \in 0 .. MaxUsageCount
      BY <1>1
    <3> QED
      BY <1>8, <3>1, FramesAreNat
  <2>3. /\ d \in SweepStates /\ d.hand = t.hand /\ d.pinned = 0 /\ d.victim = NoFrame
        /\ d.usage = [s.usage EXCEPT ![h] = s.usage[h] - 1]
    <3>1. [s.usage EXCEPT ![h] = s.usage[h] - 1] \in [Frames -> 0 .. MaxUsageCount]
      BY <1>1, <2>2
    <3>2. d = [[t EXCEPT !.pinned = 0] EXCEPT !.usage = [s.usage EXCEPT ![h] = s.usage[h] - 1]]
      BY <1>3 DEF SweepStates
    <3>3. 0 \in 0 .. NFrames
      BY <1>0
    <3> HIDE DEF d
    <3> QED
      BY <1>3, <3>1, <3>2, <3>3 DEF SweepStates
  <2> HIDE DEF d
  <2>4. h \in Free /\ s.usage[h] = frames[h].usage - q /\ Need(h) = frames[h].usage
    BY <1>1, <1>4, <1>5, <1>8 DEF Free, Searching, Need
  <2>5. q + 1 <= Need(h)
    BY <1>4, <1>8, <2>4
  <2>6. \A f \in Free : Passes(f, Q, R) <= Need(f)
    BY <1>5, <2>5 DEF Searching, Free
  <2>7. ASSUME NEW f \in Frames
        PROVE  d.usage[f] = IF f \in Free /\ frames[f].valid
                            THEN frames[f].usage - Passes(f, Q, R) ELSE frames[f].usage
    <3>1. CASE f = h
      <4>1. d.usage[h] = s.usage[h] - 1
        BY <1>1, <2>3
      <4> QED
        BY <1>4, <1>5, <1>8, <2>4, <3>1, <4>1
    <3>2. CASE f # h
      <4>1. d.usage[f] = s.usage[f]
        BY <1>1, <2>3, <3>2
      <4> QED
        BY <1>5, <3>2, <4>1 DEF Searching
    <3> QED
      BY <3>1, <3>2
  <2>8. R \in Nat /\ R < NFrames
    BY <1>0 DEF NextR
  <2>9. ASSUME NEW f \in Frames PROVE ~(Since(f, R) < d.pinned)
    <3>1. Ahead(f) \in Nat /\ Ahead(f) < NFrames
      BY <1>0
    <3>2. Since(f, R) \in Nat
      BY <2>8, <3>1, SinceTyped
    <3> QED
      BY <2>3, <3>2
  <2>10. Searching(d, Q, R)
    BY <1>5, <2>3, <2>6, <2>7, <2>9 DEF Searching
  <2> QED
    BY <2>1, <2>3, <2>10
<1>9. CASE s.pinned # NFrames /\ ~(frames[h].pins > 0) /\ ~(frames[h].valid /\ s.usage[h] > 0)
  <2>1. Turn(s) = v
    BY <1>1, <1>9 DEF Turn, t
  <2>2. /\ v \in SweepStates /\ v.hand = (h + 1) % NFrames /\ v.victim = h
        /\ v.usage = s.usage
    BY <1>1, <1>3 DEF SweepStates
  <2> HIDE DEF v
  <2>3. h \in Free
    BY <1>1, <1>4, <1>9 DEF Free
  <2>4. q <= Need(h) /\ Need(h) = q
    BY <1>1, <1>4, <1>5, <1>9, <2>3 DEF Searching, Need
  <2>5. ASSUME NEW f \in Free
        PROVE  Need(h) < Need(f) \/ (Need(h) = Need(f) /\ Ahead(h) <= Ahead(f))
    <3>1. Passes(f, q, r) <= Need(f)
      BY DEF Searching
    <3>2. f \in Frames /\ Need(f) \in Nat
      BY FramesAreNat DEF Free, Need, ClockTyped, FrameStates
    <3>3. Ahead(f) \in Nat /\ Ahead(h) = r /\ r \in Nat
      BY <1>0, <1>1, <3>2
    <3> QED
      BY <2>4, <3>1, <3>2, <3>3 DEF Passes
  <2>6. ASSUME NEW f \in Frames \ {h}
        PROVE  v.usage[f] = IF f \notin Free \/ ~frames[f].valid THEN frames[f].usage
                            ELSE frames[f].usage - Need(h) - (IF Ahead(f) < Ahead(h) THEN 1 ELSE 0)
    <3>1. frames[f].usage \in Nat
      BY FramesAreNat DEF ClockTyped, FrameStates
    <3> QED
      BY <1>1, <2>2, <2>4, <3>1 DEF Searching, Passes
  <2>7. Found(v)
    BY <2>2, <2>3, <2>5, <2>6 DEF Found
  <2> QED
    BY <2>1, <2>2, <2>7
<1> QED
  BY <1>1, <1>4, <1>6, <1>7, <1>8, <1>9

\* Once all frames are pinned the hand goes on in vain, and a victim stays.
LEMMA TurnStaysStuck ==
    ASSUME ClockTyped, NEW s \in SweepStates, Stuck(s)
    PROVE  Turn(s) \in SweepStates /\ Stuck(Turn(s))
<1> DEFINE h == s.hand
           t == [s EXCEPT !.hand = (h + 1) % NFrames]
           p == [t EXCEPT !.pinned = @ + 1]
<1>1. h \in Frames /\ s.pinned \in 0 .. NFrames /\ s.victim = NoFrame
  BY DEF SweepStates, Stuck
<1>2. (h + 1) % NFrames \in Frames
  BY <1>1, HandMoves, FramesAreNat
<1>3. t \in SweepStates /\ t.usage = s.usage /\ t.pinned = s.pinned /\ t.victim = NoFrame
  BY <1>1, <1>2 DEF SweepStates
<1>4. frames[h].pins > 0
  <2>1. frames[h].pins \in Nat /\ h \notin Free
    BY <1>1 DEF ClockTyped, FrameStates, Stuck
  <2> QED
    BY <1>1, <2>1 DEF Free
<1> HIDE DEF t
<1>5. CASE s.pinned = NFrames
  <2>1. Turn(s) = s
    BY <1>5 DEF Turn
  <2> QED
    BY <2>1
<1>6. CASE s.pinned # NFrames
  <2>1. Turn(s) = p
    BY <1>1, <1>4, <1>6 DEF Turn, t
  <2>2. s.pinned + 1 \in 0 .. NFrames
    BY <1>1, <1>6, FramesAreNat
  <2>3. p \in SweepStates /\ p.usage = s.usage /\ p.victim = NoFrame
    BY <1>3, <2>2 DEF SweepStates
  <2> HIDE DEF p
  <2> QED
    BY <2>1, <2>3 DEF Stuck
<1> QED
  BY <1>5, <1>6

LEMMA TurnFits ==
    ASSUME ClockTyped, NEW s, NEW n \in Nat, AfterTurns(s, n)
    PROVE  AfterTurns(Turn(s), n + 1)
<1>1. s \in SweepStates
  BY DEF AfterTurns
<1>2. CASE Found(s)
  <2>1. s.victim # NoFrame
    BY <1>2, FramesAreNat DEF Found, Free
  <2>2. Turn(s) = s
    BY <2>1 DEF Turn
  <2> QED
    BY <1>1, <1>2, <2>2 DEF AfterTurns
<1>3. CASE Stuck(s)
  BY <1>1, <1>3, TurnStaysStuck DEF AfterTurns
<1>4. ASSUME NEW q \in Nat, NEW r \in Frames, n = q * NFrames + r, Searching(s, q, r)
      PROVE  AfterTurns(Turn(s), n + 1)
  <2>1. /\ Turn(s) \in SweepStates
        /\ Found(Turn(s)) \/ Stuck(Turn(s)) \/ Searching(Turn(s), NextQ(q, r), NextR(r))
    BY <1>1, <1>4, TurnSearches
  <2>2. s.hand \in Frames /\ Ahead(s.hand) = r
    BY <1>1, <1>4 DEF SweepStates, Searching
  <2>3. /\ NextQ(q, r) \in Nat /\ NextR(r) \in Frames
        /\ n + 1 = NextQ(q, r) * NFrames + NextR(r)
    BY <1>4, <2>2, PassesMove
  <2> QED
    BY <2>1, <2>3, Zenon DEF AfterTurns
<1> QED
  BY <1>2, <1>3, <1>4 DEF AfterTurns

LEMMA AllTurnsFit ==
    ASSUME ClockTyped, NEW k \in Nat, NEW g, TurnsTo(g, k)
    PROVE  \A n \in 0 .. k : AfterTurns(g[n], n)
<1> DEFINE Bad == {n \in 0 .. k : ~AfterTurns(g[n], n)}
<1>1. SUFFICES ASSUME Bad # {} PROVE FALSE
  OBVIOUS
<1>2. Bad \in SUBSET Nat
  OBVIOUS
<1>3. PICK m \in Bad : \A n \in Nat : n < m => n \notin Bad
  BY <1>1, <1>2, FirstOf
<1>4. g[m] = IF m = 0 THEN NoTurn ELSE Turn(g[m - 1])
  BY DEF TurnsTo
<1>5. CASE m = 0
  BY <1>4, <1>5, NoTurnFits
<1>6. CASE m # 0
  <2>1. m - 1 \in Nat /\ m - 1 \in 0 .. k /\ m - 1 < m /\ (m - 1) + 1 = m
    BY <1>6
  <2>2. AfterTurns(g[m - 1], m - 1)
    BY <1>3, <2>1
  <2>3. AfterTurns(Turn(g[m - 1]), (m - 1) + 1)
    BY <2>1, <2>2, TurnFits
  <2> QED
    BY <1>4, <1>6, <2>1, <2>3
<1> QED
  BY <1>5, <1>6

\* MaxTurns turns are enough: nobody needs more passes than MaxUsageCount.
LEMMA SweepEnds ==
    ASSUME ClockTyped
    PROVE  Sweep \in SweepStates /\ (Found(Sweep) \/ Stuck(Sweep))
<1>1. PICK g : TurnsTo(g, MaxTurns) /\ Sweep = g[MaxTurns]
  BY SweepIsLast
<1>2. MaxTurns \in 0 .. MaxTurns
  BY MaxTurnsIsNat
<1>3. AfterTurns(Sweep, MaxTurns)
  BY <1>1, <1>2, MaxTurnsIsNat, AllTurnsFit
<1>4. ASSUME NEW q \in Nat, NEW r \in Frames, MaxTurns = q * NFrames + r, Searching(Sweep, q, r)
      PROVE  Stuck(Sweep)
  <2>1. Free = {}
    <3>1. SUFFICES ASSUME NEW f \in Free PROVE FALSE
      OBVIOUS
    <3>2. f \in Frames /\ Need(f) \in 0 .. MaxUsageCount
      BY FramesAreNat DEF Free, Need, ClockTyped, FrameStates
    <3>3. q <= Need(f)
      BY <1>4, <3>2 DEF Searching, Passes
    <3>4. q <= MaxUsageCount /\ MaxUsageCount \in Nat /\ NFrames \in Nat /\ NFrames > 0
          /\ r \in Nat /\ r < NFrames
      BY <3>2, <3>3, FramesAreNat
    <3>5. q * NFrames <= MaxUsageCount * NFrames
      BY <3>4
    <3>6. NFrames * (MaxUsageCount + 2) = MaxUsageCount * NFrames + NFrames + NFrames
      BY <3>4
    <3>7. MaxUsageCount * NFrames \in Nat /\ q * NFrames \in Nat
      BY <3>4
    <3>8. MaxTurns < MaxUsageCount * NFrames + NFrames
      BY <1>4, <3>4, <3>5, <3>7
    <3> QED
      BY <3>4, <3>6, <3>7, <3>8 DEF MaxTurns
  <2> QED
    BY <1>4, <2>1 DEF Searching, Stuck
<1> QED
  BY <1>3, <1>4 DEF AfterTurns

\* What the actions need of it.
LEMMA SweepTyped ==
    ASSUME ClockTyped
    PROVE  /\ Sweep.hand \in Frames
           /\ Sweep.usage \in [Frames -> 0 .. MaxUsageCount]
           /\ Sweep.victim = NoFrame \/ Sweep.victim \in Free
BY SweepEnds DEF SweepStates, Found, Stuck

LEMMA ClockFromType ==
    ASSUME ClockTyped
    PROVE  SweepIsClock
<1>1. ASSUME NEW f \in Frames
      PROVE  (f - hand + NFrames) % NFrames = Ahead(f)
  BY AheadIs DEF ClockTyped, Ahead
<1>2. Found(Sweep) \/ Stuck(Sweep)
  BY SweepEnds
<1>3. CASE Found(Sweep)
  <2> DEFINE v == Sweep.victim
             At(f) == (f - hand + NFrames) % NFrames
  <2>1. v \in Free /\ v \in Frames /\ Free \subseteq Frames
    BY <1>3 DEF Found, Free
  <2>2. \A f \in Frames : At(f) = Ahead(f)
    BY <1>1
  <2> HIDE DEF At, v
  <2>3. \A f \in Free : Need(v) < Need(f) \/ (Need(v) = Need(f) /\ At(v) <= At(f))
    BY <1>3, <2>1, <2>2 DEF Found, v
  <2>4. \A f \in Frames \ {v} : Sweep.usage[f] =
           IF f \notin Free \/ ~frames[f].valid THEN frames[f].usage
           ELSE frames[f].usage - Need(v) - (IF At(f) < At(v) THEN 1 ELSE 0)
    BY <1>3, <2>1, <2>2 DEF Found, v
  <2>5. Sweep.hand = (v + 1) % NFrames
    BY <1>3 DEF Found, v
  <2> QED
    BY <2>1, <2>3, <2>4, <2>5, Zenon DEF SweepIsClock, Free, Need, At, v
<1>4. CASE Stuck(Sweep)
  BY <1>4, Zenon DEF SweepIsClock, Stuck, Free
<1> QED
  BY <1>2, <1>3, <1>4

-----------------------------------------------------------------------------
(* The inductive invariant.                                                *)

ClientStates ==
    [pc : Pcs, frame : Frames \cup {NoFrame}, page : Pages \cup {NoPage},
     walk : 0 .. NFrames, wrote : [KeptPages -> Nat]]

PoolTyped ==
    /\ frames \in [Frames -> FrameStates]
    /\ table \in [Pages -> Frames \cup {NoFrame}]
    /\ nused \in 0 .. NFrames /\ hand \in Frames

LocksTyped == writer \in [Frames -> SUBSET Clients] /\ readers \in [Frames -> SUBSET Clients]

StoreTyped ==
    /\ files \subseteq Rels /\ dropping \subseteq Dropped /\ Rels \ files \subseteq dropping
    /\ nblocks \in [Rels -> Nat] /\ disk \in [Pages -> 0 .. MaxWrites]
    /\ stable \in [KeptPages -> Nat]
    /\ written \in [KeptPages -> Nat] /\ vouched \in [KeptPages -> Nat]

ClientsTyped == client \in [Clients -> ClientStates]

TypeInv == PoolTyped /\ LocksTyped /\ StoreTyped /\ ClientsTyped

\* The table and the frames name each other; a frame never used is empty.
CacheFits ==
    /\ \A f \in Frames : frames[f].valid => frames[f].page \in Pages
                                            /\ table[frames[f].page] = f
    /\ \A p \in Pages : table[p] # NoFrame =>
          /\ frames[table[p]].valid /\ frames[table[p]].page = p
          /\ p[2] < nblocks[Rel(p)]
    /\ \A f \in Frames : f >= nused => ~frames[f].valid /\ frames[f].pins = 0

\* The pins of a frame are the goroutines that hold it.
PinsFit ==
    \A f \in Frames : /\ IsFiniteSet(Pinners(f))
                      /\ frames[f].pins = Cardinality(Pinners(f))

\* A frame in use has a page, and loses it only with its relation.
InUse(f) ==
    /\ frames[f].page \in Pages
    /\ frames[f].valid \/ Rel(frames[f].page) \in Dropped

Writing  == {"locked", "modified", "marked"}
Flushing == {"flushlock", "flushwrite"}

ClientFits(k) ==
    /\ k.frame = NoFrame <=> k.pc \in {"idle", "walk", "bit"}
    /\ k.frame # NoFrame => InUse(k.frame)
    /\ k.pc \in Writing \cup {"pinned"} => k.page = frames[k.frame].page
    /\ k.pc \in Flushing => k.frame = k.walk

ClientsFit == \A c \in Clients : ClientFits(client[c])

\* A content lock has one writer or any number of readers.
LocksFit ==
    \A f \in Frames :
        /\ writer[f] = {c \in Clients : client[c].frame = f /\ client[c].pc \in Writing}
        /\ readers[f] = {c \in Clients : client[c].frame = f /\ client[c].pc = "flushwrite"}
        /\ writer[f] = Nobody \/ (readers[f] = {} /\ \E c \in Clients : writer[f] = {c})

\* The last change of a page is in its frame, else on disk; a change that is
\* only in the frame is marked there, or its writer is about to mark it.
PageFits(p) ==
    /\ written[p] = IF table[p] # NoFrame THEN frames[table[p]].val ELSE disk[p]
    /\ vouched[p] <= stable[p] /\ stable[p] <= disk[p] /\ disk[p] <= written[p]
    /\ ~(p[2] < nblocks[Rel(p)]) => written[p] = 0
    /\ \/ written[p] = disk[p]
       \/ frames[table[p]].dirty
       \/ \E c \in Clients : client[c].frame = table[p] /\ client[c].pc = "modified"

PagesFit == \A p \in KeptPages : PageFits(p)

\* A session's own changes that are not on disk yet are in frames it has
\* still to walk by; with the bit next, all are stable.
OwnFits(k, p) ==
    /\ k.wrote[p] <= written[p]
    /\ \/ k.wrote[p] <= disk[p]
       \/ /\ table[p] # NoFrame
          /\ frames[table[p]].dirty \/ (k.pc = "modified" /\ k.frame = table[p])
          /\ k.pc \in Flushing \cup {"walk"} => k.walk <= table[p]
    /\ k.pc = "bit" => k.wrote[p] <= stable[p]

OwnsFit == \A c \in Clients, p \in KeptPages : OwnFits(client[c], p)

PoolInv == CacheFits /\ PinsFit /\ ClientsFit /\ LocksFit
IndInv  == TypeInv /\ PoolInv /\ PagesFit /\ OwnsFit

-----------------------------------------------------------------------------
(* Pages and frames.                                                       *)

LEMMA PagesArePairs ==
    /\ NoPage \notin Pages
    /\ \A p \in Pages : Rel(p) \in Rels /\ p[2] \in Nat
    /\ \A p \in KeptPages : p \in Pages /\ Rel(p) \in Kept /\ Rel(p) \notin Dropped
    /\ \A p \in Pages \ KeptPages : Rel(p) \in Dropped
<1>1. NoPage \notin Pages
  BY DEF NoPage, Pages
<1>2. \A p \in Pages : Rel(p) \in Rels /\ p[2] \in Nat
  BY PoolAssumption DEF Pages, Rels, Rel
<1>3. \A p \in KeptPages : p \in Pages /\ Rel(p) \in Kept /\ Rel(p) \notin Dropped
  BY PoolAssumption DEF KeptPages, Rel
<1>4. \A p \in Pages \ KeptPages : Rel(p) \in Dropped
  BY DEF KeptPages, Pages, Rel
<1> QED
  BY <1>1, <1>2, <1>3, <1>4

\* The frame to evict is nobody's, and one that was never used is empty.
LEMMA VictimTyped ==
    ASSUME PoolTyped, CacheFits
    PROVE  /\ Victim.hand \in Frames
           /\ Victim.usage \in [Frames -> 0 .. MaxUsageCount]
           /\ Victim.victim # NoFrame => Victim.victim \in Free
           /\ nused < NFrames => Victim.victim = nused
<1>1. ClockTyped
  BY DEF ClockTyped, PoolTyped
<1>2. CASE nused < NFrames
  <2>1. Victim = [NoTurn EXCEPT !.victim = nused]
    BY <1>2 DEF Victim
  <2>2. nused \in Frames
    BY <1>2, FramesAreNat DEF PoolTyped
  <2>3. nused \in Free
    BY <2>2 DEF CacheFits, Free, PoolTyped
  <2>4. NoTurn \in SweepStates
    BY <1>1, NoTurnFits DEF AfterTurns
  <2>5. Victim.hand = NoTurn.hand /\ Victim.usage = NoTurn.usage /\ Victim.victim = nused
    BY <2>1, <2>4 DEF SweepStates
  <2> QED
    BY <2>3, <2>4, <2>5 DEF SweepStates
<1>3. CASE ~(nused < NFrames)
  <2>1. Victim = Sweep
    BY <1>3 DEF Victim
  <2> QED
    BY <1>1, <1>3, <2>1, SweepTyped
<1> QED
  BY <1>2, <1>3

-----------------------------------------------------------------------------
(* Pins and locks: what a step has to say of the goroutine that takes it.  *)

Only(c) == \A d \in Clients \ {c} : client'[d] = client[d]

PinsMove(f, by) ==
    \A g \in Frames : frames'[g].pins = IF g = f THEN frames[g].pins + by ELSE frames[g].pins

PinsSame == \A g \in Frames : frames'[g].pins = frames[g].pins

SameContent(g) ==
    /\ frames'[g].page = frames[g].page /\ frames'[g].valid = frames[g].valid
    /\ frames'[g].dirty = frames[g].dirty /\ frames'[g].val = frames[g].val

LEMMA PinsUntouched ==
    ASSUME PinsFit, PinsSame, \A d \in Clients : client'[d].frame = client[d].frame
    PROVE  PinsFit'
<1>1. \A f \in Frames : Pinners(f)' = Pinners(f)
  BY DEF Pinners
<1> QED
  BY <1>1 DEF PinsFit, PinsSame

LEMMA PinTaken ==
    ASSUME PinsFit, NEW c \in Clients, NEW f \in Frames, Only(c),
           client[c].frame = NoFrame, client'[c].frame = f, PinsMove(f, 1)
    PROVE  PinsFit'
<1>1. f # NoFrame
  BY FramesAreNat
<1>2. Pinners(f)' = Pinners(f) \cup {c} /\ c \notin Pinners(f)
  BY <1>1 DEF Pinners, Only
<1>3. \A g \in Frames \ {f} : Pinners(g)' = Pinners(g)
  <2>1. \A g \in Frames : g # NoFrame
    BY FramesAreNat
  <2> QED
    BY <2>1 DEF Pinners, Only
<1>4. IsFiniteSet(Pinners(f)) /\ Cardinality(Pinners(f)) \in Nat
  BY FS_CardinalityType DEF PinsFit
<1>5. IsFiniteSet(Pinners(f)') /\ Cardinality(Pinners(f)') = Cardinality(Pinners(f)) + 1
  BY <1>2, <1>4, FS_AddElement
<1> QED
  BY <1>3, <1>5 DEF PinsFit, PinsMove

LEMMA PinGiven ==
    ASSUME PinsFit, NEW c \in Clients, NEW f \in Frames, Only(c),
           client[c].frame = f, client'[c].frame = NoFrame, PinsMove(f, -1)
    PROVE  PinsFit'
<1>1. f # NoFrame
  BY FramesAreNat
<1>2. Pinners(f)' = Pinners(f) \ {c} /\ c \in Pinners(f)
  BY <1>1 DEF Pinners, Only
<1>3. \A g \in Frames \ {f} : Pinners(g)' = Pinners(g)
  <2>1. \A g \in Frames : g # NoFrame
    BY FramesAreNat
  <2> QED
    BY <2>1 DEF Pinners, Only
<1>4. IsFiniteSet(Pinners(f)) /\ Cardinality(Pinners(f)) \in Nat
  BY FS_CardinalityType DEF PinsFit
<1>5. IsFiniteSet(Pinners(f)') /\ Cardinality(Pinners(f)') = Cardinality(Pinners(f)) - 1
  BY <1>2, <1>4, FS_RemoveElement
<1> QED
  BY <1>3, <1>4, <1>5 DEF PinsFit, PinsMove

LEMMA HolderPins ==
    ASSUME PinsFit, NEW c \in Clients, NEW f \in Frames, client[c].frame = f
    PROVE  frames[f].pins \in Nat /\ frames[f].pins > 0
<1>1. c \in Pinners(f) /\ IsFiniteSet(Pinners(f))
  BY DEF Pinners, PinsFit
<1>2. Cardinality(Pinners(f)) \in Nat /\ Cardinality(Pinners(f)) # 0
  BY <1>1, FS_CardinalityType, FS_EmptySet
<1> QED
  BY <1>2 DEF PinsFit

\* The locks of a step that neither takes nor gives one back.
LEMMA LocksUntouched ==
    ASSUME LocksFit, UNCHANGED lockVars, NEW c \in Clients, Only(c),
           client'[c].pc \in Writing <=> client[c].pc \in Writing,
           client'[c].pc = "flushwrite" <=> client[c].pc = "flushwrite",
           client[c].pc \in Writing \cup {"flushwrite"} => client'[c].frame = client[c].frame
    PROVE  LocksFit'
<1>1. ASSUME NEW f \in Frames, NEW d \in Clients
      PROVE  /\ (client[d].frame = f /\ client[d].pc \in Writing)
                   <=> (client'[d].frame = f /\ client'[d].pc \in Writing)
             /\ (client[d].frame = f /\ client[d].pc = "flushwrite")
                   <=> (client'[d].frame = f /\ client'[d].pc = "flushwrite")
  BY DEF Only
<1> QED
  BY <1>1 DEF LocksFit, lockVars

\* A frame in use keeps its page: all the other goroutines need.
InUseKeep ==
    \A f \in Frames : frames[f].pins > 0 =>
        /\ frames'[f].page = frames[f].page
        /\ frames'[f].valid \/ ~frames[f].valid \/ Rel(frames[f].page) \in Dropped

LEMMA StillFits ==
    ASSUME PinsFit, ClientsTyped, ClientsFit, InUseKeep,
           NEW d \in Clients, client'[d] = client[d]
    PROVE  ClientFits(client[d])'
<1>1. ClientFits(client[d]) /\ client[d].frame \in Frames \cup {NoFrame}
  BY DEF ClientsFit, ClientsTyped, ClientStates
<1>2. CASE client[d].frame = NoFrame
  BY <1>1, <1>2 DEF ClientFits, Writing, Flushing
<1>3. CASE client[d].frame \in Frames
  <2>1. frames[client[d].frame].pins > 0
    BY <1>3, HolderPins
  <2> QED
    BY <1>1, <1>3, <2>1 DEF ClientFits, InUseKeep, InUse
<1> QED
  BY <1>1, <1>2, <1>3

LEMMA OthersFit ==
    ASSUME PinsFit, ClientsTyped, ClientsFit, InUseKeep,
           NEW c \in Clients, Only(c), ClientFits(client[c])'
    PROVE  ClientsFit'
<1>1. ASSUME NEW d \in Clients, d # c
      PROVE  ClientFits(client[d])'
  BY <1>1, StillFits DEF Only
<1> QED
  BY <1>1 DEF ClientsFit

-----------------------------------------------------------------------------
(* Contents, page by page: a step leaves a page alone or brings it to disk. *)

\* The step leaves page p where it is, and what vouches for it.
SamePage(p) ==
    /\ table'[p] = table[p] /\ disk'[p] = disk[p] /\ stable'[p] = stable[p]
    /\ written'[p] = written[p] /\ vouched'[p] = vouched[p]
    /\ nblocks'[Rel(p)] \in Nat /\ nblocks[Rel(p)] <= nblocks'[Rel(p)]
    /\ table[p] # NoFrame => /\ frames'[table[p]].val = frames[table[p]].val
                             /\ frames'[table[p]].dirty = frames[table[p]].dirty

\* After the step the disk has page p as it was last changed.
PageToDisk(p) ==
    /\ stable'[p] = stable[p] /\ vouched'[p] = vouched[p]
    /\ written'[p] = written[p] /\ disk'[p] = written[p]
    /\ nblocks'[Rel(p)] \in Nat /\ nblocks[Rel(p)] <= nblocks'[Rel(p)]
    /\ table'[p] # NoFrame => frames'[table'[p]].val = written[p]

\* The goroutines that are about to mark a change stay so.
ModifiersStay == \A d \in Clients : client[d].pc = "modified" =>
                    client'[d].pc = "modified" /\ client'[d].frame = client[d].frame

LEMMA PageNumbers ==
    ASSUME StoreTyped, NEW p \in KeptPages
    PROVE  /\ written[p] \in Nat /\ stable[p] \in Nat /\ vouched[p] \in Nat /\ disk[p] \in Nat
           /\ p[2] \in Nat /\ nblocks[Rel(p)] \in Nat
<1>1. p \in Pages /\ p[2] \in Nat /\ Rel(p) \in Rels
  BY PagesArePairs
<1>2. MaxWrites \in Nat
  BY PoolAssumption
<1> QED
  BY <1>1, <1>2 DEF StoreTyped

LEMMA SamePageFits ==
    ASSUME StoreTyped, NEW p \in KeptPages, PageFits(p), SamePage(p), ModifiersStay
    PROVE  PageFits(p)'
<1>1. /\ written[p] \in Nat /\ disk[p] \in Nat
      /\ p[2] \in Nat /\ nblocks[Rel(p)] \in Nat
  BY PageNumbers
<1>2. /\ written'[p] = IF table'[p] # NoFrame THEN frames'[table'[p]].val ELSE disk'[p]
      /\ vouched'[p] <= stable'[p] /\ stable'[p] <= disk'[p] /\ disk'[p] <= written'[p]
  BY DEF PageFits, SamePage
<1>3. ~(p[2] < nblocks'[Rel(p)]) => written'[p] = 0
  <2>1. nblocks[Rel(p)] <= nblocks'[Rel(p)] /\ nblocks'[Rel(p)] \in Nat /\ written'[p] = written[p]
    BY DEF SamePage
  <2>2. ~(p[2] < nblocks[Rel(p)]) => written[p] = 0
    BY DEF PageFits
  <2> QED
    BY <1>1, <2>1, <2>2
<1>4. \/ written'[p] = disk'[p]
      \/ frames'[table'[p]].dirty
      \/ \E c \in Clients : client'[c].frame = table'[p] /\ client'[c].pc = "modified"
  <2>1. CASE written[p] = disk[p]
    BY <2>1 DEF SamePage
  <2>2. CASE written[p] # disk[p]
    <3>1. table[p] # NoFrame
      BY <2>2 DEF PageFits
    <3>2. /\ table'[p] = table[p]
          /\ frames'[table[p]].dirty = frames[table[p]].dirty
      BY <3>1 DEF SamePage
    <3>3. CASE frames[table[p]].dirty
      BY <3>2, <3>3
    <3>4. CASE \E c \in Clients : client[c].frame = table[p] /\ client[c].pc = "modified"
      BY <3>2, <3>4 DEF ModifiersStay
    <3> QED
      BY <2>2, <3>3, <3>4 DEF PageFits
  <2> QED
    BY <2>1, <2>2
<1> QED
  BY <1>2, <1>3, <1>4 DEF PageFits

LEMMA PageToDiskFits ==
    ASSUME StoreTyped, NEW p \in KeptPages, PageFits(p), PageToDisk(p)
    PROVE  PageFits(p)'
<1>1. /\ written[p] \in Nat /\ disk[p] \in Nat /\ stable[p] \in Nat
      /\ p[2] \in Nat /\ nblocks[Rel(p)] \in Nat
  BY PageNumbers
<1>2. stable[p] <= written[p] /\ vouched[p] <= stable[p]
  BY <1>1 DEF PageFits
<1>3. ~(p[2] < nblocks'[Rel(p)]) => written[p] = 0
  <2>1. nblocks[Rel(p)] <= nblocks'[Rel(p)] /\ nblocks'[Rel(p)] \in Nat
    BY DEF PageToDisk
  <2>2. ~(p[2] < nblocks[Rel(p)]) => written[p] = 0
    BY DEF PageFits
  <2> QED
    BY <1>1, <2>1, <2>2
<1> QED
  BY <1>1, <1>2, <1>3 DEF PageFits, PageToDisk

\* A session that takes no step, or one that leaves its changes alone.
GoesOn(k, k2) ==
    /\ k2.wrote = k.wrote
    /\ k2.pc = "bit" => k.pc = "bit"
    /\ k.pc = "modified" => k2.pc = "modified" /\ k2.frame = k.frame
    /\ k2.pc \in Flushing \cup {"walk"} =>
          k2.walk = 0 \/ (k.pc \in Flushing \cup {"walk"} /\ k2.walk = k.walk)

LEMMA SamePageOwn ==
    ASSUME PoolTyped, NEW p \in KeptPages, NEW k, NEW k2, OwnFits(k, p), SamePage(p), GoesOn(k, k2)
    PROVE  /\ k2.wrote[p] <= written'[p]
           /\ \/ k2.wrote[p] <= disk'[p]
              \/ /\ table'[p] # NoFrame
                 /\ frames'[table'[p]].dirty \/ (k2.pc = "modified" /\ k2.frame = table'[p])
                 /\ k2.pc \in Flushing \cup {"walk"} => k2.walk <= table'[p]
           /\ k2.pc = "bit" => k2.wrote[p] <= stable'[p]
<1>1. table[p] # NoFrame => 0 <= table[p]
  BY PagesArePairs, FramesAreNat DEF PoolTyped
<1> QED
  BY <1>1 DEF OwnFits, SamePage, GoesOn

LEMMA PageToDiskOwn ==
    ASSUME NEW p \in KeptPages, NEW k, NEW k2, OwnFits(k, p), PageToDisk(p),
           k2.wrote = k.wrote, k2.pc = "bit" => k.pc = "bit"
    PROVE  /\ k2.wrote[p] <= written'[p]
           /\ k2.wrote[p] <= disk'[p]
           /\ k2.pc = "bit" => k2.wrote[p] <= stable'[p]
BY DEF OwnFits, PageToDisk

\* A step that brings some kept pages to disk and leaves the others alone.
PagesMove == \A p \in KeptPages : SamePage(p) \/ PageToDisk(p)

LEMMA PagesKeep ==
    ASSUME StoreTyped, PagesFit, PagesMove, ModifiersStay
    PROVE  PagesFit'
<1>1. ASSUME NEW p \in KeptPages PROVE PageFits(p)'
  <2>1. CASE SamePage(p)
    BY <2>1, SamePageFits DEF PagesFit
  <2>2. CASE PageToDisk(p)
    BY <2>2, PageToDiskFits DEF PagesFit
  <2> QED
    BY <2>1, <2>2 DEF PagesMove
<1> QED
  BY <1>1 DEF PagesFit

LEMMA OwnsKeep ==
    ASSUME PoolTyped, OwnsFit, PagesMove,
           NEW d \in Clients, NEW p \in KeptPages, GoesOn(client[d], client'[d])
    PROVE  OwnFits(client[d], p)'
<1>1. OwnFits(client[d], p)
  BY DEF OwnsFit
<1>2. CASE SamePage(p)
  BY <1>1, <1>2, SamePageOwn DEF OwnFits
<1>3. CASE PageToDisk(p)
  BY <1>1, <1>3, PageToDiskOwn DEF OwnFits, GoesOn
<1> QED
  BY <1>2, <1>3 DEF PagesMove

LEMMA ContentsKeep ==
    ASSUME PoolTyped, StoreTyped, PagesFit, OwnsFit, PagesMove,
           \A d \in Clients : GoesOn(client[d], client'[d])
    PROVE  PagesFit' /\ OwnsFit'
<1>1. ModifiersStay
  BY DEF ModifiersStay, GoesOn
<1> QED
  BY <1>1, PagesKeep, OwnsKeep DEF OwnsFit

\* The same, when the session whose step it is fits by itself.
LEMMA ContentsOfOthers ==
    ASSUME PoolTyped, StoreTyped, PagesFit, OwnsFit, PagesMove, ModifiersStay,
           NEW c \in Clients, Only(c), \A p \in KeptPages : OwnFits(client[c], p)'
    PROVE  PagesFit' /\ OwnsFit'
<1>1. ASSUME NEW d \in Clients, d # c, NEW p \in KeptPages PROVE OwnFits(client[d], p)'
  <2>1. GoesOn(client[d], client'[d])
    BY <1>1 DEF Only, GoesOn
  <2> QED
    BY <2>1, OwnsKeep
<1> QED
  BY <1>1, PagesKeep DEF OwnsFit

-----------------------------------------------------------------------------
(* Eviction: what PinMiss, Extend and LoadFails have in common.            *)

Evicting(v, p) ==
    /\ v \in Free
    /\ \A g \in Frames \ {v} : SameContent(g) /\ frames'[g].pins = frames[g].pins
    /\ table' = [q \in Pages |-> IF q = p THEN v ELSE IF table[q] = v THEN NoFrame ELSE table[q]]
    /\ \A q \in Pages \ {p} :
          disk'[q] = IF MustFlush(v) /\ frames[v].page = q THEN frames[v].val ELSE disk[q]
    /\ \A f \in Frames : f >= nused' => f >= nused /\ f # v

BlocksGrow == \A r \in Rels : nblocks'[r] \in Nat /\ nblocks[r] <= nblocks'[r]

LEMMA EvictKeepsUsed ==
    ASSUME NEW v, NEW p, PoolTyped, Evicting(v, p)
    PROVE  InUseKeep
<1>1. \A f \in Frames : frames[f].pins > 0 => f # v
  BY DEF Evicting, Free
<1> QED
  BY <1>1 DEF InUseKeep, Evicting, SameContent

LEMMA EvictPages ==
    ASSUME NEW v, NEW p, TypeInv, CacheFits, PinsFit, PagesFit, Evicting(v, p), BlocksGrow,
           UNCHANGED <<stable, written, vouched>>, NEW q \in KeptPages, q # p
    PROVE  SamePage(q) \/ PageToDisk(q)
<1>1. /\ q \in Pages /\ Rel(q) \in Rels /\ v \in Frames /\ v # NoFrame
      /\ frames[v].pins = 0 /\ table[q] \in Frames \cup {NoFrame}
  BY PagesArePairs, FramesAreNat DEF Evicting, Free, TypeInv, PoolTyped
<1>2. nblocks'[Rel(q)] \in Nat /\ nblocks[Rel(q)] <= nblocks'[Rel(q)]
  BY <1>1 DEF BlocksGrow
<1>3. PageFits(q)
  BY DEF PagesFit
<1>4. table'[q] = IF table[q] = v THEN NoFrame ELSE table[q]
  BY <1>1 DEF Evicting
<1>5. disk'[q] = IF MustFlush(v) /\ frames[v].page = q THEN frames[v].val ELSE disk[q]
  BY <1>1 DEF Evicting
<1>6. CASE table[q] = v
  <2>1. frames[v].valid /\ frames[v].page = q /\ written[q] = frames[v].val
    BY <1>1, <1>3, <1>6 DEF CacheFits, PageFits
  <2>2. ~\E c \in Clients : client[c].frame = table[q] /\ client[c].pc = "modified"
    <3>1. SUFFICES ASSUME NEW c \in Clients, client[c].frame = v PROVE FALSE
      BY <1>6
    <3>2. frames[v].pins > 0
      BY <1>1, <3>1, HolderPins
    <3> QED
      BY <1>1, <3>2
  <2>3. disk'[q] = written[q]
    <3>1. CASE frames[v].dirty
      BY <1>5, <2>1, <3>1 DEF MustFlush
    <3>2. CASE ~frames[v].dirty
      <4>1. written[q] = disk[q]
        BY <1>3, <1>6, <2>2, <3>2 DEF PageFits
      <4> QED
        BY <1>5, <3>2, <4>1 DEF MustFlush
    <3> QED
      BY <3>1, <3>2
  <2> QED
    BY <1>2, <1>4, <1>6, <2>3 DEF PageToDisk
<1>7. CASE table[q] # v
  <2>1. ~(MustFlush(v) /\ frames[v].page = q)
    BY <1>1, <1>7 DEF MustFlush, CacheFits
  <2>2. disk'[q] = disk[q] /\ table'[q] = table[q]
    BY <1>4, <1>5, <1>7, <2>1
  <2>3. table[q] # NoFrame => SameContent(table[q])
    BY <1>1, <1>7 DEF Evicting
  <2> QED
    BY <1>2, <2>2, <2>3 DEF SamePage, SameContent
<1> QED
  BY <1>6, <1>7

\* The frame has the page that was asked for, or is empty.
LEMMA EvictCache ==
    ASSUME NEW v, NEW p, TypeInv, CacheFits, Evicting(v, p), BlocksGrow,
           \/ /\ p \in Pages /\ table[p] = NoFrame /\ p[2] < nblocks'[Rel(p)]
              /\ frames'[v].valid /\ frames'[v].page = p
           \/ p = NoPage /\ ~frames'[v].valid
    PROVE  CacheFits'
<1>1. v \in Frames /\ v # NoFrame /\ NoPage \notin Pages
  BY PagesArePairs, FramesAreNat DEF Evicting, Free
<1>2. \A q \in Pages : table[q] \in Frames \cup {NoFrame}
  BY DEF TypeInv, PoolTyped
<1>3. \A q \in Pages : table'[q] = IF q = p THEN v ELSE IF table[q] = v THEN NoFrame ELSE table[q]
  BY DEF Evicting
<1>4. ASSUME NEW f \in Frames, frames'[f].valid
      PROVE  frames'[f].page \in Pages /\ table'[frames'[f].page] = f
  <2>1. CASE f = v
    BY <1>1, <1>3, <1>4, <2>1
  <2>2. CASE f # v
    <3>1. SameContent(f)
      BY <2>2 DEF Evicting
    <3>2. frames[f].valid /\ frames'[f].page = frames[f].page
      BY <1>4, <3>1 DEF SameContent
    <3>3. frames[f].page \in Pages /\ table[frames[f].page] = f
      BY <3>2 DEF CacheFits
    <3>4. f # NoFrame
      BY FramesAreNat
    <3>5. frames[f].page # p
      BY <1>1, <3>3, <3>4
    <3> QED
      BY <1>3, <2>2, <3>2, <3>3, <3>5
  <2> QED
    BY <2>1, <2>2
<1>5. ASSUME NEW q \in Pages, table'[q] # NoFrame
      PROVE  /\ frames'[table'[q]].valid /\ frames'[table'[q]].page = q
             /\ q[2] < nblocks'[Rel(q)]
  <2>1. CASE q = p
    BY <1>1, <1>3, <2>1
  <2>2. CASE q # p
    <3>1. table'[q] = table[q] /\ table[q] # v /\ table[q] # NoFrame /\ table[q] \in Frames
      BY <1>2, <1>3, <1>5, <2>2
    <3>2. SameContent(table[q])
      BY <3>1 DEF Evicting
    <3>3. frames[table[q]].valid /\ frames[table[q]].page = q /\ q[2] < nblocks[Rel(q)]
      BY <3>1 DEF CacheFits
    <3>4. nblocks[Rel(q)] \in Nat /\ q[2] \in Nat /\ nblocks'[Rel(q)] \in Nat
          /\ nblocks[Rel(q)] <= nblocks'[Rel(q)]
      BY PagesArePairs DEF BlocksGrow, TypeInv, StoreTyped
    <3>5. q[2] < nblocks'[Rel(q)]
      BY <3>3, <3>4
    <3> QED
      BY <3>1, <3>2, <3>3, <3>5 DEF SameContent
  <2> QED
    BY <2>1, <2>2
<1>6. ASSUME NEW f \in Frames, f >= nused'
      PROVE  ~frames'[f].valid /\ frames'[f].pins = 0
  <2>1. f >= nused /\ f # v
    BY <1>6 DEF Evicting
  <2> QED
    BY <2>1 DEF Evicting, SameContent, CacheFits
<1> QED
  BY <1>4, <1>5, <1>6 DEF CacheFits

\* The sweep lowers usage counts and nothing else.
LEMMA SweptFrames ==
    ASSUME PoolTyped, CacheFits
    PROVE  /\ Swept(Victim) \in [Frames -> FrameStates]
           /\ \A g \in Frames :
                 LET s == Swept(Victim)[g]
                 IN  /\ s.page = frames[g].page /\ s.valid = frames[g].valid
                     /\ s.pins = frames[g].pins /\ s.dirty = frames[g].dirty
                     /\ s.val = frames[g].val
<1>1. Victim.usage \in [Frames -> 0 .. MaxUsageCount]
  BY VictimTyped
<1>2. ASSUME NEW g \in Frames
      PROVE  /\ Swept(Victim)[g] = [frames[g] EXCEPT !.usage = Victim.usage[g]]
             /\ frames[g] \in FrameStates /\ Victim.usage[g] \in 0 .. MaxUsageCount
  BY <1>1 DEF Swept, PoolTyped
<1>3. Swept(Victim) = [g \in Frames |-> Swept(Victim)[g]]
  BY DEF Swept
<1> HIDE DEF Swept
<1>4. ASSUME NEW g \in Frames
      PROVE  /\ Swept(Victim)[g] \in FrameStates
             /\ LET s == Swept(Victim)[g]
                IN  /\ s.page = frames[g].page /\ s.valid = frames[g].valid
                    /\ s.pins = frames[g].pins /\ s.dirty = frames[g].dirty
                    /\ s.val = frames[g].val
  BY <1>2, SMTT(30), ZenonT(30) DEF FrameStates
<1> QED
  BY <1>3, <1>4

\* A goroutine that comes to hold a frame, or lets go of it.
LEMMA HoldsFits ==
    ASSUME ClientsTyped, NEW c \in Clients, NEW f \in Frames \cup {NoFrame},
           NEW p \in Pages \cup {NoPage}, NEW pc \in Pcs, Holds(c, f, p, pc)
    PROVE  /\ ClientsTyped' /\ Only(c)
           /\ client'[c].pc = pc /\ client'[c].frame = f /\ client'[c].page = p
           /\ client'[c].walk = client[c].walk /\ client'[c].wrote = client[c].wrote
<1> DEFINE b == [client[c] EXCEPT !.pc = pc, !.frame = f, !.page = p]
<1>1. client[c] \in ClientStates /\ client \in [Clients -> ClientStates]
  BY DEF ClientsTyped
<1>2. /\ b \in ClientStates /\ b.pc = pc /\ b.frame = f /\ b.page = p
      /\ b.walk = client[c].walk /\ b.wrote = client[c].wrote
  BY <1>1 DEF ClientStates
<1>3. client' = [client EXCEPT ![c] = b]
  BY <1>1 DEF Holds
<1> HIDE DEF b
<1>4. client' \in [Clients -> ClientStates] /\ client'[c] = b /\ Only(c)
  BY <1>1, <1>2, <1>3 DEF Only
<1> QED
  BY <1>2, <1>4 DEF ClientsTyped

LEMMA AllGoOn ==
    ASSUME NEW c \in Clients, Only(c), GoesOn(client[c], client'[c])
    PROVE  \A d \in Clients : GoesOn(client[d], client'[d])
<1>1. ASSUME NEW d \in Clients, d # c PROVE GoesOn(client[d], client'[d])
  BY <1>1 DEF Only, GoesOn
<1> QED
  BY <1>1

\* A goroutine that holds nothing, and one that holds a frame.
LEMMA HolderFrame ==
    ASSUME TypeInv, NEW c \in Clients, ClientFits(client[c])
    PROVE  /\ client[c] \in ClientStates
           /\ client[c].pc \in {"idle", "walk", "bit"} => client[c].frame = NoFrame
           /\ client[c].pc \notin {"idle", "walk", "bit"} =>
                 client[c].frame \in Frames /\ client[c].frame # NoFrame /\ InUse(client[c].frame)
BY FramesAreNat DEF TypeInv, ClientsTyped, ClientStates, ClientFits

\* Only a frame that is cached or held gets or loses a pin.
PinsOfUsed ==
    \A g \in Frames : frames'[g].pins # frames[g].pins => frames[g].valid \/ frames[g].pins > 0

\* A step of one goroutine that changes no page, cached or stored: what is
\* left to show is that the goroutine itself, its pin and its lock fit.
LEMMA QuietShape ==
    ASSUME IndInv, NEW c \in Clients, Only(c),
           PoolTyped', LocksTyped', ClientsTyped',
           UNCHANGED <<table, nused, dropVars, nblocks, disk, stable, written, vouched>>,
           \A g \in Frames : SameContent(g), PinsOfUsed,
           PinsFit', LocksFit', ClientFits(client[c])'
    PROVE  TypeInv' /\ PoolInv' /\ PagesMove
<1> USE DEF IndInv, PoolInv
<1>1. TypeInv'
  BY DEF TypeInv, StoreTyped, dropVars
<1>2. CacheFits'
  BY DEF CacheFits, PinsOfUsed, SameContent, TypeInv, PoolTyped
<1>3. InUseKeep
  BY DEF InUseKeep, SameContent
<1>4. ClientsFit'
  BY <1>3, OthersFit DEF TypeInv
<1>5. PagesMove
  <2>1. \A q \in KeptPages : SamePage(q)
    BY PagesArePairs DEF SamePage, SameContent, TypeInv, PoolTyped, StoreTyped
  <2> QED
    BY <2>1 DEF PagesMove
<1> QED
  BY <1>1, <1>2, <1>4, <1>5

LEMMA QuietStep ==
    ASSUME IndInv, NEW c \in Clients, Only(c),
           PoolTyped', LocksTyped', ClientsTyped',
           UNCHANGED <<table, nused, dropVars, nblocks, disk, stable, written, vouched>>,
           \A g \in Frames : SameContent(g), PinsOfUsed,
           PinsFit', LocksFit', ClientFits(client[c])',
           GoesOn(client[c], client'[c])
    PROVE  IndInv'
<1>1. TypeInv' /\ PoolInv' /\ PagesMove
  BY QuietShape
<1>2. PagesFit' /\ OwnsFit'
  BY <1>1, AllGoOn, ContentsKeep DEF IndInv, TypeInv
<1> QED
  BY <1>1, <1>2 DEF IndInv

-----------------------------------------------------------------------------
(* Pin, Extend, Unpin.                                                     *)

LEMMA PinHitInv ==
    ASSUME IndInv, NEW c \in Clients, NEW p \in Pages, PinHit(c, p)
    PROVE  IndInv'
<1> USE DEF IndInv, PoolInv
<1>1. PICK f \in Frames : f = table[p]
  BY DEF PinHit, TypeInv, PoolTyped
<1>2. f # NoFrame /\ frames[f].valid /\ frames[f].page = p /\ f < nused
  <2>1. frames[f].valid /\ frames[f].page = p
    BY <1>1 DEF PinHit, CacheFits
  <2>2. ~(f >= nused)
    BY <2>1 DEF CacheFits
  <2> QED
    BY <2>1, <2>2, FramesAreNat DEF TypeInv, PoolTyped
<1>3. frames[f] \in FrameStates /\ frames \in [Frames -> FrameStates]
  BY DEF TypeInv, PoolTyped
<1>4. PICK b \in FrameStates :
         /\ frames' = [frames EXCEPT ![f] = b]
         /\ b.page = frames[f].page /\ b.valid = frames[f].valid /\ b.dirty = frames[f].dirty
         /\ b.val = frames[f].val /\ b.pins = frames[f].pins + 1
  <2> DEFINE u == IF frames[f].usage < MaxUsageCount THEN frames[f].usage + 1 ELSE frames[f].usage
             b == [frames[f] EXCEPT !.pins = frames[f].pins + 1, !.usage = u]
  <2>1. frames[f].pins + 1 \in Nat /\ u \in 0 .. MaxUsageCount
    BY <1>3, FramesAreNat DEF FrameStates
  <2> HIDE DEF u
  <2>2. b \in FrameStates
    BY <1>3, <2>1 DEF FrameStates
  <2>3. /\ b.page = frames[f].page /\ b.valid = frames[f].valid /\ b.dirty = frames[f].dirty
        /\ b.val = frames[f].val /\ b.pins = frames[f].pins + 1
    BY <1>3 DEF FrameStates
  <2>4. frames' = [frames EXCEPT ![f] = b]
    BY <1>1, <1>3 DEF PinHit, u
  <2> HIDE DEF b
  <2> QED
    BY <2>2, <2>3, <2>4
<1>5. /\ client[c].pc = "idle" /\ Holds(c, f, p, "pinned")
      /\ UNCHANGED <<table, nused, hand, lockVars, storeVars, written, vouched>>
  BY <1>1 DEF PinHit
<1>6. /\ ClientsTyped' /\ Only(c)
      /\ client'[c].pc = "pinned" /\ client'[c].frame = f /\ client'[c].page = p
      /\ client'[c].walk = client[c].walk /\ client'[c].wrote = client[c].wrote
  BY <1>5, HoldsFits DEF TypeInv, Pcs
<1>7. \A g \in Frames : SameContent(g)
  BY <1>3, <1>4 DEF SameContent
<1>8. PinsMove(f, 1)
  BY <1>3, <1>4 DEF PinsMove
<1>9. client[c].frame = NoFrame
  BY <1>5, HolderFrame DEF ClientsFit
<1>10. PoolTyped' /\ LocksTyped'
  BY <1>3, <1>4, <1>5 DEF TypeInv, PoolTyped, LocksTyped, lockVars
<1>11. PinsOfUsed
  BY <1>2, <1>8 DEF PinsOfUsed, PinsMove
<1>12. PinsFit' /\ LocksFit'
  BY <1>5, <1>6, <1>8, <1>9, PinTaken, LocksUntouched DEF Writing
<1>13. ClientFits(client[c])'
  BY <1>2, <1>6, <1>7 DEF ClientFits, InUse, SameContent, Writing, Flushing
<1>14. GoesOn(client[c], client'[c])
  BY <1>5, <1>6 DEF GoesOn, Flushing
<1> QED
  BY <1>5, <1>6, <1>7, <1>10, <1>11, <1>12, <1>13, <1>14, QuietStep DEF storeVars, dropVars

LEMMA PinsSet ==
    ASSUME PoolTyped, NEW f \in Frames, NEW n \in Nat, frames' = [frames EXCEPT ![f].pins = n]
    PROVE  /\ frames' \in [Frames -> FrameStates]
           /\ \A g \in Frames : SameContent(g)
           /\ \A g \in Frames : frames'[g].pins = IF g = f THEN n ELSE frames[g].pins
<1> DEFINE b == [frames[f] EXCEPT !.pins = n]
<1>1. frames[f] \in FrameStates /\ frames \in [Frames -> FrameStates]
  BY DEF PoolTyped
<1>2. /\ b \in FrameStates
      /\ b.page = frames[f].page /\ b.valid = frames[f].valid /\ b.dirty = frames[f].dirty
      /\ b.val = frames[f].val /\ b.pins = n
  BY <1>1 DEF FrameStates
<1>3. frames' = [frames EXCEPT ![f] = b]
  BY <1>1
<1> HIDE DEF b
<1> QED
  BY <1>1, <1>2, <1>3 DEF SameContent

LEMMA UnpinInv ==
    ASSUME IndInv, NEW c \in Clients, Unpin(c)
    PROVE  IndInv'
<1> USE DEF IndInv, PoolInv
<1>1. PICK f \in Frames : f = client[c].frame
  BY HolderFrame DEF Unpin, ClientsFit
<1>2. PICK n \in Nat : n = frames[f].pins - 1
  BY <1>1, HolderPins
<1>3. /\ client[c].pc = "pinned" /\ Holds(c, NoFrame, NoPage, "idle")
      /\ frames' = [frames EXCEPT ![f].pins = n]
      /\ UNCHANGED <<table, nused, hand, lockVars, storeVars, written, vouched>>
  BY <1>1, <1>2 DEF Unpin
<1>4. /\ ClientsTyped' /\ Only(c)
      /\ client'[c].pc = "idle" /\ client'[c].frame = NoFrame /\ client'[c].page = NoPage
      /\ client'[c].walk = client[c].walk /\ client'[c].wrote = client[c].wrote
  BY <1>3, HoldsFits DEF TypeInv, Pcs
<1>5. /\ frames' \in [Frames -> FrameStates]
      /\ \A g \in Frames : SameContent(g)
      /\ \A g \in Frames : frames'[g].pins = IF g = f THEN n ELSE frames[g].pins
  BY <1>3, PinsSet DEF TypeInv
<1>6. frames[f].pins \in Nat /\ frames[f].pins > 0
  BY <1>1, HolderPins
<1>7. PinsMove(f, -1) /\ PinsOfUsed
  BY <1>2, <1>5, <1>6 DEF PinsMove, PinsOfUsed
<1>8. PoolTyped' /\ LocksTyped'
  BY <1>3, <1>5 DEF TypeInv, PoolTyped, LocksTyped, lockVars
<1>9. PinsFit' /\ LocksFit'
  BY <1>1, <1>3, <1>4, <1>7, PinGiven, LocksUntouched DEF Writing
<1>10. ClientFits(client[c])'
  BY <1>4 DEF ClientFits, Writing, Flushing
<1>11. GoesOn(client[c], client'[c])
  BY <1>3, <1>4 DEF GoesOn, Flushing
<1> QED
  BY <1>3, <1>4, <1>5, <1>7, <1>8, <1>9, <1>10, <1>11, QuietStep DEF storeVars, dropVars

\* Nothing is flushed or evicted, but the sweep has been round.
LEMMA VictimFailsInv ==
    ASSUME IndInv, NEW c \in Clients, VictimFails(c)
    PROVE  IndInv'
<1> USE DEF IndInv, PoolInv
<1>1. /\ frames' = Swept(Victim) /\ hand' = Victim.hand
      /\ UNCHANGED <<table, nused, lockVars, dropVars, nblocks, disk, stable, client,
                     written, vouched>>
  BY DEF VictimFails
<1>2. /\ frames' \in [Frames -> FrameStates] /\ hand' \in Frames
      /\ \A g \in Frames : SameContent(g) /\ frames'[g].pins = frames[g].pins
  BY <1>1, VictimTyped, SweptFrames DEF TypeInv, SameContent
<1>3. Only(c) /\ PinsOfUsed /\ PinsSame /\ client' = client
  BY <1>1, <1>2 DEF Only, PinsOfUsed, PinsSame
<1>4. PoolTyped' /\ LocksTyped' /\ ClientsTyped'
  BY <1>1, <1>2 DEF TypeInv, PoolTyped, LocksTyped, ClientsTyped, lockVars
<1>5. PinsFit' /\ LocksFit'
  BY <1>1, <1>3, PinsUntouched, LocksUntouched
<1>6. ClientFits(client[c])'
  <2>1. InUseKeep
    BY <1>2 DEF InUseKeep, SameContent
  <2> QED
    BY <1>3, <2>1, StillFits DEF TypeInv
<1>7. GoesOn(client[c], client'[c])
  BY <1>3 DEF GoesOn
<1> QED
  BY <1>1, <1>2, <1>3, <1>4, <1>5, <1>6, <1>7, QuietStep

\* What the disk has of the other pages when a frame is evicted.
DiskAfter(v, p) ==
    \A q \in Pages \ {p} :
        disk'[q] = IF MustFlush(v) /\ frames[v].page = q THEN frames[v].val ELSE disk[q]

LEMMA EvictIs ==
    ASSUME PoolTyped, CacheFits, NEW v \in Frames, NEW p, v = Victim.victim, Evict(Victim, p),
           DiskAfter(v, p),
           \A g \in Frames \ {v} : SameContent(g) /\ frames'[g].pins = frames[g].pins
    PROVE  /\ Evicting(v, p)
           /\ hand' \in Frames /\ nused' \in 0 .. NFrames
           /\ table' \in [Pages -> Frames \cup {NoFrame}]
<1>1. v # NoFrame /\ v \in Free /\ (nused < NFrames => v = nused) /\ Victim.hand \in Frames
  BY VictimTyped, FramesAreNat
<1>2. nused \in 0 .. NFrames /\ NFrames \in Nat /\ table \in [Pages -> Frames \cup {NoFrame}]
  BY FramesAreNat DEF PoolTyped
<1>3. nused' = IF nused < NFrames THEN nused + 1 ELSE nused
  BY DEF Evict
<1>4. \A f \in Frames : f >= nused' => f >= nused /\ f # v
  BY <1>1, <1>2, <1>3, FramesAreNat
<1>5. table' = [q \in Pages |-> IF q = p THEN v ELSE IF table[q] = v THEN NoFrame ELSE table[q]]
  BY DEF Evict
<1>6. table' \in [Pages -> Frames \cup {NoFrame}]
  BY <1>2, <1>5
<1>7. hand' \in Frames /\ nused' \in 0 .. NFrames
  BY <1>1, <1>2, <1>3 DEF Evict
<1> QED
  BY <1>1, <1>4, <1>5, <1>6, <1>7 DEF Evicting, DiskAfter

\* A page comes into the pool: Pin reads it, Extend makes it.
LEMMA LoadsInv ==
    ASSUME IndInv, NEW c \in Clients, NEW p \in Pages, NEW x \in 0 .. MaxWrites,
           client[c].pc = "idle", table[p] = NoFrame, Victim.victim # NoFrame,
           Evict(Victim, p), Install(Victim, p, x), Holds(c, Victim.victim, p, "pinned"),
           DiskAfter(Victim.victim, p), disk' \in [Pages -> 0 .. MaxWrites],
           nblocks' \in [Rels -> Nat], BlocksGrow, p[2] < nblocks'[Rel(p)],
           p \in KeptPages => disk'[p] = x /\ written[p] = x,
           UNCHANGED <<lockVars, dropVars, stable, written, vouched>>
    PROVE  IndInv'
<1> USE DEF IndInv, PoolInv
<1>1. PICK v \in Frames : v = Victim.victim /\ frames[v].pins = 0
  BY VictimTyped DEF TypeInv, Free
<1> DEFINE b == [page |-> p, valid |-> TRUE, pins |-> 1, usage |-> 1, dirty |-> FALSE, val |-> x]
<1>2. b \in FrameStates
  BY FramesAreNat DEF FrameStates
<1>3. /\ frames' \in [Frames -> FrameStates] /\ frames'[v] = b
      /\ \A g \in Frames \ {v} : frames'[g] = Swept(Victim)[g]
  BY <1>1, <1>2, SweptFrames DEF Install, TypeInv
<1>4. /\ frames'[v].page = p /\ frames'[v].valid /\ frames'[v].pins = 1
      /\ ~frames'[v].dirty /\ frames'[v].val = x
  BY <1>3
<1> HIDE DEF b
<1>5. \A g \in Frames \ {v} : SameContent(g) /\ frames'[g].pins = frames[g].pins
  BY <1>3, SweptFrames DEF SameContent, TypeInv
<1>6. /\ Evicting(v, p) /\ hand' \in Frames /\ nused' \in 0 .. NFrames
      /\ table' \in [Pages -> Frames \cup {NoFrame}]
  BY <1>1, <1>5, EvictIs DEF TypeInv
<1>7. /\ ClientsTyped' /\ Only(c)
      /\ client'[c].pc = "pinned" /\ client'[c].frame = v /\ client'[c].page = p
      /\ client'[c].walk = client[c].walk /\ client'[c].wrote = client[c].wrote
  BY <1>1, HoldsFits DEF TypeInv, Pcs
<1>8. client[c].frame = NoFrame
  BY HolderFrame DEF ClientsFit
<1>9. TypeInv'
  BY <1>3, <1>6, <1>7
     DEF TypeInv, PoolTyped, LocksTyped, StoreTyped, lockVars, dropVars
<1>10. CacheFits'
  BY <1>4, <1>6, EvictCache
<1>11. PinsFit'
  <2>1. PinsMove(v, 1)
    BY <1>1, <1>4, <1>5 DEF PinsMove
  <2> QED
    BY <1>7, <1>8, <2>1, PinTaken
<1>12. LocksFit'
  BY <1>7, LocksUntouched DEF Writing
<1>13. ClientsFit'
  <2>1. InUseKeep
    BY <1>6, EvictKeepsUsed DEF TypeInv
  <2>2. ClientFits(client[c])'
    BY <1>4, <1>7, FramesAreNat DEF ClientFits, InUse, Writing, Flushing
  <2> QED
    BY <1>7, <2>1, <2>2, OthersFit DEF TypeInv
<1>14. PagesMove
  <2>1. ASSUME NEW q \in KeptPages, q # p PROVE SamePage(q) \/ PageToDisk(q)
    BY <1>6, <2>1, EvictPages
  <2>2. ASSUME p \in KeptPages PROVE PageToDisk(p)
    <3>1. table'[p] = v /\ Rel(p) \in Rels
      BY <1>6, PagesArePairs DEF Evicting
    <3> QED
      BY <1>4, <2>2, <3>1 DEF PageToDisk, BlocksGrow
  <2> QED
    BY <2>1, <2>2 DEF PagesMove
<1>15. GoesOn(client[c], client'[c])
  BY <1>7 DEF GoesOn, Flushing
<1>16. PagesFit' /\ OwnsFit'
  BY <1>7, <1>14, <1>15, AllGoOn, ContentsKeep DEF TypeInv
<1> QED
  BY <1>9, <1>10, <1>11, <1>12, <1>13, <1>16

LEMMA PinMissInv ==
    ASSUME IndInv, NEW c \in Clients, NEW p \in Pages, PinMiss(c, p)
    PROVE  IndInv'
<1> USE DEF IndInv, PoolInv
<1>1. PICK x \in 0 .. MaxWrites : x = disk[p]
  BY DEF TypeInv, StoreTyped
<1>2. /\ client[c].pc = "idle" /\ table[p] = NoFrame /\ Victim.victim # NoFrame
      /\ Evict(Victim, p) /\ Install(Victim, p, x) /\ Holds(c, Victim.victim, p, "pinned")
      /\ disk' = IF MustFlush(Victim.victim) THEN DiskWith(Victim.victim) ELSE disk
      /\ UNCHANGED <<lockVars, dropVars, nblocks, stable, failures, written, vouched>>
  BY <1>1 DEF PinMiss
<1>3. Victim.victim \in Frames
  BY <1>2, VictimTyped DEF TypeInv, Free
<1>4. disk \in [Pages -> 0 .. MaxWrites] /\ frames[Victim.victim] \in FrameStates
  BY <1>3 DEF TypeInv, StoreTyped, PoolTyped
<1>5. \A q \in Pages : disk'[q] = IF MustFlush(Victim.victim) /\ frames[Victim.victim].page = q
                                  THEN frames[Victim.victim].val ELSE disk[q]
  BY <1>2, <1>4 DEF DiskWith
<1>6. disk' \in [Pages -> 0 .. MaxWrites]
  BY <1>2, <1>4 DEF DiskWith, FrameStates
<1>7. nblocks' \in [Rels -> Nat] /\ BlocksGrow
  BY <1>2 DEF TypeInv, StoreTyped, BlocksGrow
<1>8. p[2] < nblocks'[Rel(p)]
  BY <1>2 DEF PinMiss, Exists
<1>9. disk'[p] = x
  <2>1. ~(frames[Victim.victim].valid /\ frames[Victim.victim].page = p)
    BY <1>2, <1>3, FramesAreNat DEF CacheFits
  <2> QED
    BY <1>1, <1>5, <2>1 DEF MustFlush
<1>10. p \in KeptPages => written[p] = x
  BY <1>1, <1>2 DEF PagesFit, PageFits
<1> QED
  BY <1>2, <1>5, <1>6, <1>7, <1>8, <1>9, <1>10, LoadsInv DEF DiskAfter

LEMMA ExtendInv ==
    ASSUME IndInv, NEW c \in Clients, NEW r \in Rels, Extend(c, r)
    PROVE  IndInv'
<1> USE DEF IndInv, PoolInv
<1>1. PICK p \in Pages : p = <<r, nblocks[r]>>
  BY DEF Extend
<1>2. /\ client[c].pc = "idle" /\ Victim.victim # NoFrame
      /\ Evict(Victim, p) /\ Install(Victim, p, 0) /\ Holds(c, Victim.victim, p, "pinned")
      /\ disk' = IF MustFlush(Victim.victim)
                 THEN [DiskWith(Victim.victim) EXCEPT ![p] = 0] ELSE [disk EXCEPT ![p] = 0]
      /\ nblocks' = [nblocks EXCEPT ![r] = @ + 1]
      /\ UNCHANGED <<lockVars, dropVars, stable, failures, written, vouched>>
  BY <1>1 DEF Extend
<1>3. Rel(p) = r /\ p[2] = nblocks[r] /\ nblocks[r] \in Nat
  BY <1>1 DEF Rel, TypeInv, StoreTyped
<1>4. table[p] = NoFrame
  BY <1>3 DEF CacheFits
<1>5. Victim.victim \in Frames
  BY <1>2, VictimTyped DEF TypeInv, Free
<1>6. /\ disk \in [Pages -> 0 .. MaxWrites] /\ frames[Victim.victim] \in FrameStates
      /\ 0 \in 0 .. MaxWrites
  BY <1>5, PoolAssumption DEF TypeInv, StoreTyped, PoolTyped
<1>7. DiskAfter(Victim.victim, p)
  BY <1>2, <1>6 DEF DiskAfter, DiskWith
<1>8. disk' \in [Pages -> 0 .. MaxWrites] /\ disk'[p] = 0
  BY <1>2, <1>6 DEF DiskWith, FrameStates
<1>9. nblocks' \in [Rels -> Nat] /\ BlocksGrow /\ p[2] < nblocks'[Rel(p)]
  BY <1>2, <1>3 DEF TypeInv, StoreTyped, BlocksGrow
<1>10. p \in KeptPages => written[p] = 0
  BY <1>3 DEF PagesFit, PageFits
<1> QED
  BY <1>2, <1>4, <1>6, <1>7, <1>8, <1>9, <1>10, LoadsInv

\* The victim is evicted, and then its frame stays empty.
LEMMA LoadFailsInv ==
    ASSUME IndInv, NEW c \in Clients, LoadFails(c)
    PROVE  IndInv'
<1> USE DEF IndInv, PoolInv
<1>1. PICK v \in Frames : v = Victim.victim /\ frames[v].pins = 0
  BY VictimTyped DEF LoadFails, TypeInv, Free
<1>2. /\ Evict(Victim, NoPage)
      /\ disk' = IF MustFlush(v) THEN DiskWith(v) ELSE disk
      /\ frames' = [Swept(Victim) EXCEPT ![v].valid = FALSE, ![v].dirty = FALSE]
      /\ UNCHANGED <<lockVars, dropVars, nblocks, stable, client, written, vouched>>
  BY <1>1 DEF LoadFails
<1>3. PICK b \in FrameStates : b = Swept(Victim)[v]
  BY SweptFrames DEF TypeInv
<1> DEFINE e == [b EXCEPT !.valid = FALSE, !.dirty = FALSE]
<1>4. e \in FrameStates /\ ~e.valid /\ e.pins = b.pins
  BY <1>3 DEF FrameStates
<1>5. frames' = [Swept(Victim) EXCEPT ![v] = e]
  BY <1>2, <1>3, SweptFrames DEF TypeInv
<1> HIDE DEF e
<1>6. /\ frames' \in [Frames -> FrameStates] /\ ~frames'[v].valid
      /\ frames'[v].pins = frames[v].pins
      /\ \A g \in Frames \ {v} : frames'[g] = Swept(Victim)[g]
  BY <1>3, <1>4, <1>5, SweptFrames DEF TypeInv
<1>7. \A g \in Frames \ {v} : SameContent(g) /\ frames'[g].pins = frames[g].pins
  BY <1>6, SweptFrames DEF SameContent, TypeInv
<1>8. disk \in [Pages -> 0 .. MaxWrites] /\ frames[v] \in FrameStates
  BY DEF TypeInv, StoreTyped, PoolTyped
<1>9. DiskAfter(v, NoPage) /\ disk' \in [Pages -> 0 .. MaxWrites]
  BY <1>2, <1>8 DEF DiskAfter, DiskWith, FrameStates
<1>10. /\ Evicting(v, NoPage) /\ hand' \in Frames /\ nused' \in 0 .. NFrames
       /\ table' \in [Pages -> Frames \cup {NoFrame}]
  BY <1>1, <1>2, <1>7, <1>9, EvictIs DEF TypeInv
<1>11. Only(c) /\ client' = client /\ BlocksGrow
  BY <1>2 DEF Only, BlocksGrow, TypeInv, StoreTyped
<1>12. TypeInv'
  BY <1>2, <1>6, <1>9, <1>10
     DEF TypeInv, PoolTyped, LocksTyped, StoreTyped, ClientsTyped, lockVars, dropVars
<1>13. CacheFits'
  BY <1>6, <1>10, <1>11, EvictCache
<1>14. PinsFit'
  BY <1>6, <1>7, <1>11, PinsUntouched DEF PinsSame
<1>15. LocksFit'
  BY <1>2, <1>11, LocksUntouched
<1>16. ClientsFit'
  <2>1. InUseKeep
    BY <1>10, EvictKeepsUsed DEF TypeInv
  <2> QED
    BY <1>11, <2>1, StillFits, OthersFit DEF TypeInv
<1>17. PagesFit' /\ OwnsFit'
  <2>1. PagesMove
    BY <1>2, <1>10, <1>11, EvictPages, PagesArePairs DEF PagesMove
  <2>2. \A d \in Clients : GoesOn(client[d], client'[d])
    BY <1>11 DEF GoesOn
  <2> QED
    BY <2>1, <2>2, ContentsKeep DEF TypeInv
<1> QED
  BY <1>12, <1>13, <1>14, <1>15, <1>16, <1>17

-----------------------------------------------------------------------------
(* A change of a page: Lock, write, MarkDirty, Unlock.                     *)

LEMMA FramesStill ==
    ASSUME UNCHANGED frames
    PROVE  /\ \A g \in Frames : SameContent(g)
           /\ PinsSame /\ PinsOfUsed /\ InUseKeep
BY DEF SameContent, PinsSame, PinsOfUsed, InUseKeep

\* A goroutine that moves on and keeps the frame it has.
LEMMA PcMoves ==
    ASSUME ClientsTyped, NEW c \in Clients, NEW pc \in Pcs,
           client' = [client EXCEPT ![c].pc = pc]
    PROVE  /\ ClientsTyped' /\ Only(c)
           /\ client'[c].pc = pc /\ client'[c].frame = client[c].frame
           /\ client'[c].page = client[c].page /\ client'[c].walk = client[c].walk
           /\ client'[c].wrote = client[c].wrote
           /\ \A d \in Clients : client'[d].frame = client[d].frame
BY DEF ClientsTyped, ClientStates, Only

LEMMA LockInv ==
    ASSUME IndInv, NEW c \in Clients, Lock(c)
    PROVE  IndInv'
<1> USE DEF IndInv, PoolInv
<1>1. PICK f \in Frames : f = client[c].frame
  BY HolderFrame DEF Lock, ClientsFit
<1>2. /\ client[c].pc = "pinned" /\ writer[f] = {} /\ readers[f] = {}
      /\ writer' = [writer EXCEPT ![f] = {c}]
      /\ client' = [client EXCEPT ![c].pc = "locked"]
      /\ UNCHANGED <<poolVars, readers, storeVars, written, vouched>>
  BY <1>1 DEF Lock, Nobody
<1>3. /\ ClientsTyped' /\ Only(c)
      /\ client'[c].pc = "locked" /\ client'[c].frame = f
      /\ client'[c].page = client[c].page /\ client'[c].walk = client[c].walk
      /\ client'[c].wrote = client[c].wrote
      /\ \A d \in Clients : client'[d].frame = client[d].frame
  BY <1>1, <1>2, PcMoves DEF TypeInv, Pcs
<1>4. /\ UNCHANGED frames /\ \A g \in Frames : SameContent(g)
      /\ PinsSame /\ PinsOfUsed
  BY <1>2, FramesStill DEF poolVars
<1>5. PoolTyped' /\ LocksTyped'
  BY <1>2 DEF TypeInv, PoolTyped, LocksTyped, poolVars
<1>6. PinsFit'
  BY <1>3, <1>4, PinsUntouched
<1>7. LocksFit'
  <2>1. ASSUME NEW g \in Frames, g # f
        PROVE  /\ writer'[g] = writer[g]
               /\ {d \in Clients : client'[d].frame = g /\ client'[d].pc \in Writing}
                    = {d \in Clients : client[d].frame = g /\ client[d].pc \in Writing}
    BY <1>1, <1>2, <1>3, <2>1 DEF Only, TypeInv, LocksTyped
  <2>2. writer'[f] = {c}
    BY <1>2 DEF TypeInv, LocksTyped
  <2>3. {d \in Clients : client'[d].frame = f /\ client'[d].pc \in Writing} = {c}
    <3>1. \A d \in Clients : ~(client[d].frame = f /\ client[d].pc \in Writing)
      BY <1>2 DEF LocksFit
    <3> QED
      BY <1>3, <3>1 DEF Only, Writing
  <2>4. \A g \in Frames :
          {d \in Clients : client'[d].frame = g /\ client'[d].pc = "flushwrite"}
             = {d \in Clients : client[d].frame = g /\ client[d].pc = "flushwrite"}
    BY <1>2, <1>3 DEF Only
  <2>5. readers' = readers
    BY <1>2
  <2>6. ASSUME NEW g \in Frames
        PROVE  writer'[g] = Nobody
               \/ (readers'[g] = {} /\ \E d \in Clients : writer'[g] = {d})
    BY <1>2, <2>1, <2>2, <2>5 DEF LocksFit
  <2>7. ASSUME NEW g \in Frames
        PROVE  writer'[g] = {d \in Clients : client'[d].frame = g /\ client'[d].pc \in Writing}
    BY <2>1, <2>2, <2>3 DEF LocksFit
  <2> QED
    BY <2>4, <2>5, <2>6, <2>7 DEF LocksFit
<1>8. ClientFits(client[c])'
  BY <1>1, <1>2, <1>3, <1>4 DEF ClientsFit, ClientFits, InUse, Writing, Flushing
<1>9. GoesOn(client[c], client'[c])
  BY <1>2, <1>3 DEF GoesOn, Flushing
<1> QED
  BY <1>2, <1>3, <1>4, <1>5, <1>6, <1>7, <1>8, <1>9, QuietStep DEF poolVars, storeVars, dropVars

LEMMA UnlockInv ==
    ASSUME IndInv, NEW c \in Clients, Unlock(c)
    PROVE  IndInv'
<1> USE DEF IndInv, PoolInv
<1>1. PICK f \in Frames : f = client[c].frame
  BY HolderFrame DEF Unlock, ClientsFit
<1>2. /\ client[c].pc = "marked"
      /\ writer' = [writer EXCEPT ![f] = {}]
      /\ client' = [client EXCEPT ![c].pc = "pinned"]
      /\ UNCHANGED <<poolVars, readers, storeVars, written, vouched>>
  BY <1>1 DEF Unlock, Nobody
<1>3. /\ ClientsTyped' /\ Only(c)
      /\ client'[c].pc = "pinned" /\ client'[c].frame = f
      /\ client'[c].page = client[c].page /\ client'[c].walk = client[c].walk
      /\ client'[c].wrote = client[c].wrote
      /\ \A d \in Clients : client'[d].frame = client[d].frame
  BY <1>1, <1>2, PcMoves DEF TypeInv, Pcs
<1>4. /\ UNCHANGED frames /\ \A g \in Frames : SameContent(g)
      /\ PinsSame /\ PinsOfUsed
  BY <1>2, FramesStill DEF poolVars
<1>5. PoolTyped' /\ LocksTyped'
  BY <1>2 DEF TypeInv, PoolTyped, LocksTyped, poolVars
<1>6. PinsFit'
  BY <1>3, <1>4, PinsUntouched
<1>7. LocksFit'
  <2>1. ASSUME NEW g \in Frames, g # f
        PROVE  /\ writer'[g] = writer[g]
               /\ {d \in Clients : client'[d].frame = g /\ client'[d].pc \in Writing}
                    = {d \in Clients : client[d].frame = g /\ client[d].pc \in Writing}
    BY <1>1, <1>2, <1>3, <2>1 DEF Only, TypeInv, LocksTyped
  <2>2. writer'[f] = {}
    BY <1>2 DEF TypeInv, LocksTyped
  <2>3. {d \in Clients : client'[d].frame = f /\ client'[d].pc \in Writing} = {}
    <3>1. c \in writer[f]
      BY <1>1, <1>2 DEF LocksFit, Writing
    <3>2. \A d \in writer[f] : d = c
      BY <3>1 DEF LocksFit, Nobody
    <3>3. \A d \in Clients : client[d].frame = f /\ client[d].pc \in Writing => d = c
      BY <3>2 DEF LocksFit
    <3> QED
      BY <1>3, <3>3 DEF Only, Writing
  <2>4. \A g \in Frames :
          {d \in Clients : client'[d].frame = g /\ client'[d].pc = "flushwrite"}
             = {d \in Clients : client[d].frame = g /\ client[d].pc = "flushwrite"}
    BY <1>2, <1>3 DEF Only
  <2>5. readers' = readers
    BY <1>2
  <2>6. ASSUME NEW g \in Frames
        PROVE  writer'[g] = Nobody
               \/ (readers'[g] = {} /\ \E d \in Clients : writer'[g] = {d})
    BY <2>1, <2>2, <2>5 DEF LocksFit, Nobody
  <2>7. ASSUME NEW g \in Frames
        PROVE  writer'[g] = {d \in Clients : client'[d].frame = g /\ client'[d].pc \in Writing}
    BY <2>1, <2>2, <2>3 DEF LocksFit
  <2> QED
    BY <2>4, <2>5, <2>6, <2>7 DEF LocksFit
<1>8. ClientFits(client[c])'
  BY <1>1, <1>2, <1>3, <1>4 DEF ClientsFit, ClientFits, InUse, Writing, Flushing
<1>9. GoesOn(client[c], client'[c])
  BY <1>2, <1>3 DEF GoesOn, Flushing
<1> QED
  BY <1>2, <1>3, <1>4, <1>5, <1>6, <1>7, <1>8, <1>9, QuietStep DEF poolVars, storeVars, dropVars

\* Where the frame of a goroutine that uses it is in the table.
LEMMA UsedFrame ==
    ASSUME IndInv, NEW c \in Clients, NEW f \in Frames, f = client[c].frame
    PROVE  /\ f # NoFrame /\ frames[f].pins > 0 /\ InUse(f)
           /\ \A q \in KeptPages : table[q] = f <=> frames[f].page = q
<1> USE DEF IndInv, PoolInv
<1>1. f # NoFrame /\ frames[f].pins > 0
  BY HolderPins, FramesAreNat
<1>2. InUse(f)
  BY <1>1 DEF ClientsFit, ClientFits
<1>3. ASSUME NEW q \in KeptPages, table[q] = f PROVE frames[f].page = q
  BY <1>1, <1>3, PagesArePairs DEF CacheFits
<1>4. ASSUME NEW q \in KeptPages, frames[f].page = q PROVE table[q] = f
  <2>1. frames[f].valid
    BY <1>2, <1>4, PagesArePairs DEF InUse
  <2> QED
    BY <1>4, <2>1 DEF CacheFits
<1> QED
  BY <1>1, <1>2, <1>3, <1>4

LEMMA ModifyInv ==
    ASSUME IndInv, NEW c \in Clients, Modify(c)
    PROVE  IndInv'
<1> USE DEF IndInv, PoolInv
<1>1. PICK f \in Frames : f = client[c].frame
  BY HolderFrame DEF Modify, ClientsFit
<1>2. PICK p \in Pages : p = client[c].page /\ p = frames[f].page
  <2>1. InUse(f) /\ client[c].page = frames[f].page
    BY <1>1, UsedFrame DEF Modify, ClientsFit, ClientFits, Writing
  <2> QED
    BY <2>1 DEF InUse
<1>3. frames \in [Frames -> FrameStates] /\ frames[f] \in FrameStates
  BY DEF TypeInv, PoolTyped
<1>4. PICK w \in Nat : w = frames[f].val /\ w \in 0 .. MaxWrites
  BY <1>3 DEF FrameStates
<1> DEFINE own == [q \in KeptPages |-> IF q = p THEN w + 1 ELSE client[c].wrote[q]]
<1>5. /\ client[c].pc = "locked" /\ w < MaxWrites
      /\ frames' = [frames EXCEPT ![f].val = w + 1]
      /\ written' = [q \in KeptPages |-> IF q = p THEN written[q] + 1 ELSE written[q]]
      /\ client' = [client EXCEPT ![c].pc = "modified", ![c].wrote = own]
      /\ UNCHANGED <<table, nused, hand, lockVars, storeVars, vouched>>
  BY <1>1, <1>2, <1>4 DEF Modify
<1>6. client[c] \in ClientStates /\ client \in [Clients -> ClientStates]
  BY DEF TypeInv, ClientsTyped
<1>7. own \in [KeptPages -> Nat] /\ \A q \in KeptPages : own[q] = IF q = p THEN w + 1 ELSE client[c].wrote[q]
  BY <1>6 DEF ClientStates
<1> HIDE DEF own
<1>8. /\ ClientsTyped' /\ Only(c)
      /\ client'[c].pc = "modified" /\ client'[c].frame = f /\ client'[c].page = p
      /\ client'[c].walk = client[c].walk /\ client'[c].wrote = own
      /\ \A d \in Clients : client'[d].frame = client[d].frame
  BY <1>1, <1>2, <1>5, <1>6, <1>7 DEF ClientsTyped, ClientStates, Only, Pcs
<1> DEFINE b == [frames[f] EXCEPT !.val = w + 1]
<1>9. /\ b \in FrameStates /\ b.page = p /\ b.valid = frames[f].valid
      /\ b.pins = frames[f].pins /\ b.dirty = frames[f].dirty /\ b.val = w + 1
  <2>1. w + 1 \in 0 .. MaxWrites
    BY <1>5, PoolAssumption
  <2> QED
    BY <1>2, <1>3, <2>1 DEF FrameStates
<1>10. frames' = [frames EXCEPT ![f] = b]
  BY <1>3, <1>5
<1> HIDE DEF b
<1>11. /\ frames' \in [Frames -> FrameStates]
       /\ \A g \in Frames : /\ frames'[g].page = frames[g].page
                            /\ frames'[g].valid = frames[g].valid
                            /\ frames'[g].pins = frames[g].pins
                            /\ frames'[g].dirty = frames[g].dirty
                            /\ frames'[g].val = IF g = f THEN w + 1 ELSE frames[g].val
  BY <1>2, <1>3, <1>4, <1>9, <1>10
<1>12. TypeInv'
  <2>1. written' \in [KeptPages -> Nat]
    BY <1>5 DEF TypeInv, StoreTyped
  <2> QED
    BY <1>5, <1>8, <1>11, <2>1
       DEF TypeInv, PoolTyped, LocksTyped, StoreTyped, lockVars, storeVars
<1>13. CacheFits'
  BY <1>5, <1>11 DEF CacheFits, TypeInv, PoolTyped, storeVars
<1>14. PinsFit'
  BY <1>8, <1>11, PinsUntouched DEF PinsSame
<1>15. LocksFit'
  BY <1>1, <1>5, <1>8, LocksUntouched DEF Writing
<1>16. ClientsFit'
  <2>1. InUseKeep
    BY <1>11 DEF InUseKeep
  <2>2. ClientFits(client[c])'
    BY <1>1, <1>2, <1>8, <1>11, UsedFrame DEF ClientFits, InUse, Writing, Flushing
  <2> QED
    BY <1>8, <2>1, <2>2, OthersFit DEF TypeInv
<1>17. \A q \in KeptPages : table[q] = f <=> p = q
  BY <1>1, <1>2, UsedFrame
<1>18. \A q \in KeptPages :
          /\ table[q] \in Frames \cup {NoFrame}
          /\ table'[q] = table[q] /\ disk'[q] = disk[q] /\ stable'[q] = stable[q]
          /\ vouched'[q] = vouched[q] /\ nblocks' = nblocks
          /\ written'[q] = IF q = p THEN written[q] + 1 ELSE written[q]
  BY <1>5, PagesArePairs DEF storeVars, TypeInv, PoolTyped
<1>19. f # NoFrame
  BY FramesAreNat
<1>20. PagesFit'
  <2>1. ASSUME NEW q \in KeptPages, q # p PROVE PageFits(q)'
    <3>1. SamePage(q)
      BY <1>11, <1>17, <1>18, <2>1, PageNumbers DEF SamePage, TypeInv
    <3>2. ModifiersStay
      BY <1>5, <1>8 DEF ModifiersStay, Only
    <3> QED
      BY <3>1, <3>2, SamePageFits DEF PagesFit, TypeInv
  <2>2. ASSUME p \in KeptPages PROVE PageFits(p)'
    <3>1. table[p] = f /\ PageFits(p) /\ p[2] < nblocks[Rel(p)]
      BY <1>17, <1>19, <2>2 DEF PagesFit, CacheFits
    <3>2. written[p] = w /\ written'[p] = w + 1 /\ frames'[table'[p]].val = w + 1
      BY <1>4, <1>11, <1>18, <1>19, <2>2, <3>1 DEF PageFits
    <3>3. /\ stable[p] \in Nat /\ vouched[p] \in Nat /\ disk[p] \in Nat
      BY <2>2, PageNumbers DEF TypeInv
    <3>4. vouched[p] <= stable[p] /\ stable[p] <= disk[p] /\ disk[p] <= w + 1
      BY <3>1, <3>2, <3>3 DEF PageFits
    <3>5. client'[c].frame = table'[p] /\ client'[c].pc = "modified"
      BY <1>8, <1>18, <2>2, <3>1
    <3> QED
      BY <1>18, <1>19, <2>2, <3>1, <3>2, <3>4, <3>5 DEF PageFits
  <2> QED
    BY <2>1, <2>2 DEF PagesFit
<1>21. OwnsFit'
  <2>1. ASSUME NEW d \in Clients, d # c, NEW q \in KeptPages PROVE OwnFits(client[d], q)'
    <3>1. client'[d] = client[d] /\ OwnFits(client[d], q)
      BY <1>8, <2>1 DEF Only, OwnsFit
    <3>2. client[d].wrote[q] \in Nat /\ written[q] \in Nat
      BY PageNumbers DEF TypeInv, ClientsTyped, ClientStates
    <3>3. client[d].wrote[q] <= written'[q]
      BY <1>18, <3>1, <3>2 DEF OwnFits
    <3> QED
      BY <1>11, <1>18, <3>1, <3>3 DEF OwnFits
  <2>2. ASSUME NEW q \in KeptPages, q # p PROVE OwnFits(client[c], q)'
    <3>1. client'[c].wrote[q] = client[c].wrote[q] /\ OwnFits(client[c], q)
      BY <1>7, <1>8, <2>2 DEF OwnsFit
    <3> QED
      BY <1>5, <1>8, <1>11, <1>18, <2>2, <3>1 DEF OwnFits, Flushing
  <2>3. ASSUME p \in KeptPages PROVE OwnFits(client[c], p)'
    <3>1. table[p] = f /\ written[p] = w
      BY <1>4, <1>17, <1>19, <2>3 DEF PagesFit, PageFits
    <3>2. client'[c].wrote[p] = w + 1 /\ written'[p] = w + 1 /\ table'[p] = f
      BY <1>7, <1>8, <1>18, <2>3, <3>1
    <3> QED
      BY <1>8, <1>19, <3>2 DEF OwnFits, Flushing
  <2> QED
    BY <2>1, <2>2, <2>3 DEF OwnsFit
<1> QED
  BY <1>12, <1>13, <1>14, <1>15, <1>16, <1>20, <1>21

LEMMA MarkDirtyInv ==
    ASSUME IndInv, NEW c \in Clients, MarkDirty(c)
    PROVE  IndInv'
<1> USE DEF IndInv, PoolInv
<1>1. PICK f \in Frames : f = client[c].frame
  BY HolderFrame DEF MarkDirty, ClientsFit
<1>2. frames \in [Frames -> FrameStates] /\ frames[f] \in FrameStates
  BY DEF TypeInv, PoolTyped
<1>3. /\ client[c].pc = "modified"
      /\ frames' = [frames EXCEPT ![f].dirty = TRUE]
      /\ client' = [client EXCEPT ![c].pc = "marked"]
      /\ UNCHANGED <<table, nused, hand, lockVars, storeVars, written, vouched>>
  BY <1>1 DEF MarkDirty
<1>4. /\ ClientsTyped' /\ Only(c)
      /\ client'[c].pc = "marked" /\ client'[c].frame = f
      /\ client'[c].page = client[c].page /\ client'[c].walk = client[c].walk
      /\ client'[c].wrote = client[c].wrote
      /\ \A d \in Clients : client'[d].frame = client[d].frame
  BY <1>1, <1>3, PcMoves DEF TypeInv, Pcs
<1> DEFINE b == [frames[f] EXCEPT !.dirty = TRUE]
<1>5. /\ b \in FrameStates /\ b.page = frames[f].page /\ b.valid = frames[f].valid
      /\ b.pins = frames[f].pins /\ b.dirty /\ b.val = frames[f].val
  BY <1>2 DEF FrameStates
<1>6. frames' = [frames EXCEPT ![f] = b]
  BY <1>2, <1>3
<1> HIDE DEF b
<1>7. /\ frames' \in [Frames -> FrameStates]
      /\ \A g \in Frames : /\ frames'[g].page = frames[g].page
                           /\ frames'[g].valid = frames[g].valid
                           /\ frames'[g].pins = frames[g].pins
                           /\ frames'[g].val = frames[g].val
                           /\ g # f => frames'[g].dirty = frames[g].dirty
      /\ frames'[f].dirty
  BY <1>2, <1>5, <1>6
<1>8. TypeInv'
  BY <1>3, <1>4, <1>7
     DEF TypeInv, PoolTyped, LocksTyped, StoreTyped, lockVars, storeVars
<1>9. CacheFits'
  BY <1>3, <1>7 DEF CacheFits, TypeInv, PoolTyped, storeVars
<1>10. PinsFit'
  BY <1>4, <1>7, PinsUntouched DEF PinsSame
<1>11. LocksFit'
  BY <1>1, <1>3, <1>4, LocksUntouched DEF Writing
<1>12. ClientsFit'
  <2>1. InUseKeep
    BY <1>7 DEF InUseKeep
  <2>2. ClientFits(client[c])'
    <3>1. ClientFits(client[c]) /\ InUse(f)
      BY <1>1, UsedFrame DEF ClientsFit
    <3> QED
      BY <1>1, <1>3, <1>4, <1>7, <3>1 DEF ClientFits, InUse, Writing, Flushing
  <2> QED
    BY <1>4, <2>1, <2>2, OthersFit DEF TypeInv
<1>13. f # NoFrame /\ \A q \in KeptPages :
          /\ table[q] \in Frames \cup {NoFrame}
          /\ table'[q] = table[q] /\ disk'[q] = disk[q] /\ stable'[q] = stable[q]
          /\ vouched'[q] = vouched[q] /\ nblocks' = nblocks /\ written'[q] = written[q]
  BY <1>3, PagesArePairs, FramesAreNat DEF storeVars, TypeInv, PoolTyped
<1>14. ASSUME NEW q \in KeptPages PROVE PageFits(q)'
  <2>1. PageFits(q)
    BY DEF PagesFit
  <2>2. \/ written[q] = disk[q]
        \/ frames'[table[q]].dirty
        \/ \E d \in Clients : client'[d].frame = table[q] /\ client'[d].pc = "modified"
    <3>1. CASE table[q] = f
      BY <1>7, <3>1
    <3>2. CASE table[q] = NoFrame
      BY <2>1, <3>2 DEF PageFits
    <3>3. CASE table[q] \in Frames \ {f}
      BY <1>4, <1>7, <1>1, <2>1, <3>3 DEF PageFits, Only
    <3> QED
      BY <1>13, <3>1, <3>2, <3>3
  <2> QED
    BY <1>7, <1>13, <2>1, <2>2 DEF PageFits
<1>15. ASSUME NEW d \in Clients, NEW q \in KeptPages PROVE OwnFits(client[d], q)'
  <2>1. OwnFits(client[d], q)
    BY DEF OwnsFit
  <2>2. table[q] = f => frames'[table[q]].dirty
    BY <1>7
  <2>3. CASE d = c
    BY <1>1, <1>3, <1>4, <1>7, <1>13, <2>1, <2>2, <2>3 DEF OwnFits, Flushing
  <2>4. CASE d # c
    BY <1>4, <1>7, <1>13, <2>1, <2>2, <2>4 DEF OwnFits, Only
  <2> QED
    BY <2>3, <2>4
<1> QED
  BY <1>8, <1>9, <1>10, <1>11, <1>12, <1>14, <1>15 DEF PagesFit, OwnsFit

-----------------------------------------------------------------------------
(* The commit: the walk of FlushAll, SyncAll, the bit.                     *)

\* A frame FlushAll passes by, or has written, keeps nothing from the disk:
\* what is left of a session's changes lies further on.
LEMMA WalksOn ==
    ASSUME TypeInv, NEW c \in Clients, NEW f \in Frames, NEW p \in KeptPages,
           OwnFits(client[c], p), client[c].pc \in Flushing \cup {"walk"}, client[c].walk = f,
           table[p] = f => client[c].wrote[p] <= disk[p]
    PROVE  \/ client[c].wrote[p] <= disk[p]
           \/ /\ table[p] # NoFrame /\ table[p] # f /\ frames[table[p]].dirty
              /\ f + 1 <= table[p]
<1>1. table[p] \in Frames \cup {NoFrame} /\ f \in Nat
  BY PagesArePairs, FramesAreNat DEF TypeInv, PoolTyped
<1>2. client[c].pc # "modified"
  BY DEF Flushing
<1>3. CASE client[c].wrote[p] <= disk[p]
  BY <1>3
<1>4. CASE ~(client[c].wrote[p] <= disk[p])
  <2>1. table[p] # f
    BY <1>4
  <2>2. table[p] # NoFrame /\ frames[table[p]].dirty /\ f <= table[p]
    BY <1>2, <1>4 DEF OwnFits
  <2>3. table[p] \in Nat
    BY <1>1, <2>2, FramesAreNat
  <2> QED
    BY <1>1, <2>1, <2>2, <2>3
<1> QED
  BY <1>3, <1>4

LEMMA StartCommitInv ==
    ASSUME IndInv, NEW c \in Clients, StartCommit(c)
    PROVE  IndInv'
<1> USE DEF IndInv, PoolInv
<1>1. /\ client[c].pc = "idle"
      /\ client' = [client EXCEPT ![c].pc = "walk", ![c].walk = 0]
      /\ UNCHANGED <<poolVars, lockVars, storeVars, written, vouched>>
  BY DEF StartCommit
<1>2. client[c] \in ClientStates /\ client \in [Clients -> ClientStates] /\ 0 \in 0 .. NFrames
  BY FramesAreNat DEF TypeInv, ClientsTyped
<1>3. /\ ClientsTyped' /\ Only(c)
      /\ client'[c].pc = "walk" /\ client'[c].frame = client[c].frame
      /\ client'[c].walk = 0 /\ client'[c].wrote = client[c].wrote
      /\ \A d \in Clients : client'[d].frame = client[d].frame
  BY <1>1, <1>2 DEF ClientsTyped, ClientStates, Only, Pcs
<1>4. UNCHANGED frames /\ (\A g \in Frames : SameContent(g)) /\ PinsSame /\ PinsOfUsed
  BY <1>1, FramesStill DEF poolVars
<1>5. PoolTyped' /\ LocksTyped'
  BY <1>1 DEF TypeInv, PoolTyped, LocksTyped, poolVars, lockVars
<1>6. PinsFit' /\ LocksFit'
  BY <1>1, <1>3, <1>4, PinsUntouched, LocksUntouched DEF Writing
<1>7. ClientFits(client[c])'
  <2>1. client[c].frame = NoFrame
    BY <1>1, HolderFrame DEF ClientsFit
  <2> QED
    BY <1>3, <2>1 DEF ClientFits, Writing, Flushing
<1>8. GoesOn(client[c], client'[c])
  BY <1>1, <1>3 DEF GoesOn, Flushing
<1> QED
  BY <1>1, <1>3, <1>4, <1>5, <1>6, <1>7, <1>8, QuietStep DEF poolVars, storeVars, dropVars

LEMMA FlushPinInv ==
    ASSUME IndInv, NEW c \in Clients, FlushPin(c)
    PROVE  IndInv'
<1> USE DEF IndInv, PoolInv
<1>1. PICK f \in Frames : f = client[c].walk
  BY FramesAreNat DEF FlushPin, TypeInv, ClientsTyped, ClientStates
<1>2. PICK n \in Nat : n = frames[f].pins + 1
  BY DEF TypeInv, PoolTyped, FrameStates
<1>3. /\ client[c].pc = "walk" /\ frames[f].valid
      /\ frames' = [frames EXCEPT ![f].pins = n]
      /\ client' = [client EXCEPT ![c].pc = "flushlock", ![c].frame = f]
      /\ UNCHANGED <<table, nused, hand, lockVars, storeVars, written, vouched>>
  BY <1>1, <1>2 DEF FlushPin, MustFlush
<1>4. client[c] \in ClientStates /\ client \in [Clients -> ClientStates] /\ f # NoFrame
  BY FramesAreNat DEF TypeInv, ClientsTyped
<1>5. /\ ClientsTyped' /\ Only(c)
      /\ client'[c].pc = "flushlock" /\ client'[c].frame = f
      /\ client'[c].walk = f /\ client'[c].wrote = client[c].wrote
  BY <1>1, <1>3, <1>4 DEF ClientsTyped, ClientStates, Only, Pcs
<1>6. /\ frames' \in [Frames -> FrameStates]
      /\ \A g \in Frames : SameContent(g)
      /\ \A g \in Frames : frames'[g].pins = IF g = f THEN n ELSE frames[g].pins
  BY <1>3, PinsSet DEF TypeInv
<1>7. PinsMove(f, 1) /\ PinsOfUsed
  BY <1>2, <1>3, <1>6 DEF PinsMove, PinsOfUsed
<1>8. PoolTyped' /\ LocksTyped'
  BY <1>3, <1>6 DEF TypeInv, PoolTyped, LocksTyped, lockVars
<1>9. client[c].frame = NoFrame
  BY <1>3, HolderFrame DEF ClientsFit
<1>10. PinsFit' /\ LocksFit'
  BY <1>3, <1>5, <1>7, <1>9, PinTaken, LocksUntouched DEF Writing
<1>11. ClientFits(client[c])'
  BY <1>3, <1>4, <1>5, <1>6 DEF ClientFits, InUse, SameContent, CacheFits, Writing, Flushing
<1>12. GoesOn(client[c], client'[c])
  BY <1>1, <1>3, <1>5 DEF GoesOn, Flushing
<1> QED
  BY <1>3, <1>5, <1>6, <1>7, <1>8, <1>10, <1>11, <1>12, QuietStep DEF storeVars, dropVars

LEMMA FlushRLockInv ==
    ASSUME IndInv, NEW c \in Clients, FlushRLock(c)
    PROVE  IndInv'
<1> USE DEF IndInv, PoolInv
<1>1. PICK f \in Frames : f = client[c].frame
  BY HolderFrame DEF FlushRLock, ClientsFit
<1>2. /\ client[c].pc = "flushlock" /\ writer[f] = {}
      /\ readers' = [readers EXCEPT ![f] = @ \cup {c}]
      /\ client' = [client EXCEPT ![c].pc = "flushwrite"]
      /\ UNCHANGED <<poolVars, writer, storeVars, written, vouched>>
  BY <1>1 DEF FlushRLock, Nobody
<1>3. /\ ClientsTyped' /\ Only(c)
      /\ client'[c].pc = "flushwrite" /\ client'[c].frame = f
      /\ client'[c].page = client[c].page /\ client'[c].walk = client[c].walk
      /\ client'[c].wrote = client[c].wrote
      /\ \A d \in Clients : client'[d].frame = client[d].frame
  BY <1>1, <1>2, PcMoves DEF TypeInv, Pcs
<1>4. UNCHANGED frames /\ (\A g \in Frames : SameContent(g)) /\ PinsSame /\ PinsOfUsed
  BY <1>2, FramesStill DEF poolVars
<1>5. PoolTyped' /\ LocksTyped'
  BY <1>2 DEF TypeInv, PoolTyped, LocksTyped, poolVars
<1>6. PinsFit'
  BY <1>3, <1>4, PinsUntouched
<1>7. LocksFit'
  <2>1. readers \in [Frames -> SUBSET Clients]
    BY DEF TypeInv, LocksTyped
  <2>2. \A g \in Frames : readers'[g] = IF g = f THEN readers[f] \cup {c} ELSE readers[g]
    BY <1>2, <2>1
  <2>3. \A g \in Frames :
          /\ {d \in Clients : client'[d].frame = g /\ client'[d].pc = "flushwrite"}
               = {d \in Clients : client[d].frame = g /\ client[d].pc = "flushwrite"}
                   \cup (IF g = f THEN {c} ELSE {})
          /\ {d \in Clients : client'[d].frame = g /\ client'[d].pc \in Writing}
               = {d \in Clients : client[d].frame = g /\ client[d].pc \in Writing}
    BY <1>1, <1>2, <1>3 DEF Only, Writing
  <2>4. writer' = writer
    BY <1>2
  <2> QED
    BY <1>2, <2>2, <2>3, <2>4 DEF LocksFit, Nobody
<1>8. ClientFits(client[c])'
  BY <1>1, <1>2, <1>3, <1>4 DEF ClientsFit, ClientFits, InUse, Writing, Flushing
<1>9. GoesOn(client[c], client'[c])
  BY <1>2, <1>3 DEF GoesOn, Flushing
<1> QED
  BY <1>2, <1>3, <1>4, <1>5, <1>6, <1>7, <1>8, <1>9, QuietStep DEF poolVars, storeVars, dropVars

LEMMA FlushSkipInv ==
    ASSUME IndInv, NEW c \in Clients, FlushSkip(c)
    PROVE  IndInv'
<1> USE DEF IndInv, PoolInv
<1>1. PICK f \in Frames : f = client[c].walk
  BY FramesAreNat DEF FlushSkip, TypeInv, ClientsTyped, ClientStates
<1>2. /\ client[c].pc = "walk" /\ ~(frames[f].valid /\ frames[f].dirty)
      /\ client' = [client EXCEPT ![c].walk = f + 1]
      /\ UNCHANGED <<poolVars, lockVars, storeVars, written, vouched>>
  BY <1>1 DEF FlushSkip, MustFlush
<1>3. client[c] \in ClientStates /\ client \in [Clients -> ClientStates] /\ f + 1 \in 0 .. NFrames
  BY FramesAreNat DEF TypeInv, ClientsTyped
<1>4. /\ ClientsTyped' /\ Only(c)
      /\ client'[c].pc = "walk" /\ client'[c].frame = client[c].frame
      /\ client'[c].walk = f + 1 /\ client'[c].wrote = client[c].wrote
      /\ \A d \in Clients : client'[d].frame = client[d].frame
  BY <1>2, <1>3 DEF ClientsTyped, ClientStates, Only
<1>5. UNCHANGED frames /\ (\A g \in Frames : SameContent(g)) /\ PinsSame /\ PinsOfUsed
  BY <1>2, FramesStill DEF poolVars
<1>6. PoolTyped' /\ LocksTyped'
  BY <1>2 DEF TypeInv, PoolTyped, LocksTyped, poolVars, lockVars
<1>7. PinsFit' /\ LocksFit'
  BY <1>2, <1>4, <1>5, PinsUntouched, LocksUntouched DEF Writing
<1>8. ClientFits(client[c])'
  <2>1. client[c].frame = NoFrame
    BY <1>2, HolderFrame DEF ClientsFit
  <2> QED
    BY <1>4, <2>1 DEF ClientFits, Writing, Flushing
<1>9. TypeInv' /\ PoolInv' /\ PagesMove
  BY <1>2, <1>4, <1>5, <1>6, <1>7, <1>8, QuietShape DEF poolVars, storeVars, dropVars
<1>10. ModifiersStay
  BY <1>2, <1>4 DEF ModifiersStay, Only
<1>11. ASSUME NEW p \in KeptPages PROVE OwnFits(client[c], p)'
  <2>1. OwnFits(client[c], p) /\ f # NoFrame
    BY FramesAreNat DEF OwnsFit
  <2>2. ASSUME table[p] = f PROVE client[c].wrote[p] <= disk[p]
    <3>1. frames[f].valid
      BY <2>1, <2>2, PagesArePairs DEF CacheFits
    <3> QED
      BY <1>2, <2>1, <2>2, <3>1 DEF OwnFits
  <2>3. \/ client[c].wrote[p] <= disk[p]
        \/ table[p] # NoFrame /\ frames[table[p]].dirty /\ f + 1 <= table[p]
    BY <1>1, <1>2, <2>1, <2>2, WalksOn DEF Flushing
  <2>4. table' = table /\ frames' = frames /\ disk' = disk /\ written' = written
    BY <1>2 DEF poolVars, storeVars
  <2> QED
    BY <1>4, <2>1, <2>3, <2>4 DEF OwnFits
<1> QED
  BY <1>4, <1>9, <1>10, <1>11, ContentsOfOthers DEF TypeInv

\* What a reader of a frame knows: nobody is writing there.
LEMMA ReaderAlone ==
    ASSUME IndInv, NEW c \in Clients, NEW f \in Frames, f = client[c].frame,
           client[c].pc = "flushwrite"
    PROVE  /\ writer[f] = {}
           /\ \A d \in Clients : client[d].frame = f => client[d].pc \notin Writing
<1>1. c \in readers[f]
  BY DEF IndInv, PoolInv, LocksFit
<1>2. writer[f] = {}
  BY <1>1 DEF IndInv, PoolInv, LocksFit, Nobody
<1> QED
  BY <1>2 DEF IndInv, PoolInv, LocksFit

\* FlushAll is done with a frame.
LEMMA ReaderLeaves ==
    ASSUME LocksTyped, LocksFit, NEW c \in Clients, NEW f \in Frames, f = client[c].frame,
           client[c].pc = "flushwrite", Only(c),
           client'[c].pc \notin Writing \cup {"flushwrite"},
           UNCHANGED writer, readers' = [readers EXCEPT ![f] = @ \ {c}]
    PROVE  LocksFit'
<1>1. \A g \in Frames : readers'[g] = IF g = f THEN readers[f] \ {c} ELSE readers[g]
  BY DEF LocksTyped
<1>2. \A g \in Frames :
        /\ {d \in Clients : client'[d].frame = g /\ client'[d].pc = "flushwrite"}
             = {d \in Clients : client[d].frame = g /\ client[d].pc = "flushwrite"}
                 \ (IF g = f THEN {c} ELSE {})
        /\ {d \in Clients : client'[d].frame = g /\ client'[d].pc \in Writing}
             = {d \in Clients : client[d].frame = g /\ client[d].pc \in Writing}
  BY DEF Only, Writing
<1>3. \A g \in Frames : readers[g] = {} => readers'[g] = {}
  BY <1>1
<1> QED
  BY <1>1, <1>2, <1>3 DEF LocksFit, Nobody

LEMMA FlushWriteInv ==
    ASSUME IndInv, NEW c \in Clients, FlushWrite(c)
    PROVE  IndInv'
<1> USE DEF IndInv, PoolInv
<1>1. PICK f \in Frames : f = client[c].frame
  BY HolderFrame DEF FlushWrite, ClientsFit
<1>2. PICK n \in Nat : n = frames[f].pins - 1
  BY <1>1, HolderPins
<1>3. /\ client[c].pc = "flushwrite"
      /\ disk' = IF frames[f].dirty THEN DiskWith(f) ELSE disk
      /\ frames' = [frames EXCEPT ![f].dirty = FALSE, ![f].pins = n]
      /\ readers' = [readers EXCEPT ![f] = @ \ {c}]
      /\ client' = [client EXCEPT ![c].pc = "walk", ![c].frame = NoFrame, ![c].walk = @ + 1]
      /\ UNCHANGED <<table, nused, hand, writer, dropVars, nblocks, stable, failures,
                     written, vouched>>
  BY <1>1, <1>2 DEF FlushWrite
<1>4. frames \in [Frames -> FrameStates] /\ frames[f] \in FrameStates
  BY DEF TypeInv, PoolTyped
<1>5. /\ client[c] \in ClientStates /\ client \in [Clients -> ClientStates]
      /\ client[c].walk = f /\ f + 1 \in 0 .. NFrames
  BY <1>1, <1>3, FramesAreNat DEF TypeInv, ClientsTyped, ClientsFit, ClientFits, Flushing
<1>6. /\ ClientsTyped' /\ Only(c)
      /\ client'[c].pc = "walk" /\ client'[c].frame = NoFrame
      /\ client'[c].walk = f + 1 /\ client'[c].wrote = client[c].wrote
  BY <1>3, <1>5 DEF ClientsTyped, ClientStates, Only, Pcs
<1> DEFINE b == [frames[f] EXCEPT !.dirty = FALSE, !.pins = n]
<1>7. /\ b \in FrameStates /\ b.page = frames[f].page /\ b.valid = frames[f].valid
      /\ b.pins = n /\ ~b.dirty /\ b.val = frames[f].val
  BY <1>4 DEF FrameStates
<1>8. frames' = [frames EXCEPT ![f] = b]
  BY <1>3, <1>4
<1> HIDE DEF b
<1>9. /\ frames' \in [Frames -> FrameStates]
      /\ \A g \in Frames : /\ frames'[g].page = frames[g].page
                           /\ frames'[g].valid = frames[g].valid
                           /\ frames'[g].val = frames[g].val
                           /\ frames'[g].pins = IF g = f THEN n ELSE frames[g].pins
                           /\ g # f => frames'[g].dirty = frames[g].dirty
  BY <1>4, <1>7, <1>8
<1>10. disk \in [Pages -> 0 .. MaxWrites] /\ disk' \in [Pages -> 0 .. MaxWrites]
  BY <1>3, <1>4 DEF TypeInv, StoreTyped, DiskWith, FrameStates
<1>11. \A q \in Pages : disk'[q] = IF frames[f].dirty /\ frames[f].page = q THEN frames[f].val
                                  ELSE disk[q]
  BY <1>3, <1>10 DEF DiskWith
<1>12. TypeInv'
  <2>1. readers' \in [Frames -> SUBSET Clients]
    BY <1>3 DEF TypeInv, LocksTyped
  <2> QED
    BY <1>3, <1>6, <1>9, <1>10, <2>1
       DEF TypeInv, PoolTyped, LocksTyped, StoreTyped, dropVars
<1>13. frames[f].pins \in Nat /\ frames[f].pins > 0
  BY <1>1, HolderPins
<1>14. CacheFits'
  <2>1. ~(f >= nused)
    BY <1>13 DEF CacheFits
  <2> QED
    BY <1>3, <1>9, <2>1 DEF CacheFits, TypeInv, PoolTyped
<1>15. PinsFit'
  <2>1. PinsMove(f, -1)
    BY <1>2, <1>9, <1>13 DEF PinsMove
  <2> QED
    BY <1>1, <1>6, <2>1, PinGiven
<1>16. LocksFit'
  BY <1>1, <1>3, <1>6, ReaderLeaves DEF TypeInv, Writing
<1>17. ClientsFit'
  <2>1. InUseKeep
    BY <1>9 DEF InUseKeep
  <2>2. ClientFits(client[c])'
    BY <1>6 DEF ClientFits, Writing, Flushing
  <2> QED
    BY <1>6, <2>1, <2>2, OthersFit DEF TypeInv
<1>18. f # NoFrame /\ \A q \in KeptPages : table[q] = f <=> frames[f].page = q
  BY <1>1, UsedFrame
<1>19. \A q \in KeptPages :
          /\ q \in Pages /\ table[q] \in Frames \cup {NoFrame}
          /\ table'[q] = table[q] /\ stable'[q] = stable[q] /\ written'[q] = written[q]
          /\ vouched'[q] = vouched[q] /\ nblocks' = nblocks /\ nblocks[Rel(q)] \in Nat
  BY <1>3, PagesArePairs DEF TypeInv, PoolTyped, StoreTyped
<1>20. ASSUME NEW q \in KeptPages, table[q] # f PROVE SamePage(q) /\ disk'[q] = disk[q]
  <2>1. disk'[q] = disk[q]
    BY <1>11, <1>18, <1>19, <1>20
  <2> QED
    BY <1>9, <1>19, <1>20, <2>1 DEF SamePage
<1>21. ASSUME NEW q \in KeptPages, table[q] = f PROVE PageToDisk(q) /\ disk'[q] = written[q]
  <2>1. PageFits(q) /\ written[q] = frames[f].val /\ frames[f].page = q
    BY <1>18, <1>21 DEF PagesFit, PageFits
  <2>2. disk'[q] = written[q]
    <3>1. CASE frames[f].dirty
      BY <1>11, <1>19, <2>1, <3>1
    <3>2. CASE ~frames[f].dirty
      <4>1. \A d \in Clients : client[d].frame = f => client[d].pc # "modified"
        BY <1>1, <1>3, ReaderAlone DEF Writing
      <4>2. written[q] = disk[q]
        BY <1>21, <2>1, <3>2, <4>1 DEF PageFits
      <4> QED
        BY <1>11, <1>19, <3>2, <4>2
    <3> QED
      BY <3>1, <3>2
  <2> QED
    BY <1>9, <1>19, <1>21, <2>1, <2>2 DEF PageToDisk
<1>22. PagesMove
  BY <1>20, <1>21 DEF PagesMove
<1>23. ModifiersStay
  BY <1>3, <1>6 DEF ModifiersStay, Only
<1>24. ASSUME NEW q \in KeptPages PROVE OwnFits(client[c], q)'
  <2>1. OwnFits(client[c], q)
    BY DEF OwnsFit
  <2>2. CASE table[q] = f
    BY <1>6, <1>19, <1>21, <2>1, <2>2 DEF OwnFits
  <2>3. CASE table[q] # f
    <3>1. \/ client[c].wrote[q] <= disk[q]
          \/ table[q] # NoFrame /\ frames[table[q]].dirty /\ f + 1 <= table[q]
      BY <1>3, <1>5, <2>1, <2>3, WalksOn DEF Flushing
    <3>2. table[q] # NoFrame => frames'[table[q]].dirty = frames[table[q]].dirty
      BY <1>9, <1>19, <2>3
    <3> QED
      BY <1>6, <1>19, <1>20, <2>1, <2>3, <3>1, <3>2 DEF OwnFits
  <2> QED
    BY <2>2, <2>3
<1> QED
  BY <1>6, <1>12, <1>14, <1>15, <1>16, <1>17, <1>22, <1>23, <1>24, ContentsOfOthers DEF TypeInv

\* A session that is through, with its commit or with an abort.
LEMMA IdleIs ==
    /\ Idle \in ClientStates
    /\ Idle.pc = "idle" /\ Idle.frame = NoFrame /\ Idle.wrote = Zero
    /\ \A p \in KeptPages : Idle.wrote[p] = 0
BY FramesAreNat DEF Idle, Zero, ClientStates, Pcs

LEMMA BackToIdle ==
    ASSUME ClientsTyped, NEW c \in Clients, client' = [client EXCEPT ![c] = Idle]
    PROVE  /\ ClientsTyped' /\ Only(c) /\ client'[c] = Idle
           /\ client'[c].pc = "idle" /\ client'[c].frame = NoFrame
BY IdleIs DEF ClientsTyped, Only

LEMMA IdleOwns ==
    ASSUME NEW c \in Clients, NEW p \in KeptPages, client'[c] = Idle,
           written'[p] \in Nat, disk'[p] \in Nat
    PROVE  OwnFits(client[c], p)'
BY IdleIs DEF OwnFits

LEMMA FlushFailsInv ==
    ASSUME IndInv, NEW c \in Clients, FlushFails(c)
    PROVE  IndInv'
<1> USE DEF IndInv, PoolInv
<1>1. PICK f \in Frames : f = client[c].frame
  BY HolderFrame DEF FlushFails, ClientsFit
<1>2. PICK n \in Nat : n = frames[f].pins - 1
  BY <1>1, HolderPins
<1>3. /\ client[c].pc = "flushwrite"
      /\ frames' = [frames EXCEPT ![f].pins = n]
      /\ readers' = [readers EXCEPT ![f] = @ \ {c}]
      /\ client' = [client EXCEPT ![c] = Idle]
      /\ UNCHANGED <<table, nused, hand, writer, dropVars, nblocks, disk, stable,
                     written, vouched>>
  BY <1>1, <1>2 DEF FlushFails
<1>4. /\ ClientsTyped' /\ Only(c) /\ client'[c] = Idle
      /\ client'[c].pc = "idle" /\ client'[c].frame = NoFrame
  BY <1>3, BackToIdle DEF TypeInv
<1>5. /\ frames' \in [Frames -> FrameStates]
      /\ \A g \in Frames : SameContent(g)
      /\ \A g \in Frames : frames'[g].pins = IF g = f THEN n ELSE frames[g].pins
  BY <1>3, PinsSet DEF TypeInv
<1>6. frames[f].pins \in Nat /\ frames[f].pins > 0
  BY <1>1, HolderPins
<1>7. PinsMove(f, -1) /\ PinsOfUsed
  BY <1>2, <1>5, <1>6 DEF PinsMove, PinsOfUsed
<1>8. PoolTyped' /\ LocksTyped'
  BY <1>3, <1>5 DEF TypeInv, PoolTyped, LocksTyped
<1>9. PinsFit'
  BY <1>1, <1>4, <1>7, PinGiven
<1>10. LocksFit'
  BY <1>1, <1>3, <1>4, ReaderLeaves DEF TypeInv, Writing
<1>11. ClientFits(client[c])'
  BY <1>4 DEF ClientFits, Writing, Flushing
<1>12. TypeInv' /\ PoolInv' /\ PagesMove
  BY <1>3, <1>4, <1>5, <1>7, <1>8, <1>9, <1>10, <1>11, QuietShape
<1>13. ModifiersStay
  BY <1>3, <1>4 DEF ModifiersStay, Only
<1>14. \A p \in KeptPages : OwnFits(client[c], p)'
  BY <1>3, <1>4, IdleOwns, PageNumbers DEF TypeInv
<1> QED
  BY <1>4, <1>12, <1>13, <1>14, ContentsOfOthers DEF TypeInv

LEMMA SyncAllInv ==
    ASSUME IndInv, NEW c \in Clients, SyncAll(c)
    PROVE  IndInv'
<1> USE DEF IndInv, PoolInv
<1>1. /\ client[c].pc = "walk" /\ client[c].walk = NFrames
      /\ stable' = [p \in KeptPages |-> disk[p]]
      /\ client' = [client EXCEPT ![c].pc = "bit"]
      /\ UNCHANGED <<poolVars, lockVars, dropVars, nblocks, disk, failures, written, vouched>>
  BY DEF SyncAll
<1>2. /\ ClientsTyped' /\ Only(c)
      /\ client'[c].pc = "bit" /\ client'[c].frame = client[c].frame
      /\ client'[c].wrote = client[c].wrote
      /\ \A d \in Clients : client'[d].frame = client[d].frame
  BY <1>1, PcMoves DEF TypeInv, Pcs
<1>3. UNCHANGED frames /\ PinsSame /\ InUseKeep
  BY <1>1, FramesStill DEF poolVars
<1>4. \A p \in KeptPages :
        /\ disk[p] \in Nat /\ stable[p] \in Nat /\ written[p] \in Nat /\ vouched[p] \in Nat
        /\ stable'[p] = disk[p] /\ stable[p] <= disk[p] /\ vouched[p] <= stable[p]
  BY <1>1, PageNumbers DEF PagesFit, PageFits, TypeInv
<1>5. TypeInv'
  <2>1. stable' \in [KeptPages -> Nat]
    BY <1>1, <1>4
  <2> QED
    BY <1>1, <1>2, <2>1
       DEF TypeInv, PoolTyped, LocksTyped, StoreTyped, poolVars, lockVars, dropVars
<1>6. CacheFits'
  BY <1>1 DEF CacheFits, poolVars
<1>7. PinsFit' /\ LocksFit'
  BY <1>1, <1>2, <1>3, PinsUntouched, LocksUntouched DEF Writing
<1>8. ClientsFit'
  <2>1. client[c].frame = NoFrame
    BY <1>1, HolderFrame DEF ClientsFit
  <2>2. ClientFits(client[c])'
    BY <1>2, <2>1 DEF ClientFits, Writing, Flushing
  <2> QED
    BY <1>2, <1>3, <2>2, OthersFit DEF TypeInv
<1>9. table' = table /\ frames' = frames /\ disk' = disk /\ written' = written
      /\ vouched' = vouched /\ nblocks' = nblocks
  BY <1>1 DEF poolVars
<1>10. ASSUME NEW p \in KeptPages PROVE PageFits(p)'
  <2>1. PageFits(p)
    BY DEF PagesFit
  <2>2. vouched[p] <= disk[p] /\ disk[p] <= disk[p]
    BY <1>4
  <2>3. \/ written[p] = disk[p]
        \/ frames[table[p]].dirty
        \/ \E d \in Clients : client'[d].frame = table[p] /\ client'[d].pc = "modified"
    BY <1>1, <1>2, <2>1 DEF PageFits, Only
  <2> QED
    BY <1>4, <1>9, <2>1, <2>2, <2>3 DEF PageFits
<1>11. ASSUME NEW d \in Clients, NEW p \in KeptPages PROVE OwnFits(client[d], p)'
  <2>1. OwnFits(client[d], p) /\ client[d].wrote[p] \in Nat
    BY DEF OwnsFit, TypeInv, ClientsTyped, ClientStates
  <2>2. CASE d = c
    <3>1. client[c].wrote[p] <= disk[p]
      <4>1. table[p] # NoFrame => ~(NFrames <= table[p])
        BY PagesArePairs, FramesAreNat DEF TypeInv, PoolTyped
      <4> QED
        BY <1>1, <2>1, <2>2, <4>1 DEF OwnFits
    <3> QED
      BY <1>2, <1>4, <1>9, <2>1, <2>2, <3>1 DEF OwnFits
  <2>3. CASE d # c
    <3>1. client'[d] = client[d]
      BY <1>2, <2>3 DEF Only
    <3>2. client[d].pc = "bit" => client[d].wrote[p] <= disk[p]
      BY <1>4, <2>1 DEF OwnFits
    <3> QED
      BY <1>4, <1>9, <2>1, <3>1, <3>2 DEF OwnFits
  <2> QED
    BY <2>2, <2>3
<1> QED
  BY <1>5, <1>6, <1>7, <1>8, <1>10, <1>11 DEF PagesFit, OwnsFit

\* Some files are synced, the others keep what a crash leaves of them.
LEMMA SyncFailsInv ==
    ASSUME IndInv, NEW c \in Clients, SyncFails(c)
    PROVE  IndInv'
<1> USE DEF IndInv, PoolInv
<1>1. PICK synced \in SUBSET Kept :
        stable' = [p \in KeptPages |-> IF Rel(p) \in synced THEN disk[p] ELSE stable[p]]
  BY DEF SyncFails
<1>2. /\ client[c].pc = "walk"
      /\ client' = [client EXCEPT ![c] = Idle]
      /\ UNCHANGED <<poolVars, lockVars, dropVars, nblocks, disk, written, vouched>>
  BY DEF SyncFails
<1>3. client[c].frame = NoFrame
  BY <1>2, HolderFrame DEF ClientsFit
<1>4. /\ ClientsTyped' /\ Only(c) /\ client'[c] = Idle
      /\ client'[c].pc = "idle" /\ client'[c].frame = NoFrame
      /\ \A d \in Clients : client'[d].frame = client[d].frame
  <2>1. /\ ClientsTyped' /\ Only(c) /\ client'[c] = Idle
        /\ client'[c].pc = "idle" /\ client'[c].frame = NoFrame
    BY <1>2, BackToIdle DEF TypeInv
  <2> QED
    BY <1>3, <2>1 DEF Only
<1>5. UNCHANGED frames /\ PinsSame /\ InUseKeep
  BY <1>2, FramesStill DEF poolVars
<1>6. \A p \in KeptPages :
        /\ disk[p] \in Nat /\ stable[p] \in Nat /\ written[p] \in Nat /\ vouched[p] \in Nat
        /\ stable'[p] \in Nat /\ stable[p] <= stable'[p] /\ stable'[p] <= disk[p]
        /\ vouched[p] <= stable'[p]
  <2>1. ASSUME NEW p \in KeptPages
        PROVE  /\ disk[p] \in Nat /\ stable[p] \in Nat /\ written[p] \in Nat
               /\ vouched[p] \in Nat
               /\ stable[p] <= disk[p] /\ vouched[p] <= stable[p]
    BY PageNumbers DEF PagesFit, PageFits, TypeInv
  <2>2. ASSUME NEW p \in KeptPages PROVE stable'[p] \in {disk[p], stable[p]}
    BY <1>1
  <2> QED
    BY <2>1, <2>2
<1>7. TypeInv'
  <2>1. stable' \in [KeptPages -> Nat]
    BY <1>1, <1>6
  <2> QED
    BY <1>2, <1>4, <2>1
       DEF TypeInv, PoolTyped, LocksTyped, StoreTyped, poolVars, lockVars, dropVars
<1>8. CacheFits'
  BY <1>2 DEF CacheFits, poolVars
<1>9. PinsFit' /\ LocksFit'
  BY <1>2, <1>4, <1>5, PinsUntouched, LocksUntouched DEF Writing
<1>10. ClientsFit'
  <2>1. ClientFits(client[c])'
    BY <1>4 DEF ClientFits, Writing, Flushing
  <2> QED
    BY <1>4, <1>5, <2>1, OthersFit DEF TypeInv
<1>11. table' = table /\ frames' = frames /\ disk' = disk /\ written' = written
       /\ vouched' = vouched /\ nblocks' = nblocks
  BY <1>2 DEF poolVars
<1>12. ASSUME NEW p \in KeptPages PROVE PageFits(p)'
  <2>1. PageFits(p)
    BY DEF PagesFit
  <2>2. \/ written[p] = disk[p]
        \/ frames[table[p]].dirty
        \/ \E d \in Clients : client'[d].frame = table[p] /\ client'[d].pc = "modified"
    BY <1>2, <1>4, <2>1 DEF PageFits, Only
  <2> QED
    BY <1>6, <1>11, <2>1, <2>2 DEF PageFits
<1>13. ASSUME NEW d \in Clients, NEW p \in KeptPages PROVE OwnFits(client[d], p)'
  <2>1. OwnFits(client[d], p) /\ client[d].wrote[p] \in Nat
    BY DEF OwnsFit, TypeInv, ClientsTyped, ClientStates
  <2>2. CASE d = c
    BY <1>4, <1>6, <1>11, <2>2, IdleOwns
  <2>3. CASE d # c
    <3>1. client'[d] = client[d]
      BY <1>4, <2>3 DEF Only
    <3>2. client[d].pc = "bit" => client[d].wrote[p] <= stable'[p]
      BY <1>6, <2>1 DEF OwnFits
    <3> QED
      BY <1>6, <1>11, <2>1, <3>1, <3>2 DEF OwnFits
  <2> QED
    BY <2>2, <2>3
<1> QED
  BY <1>7, <1>8, <1>9, <1>10, <1>12, <1>13 DEF PagesFit, OwnsFit

LEMMA CommitInv ==
    ASSUME IndInv, NEW c \in Clients, Commit(c)
    PROVE  IndInv'
<1> USE DEF IndInv, PoolInv
<1>1. /\ client[c].pc = "bit"
      /\ vouched' = [p \in KeptPages |-> IF client[c].wrote[p] > vouched[p]
                                         THEN client[c].wrote[p] ELSE vouched[p]]
      /\ client' = [client EXCEPT ![c] = Idle]
      /\ UNCHANGED <<poolVars, lockVars, storeVars, written>>
  BY DEF Commit
<1>2. /\ ClientsTyped' /\ Only(c) /\ client'[c] = Idle
      /\ client'[c].pc = "idle" /\ client'[c].frame = NoFrame
  BY <1>1, BackToIdle DEF TypeInv
<1>3. UNCHANGED frames /\ PinsSame /\ InUseKeep
  BY <1>1, FramesStill DEF poolVars
<1>4. client[c].frame = NoFrame
  BY <1>1, HolderFrame DEF ClientsFit
<1>5. \A d \in Clients : client'[d].frame = client[d].frame
  BY <1>2, <1>4 DEF Only
<1>6. \A p \in KeptPages :
        /\ vouched'[p] \in Nat /\ vouched'[p] <= stable[p]
        /\ disk[p] \in Nat /\ written[p] \in Nat
  <2> TAKE p \in KeptPages
  <2>1. client[c].wrote[p] <= stable[p] /\ vouched[p] <= stable[p]
    BY <1>1 DEF OwnsFit, OwnFits, PagesFit, PageFits
  <2>2. client[c].wrote[p] \in Nat
    BY DEF TypeInv, ClientsTyped, ClientStates
  <2> QED
    BY <1>1, <2>1, <2>2, PageNumbers DEF TypeInv
<1>7. TypeInv'
  <2>1. vouched' \in [KeptPages -> Nat]
    BY <1>1, <1>6
  <2> QED
    BY <1>1, <1>2, <2>1
       DEF TypeInv, PoolTyped, LocksTyped, StoreTyped, poolVars, lockVars, storeVars
<1>8. CacheFits'
  BY <1>1 DEF CacheFits, poolVars, storeVars
<1>9. PinsFit' /\ LocksFit'
  BY <1>1, <1>2, <1>3, <1>5, PinsUntouched, LocksUntouched DEF Writing
<1>10. ClientsFit'
  <2>1. ClientFits(client[c])'
    BY <1>2 DEF ClientFits, Writing, Flushing
  <2> QED
    BY <1>2, <1>3, <2>1, OthersFit DEF TypeInv
<1>11. table' = table /\ frames' = frames /\ disk' = disk /\ written' = written
       /\ stable' = stable /\ nblocks' = nblocks
  BY <1>1 DEF poolVars, storeVars
<1>12. ASSUME NEW p \in KeptPages PROVE PageFits(p)'
  <2>1. PageFits(p)
    BY DEF PagesFit
  <2>2. \/ written[p] = disk[p]
        \/ frames[table[p]].dirty
        \/ \E d \in Clients : client'[d].frame = table[p] /\ client'[d].pc = "modified"
    BY <1>1, <1>2, <2>1 DEF PageFits, Only
  <2> QED
    BY <1>6, <1>11, <2>1, <2>2 DEF PageFits
<1>13. ASSUME NEW d \in Clients, NEW p \in KeptPages PROVE OwnFits(client[d], p)'
  <2>1. CASE d = c
    BY <1>2, <1>6, <1>11, <2>1, IdleOwns
  <2>2. CASE d # c
    BY <1>2, <1>11, <2>2 DEF OwnsFit, OwnFits, Only
  <2> QED
    BY <2>1, <2>2
<1> QED
  BY <1>7, <1>8, <1>9, <1>10, <1>12, <1>13 DEF PagesFit, OwnsFit


-----------------------------------------------------------------------------
(* A dropped relation, and the first state.                                *)

\* No goroutine takes a step, and the frames in use keep their pages.
LEMMA NobodyMoves ==
    ASSUME IndInv, InUseKeep, PinsSame, PagesMove, TypeInv', CacheFits',
           UNCHANGED <<client, lockVars>>
    PROVE  IndInv'
<1> USE DEF IndInv, PoolInv
<1>1. PinsFit'
  BY PinsUntouched
<1>2. ASSUME NEW d \in Clients PROVE ClientFits(client[d])'
  BY StillFits DEF TypeInv
<1>3. LocksFit'
  BY DEF LocksFit, lockVars
<1>4. \A d \in Clients : GoesOn(client[d], client'[d])
  BY DEF GoesOn
<1>5. PagesFit' /\ OwnsFit'
  BY <1>4, ContentsKeep DEF TypeInv
<1> QED
  BY <1>1, <1>2, <1>3, <1>5 DEF ClientsFit

LEMMA DiscardInv ==
    ASSUME IndInv, NEW r \in Dropped, Discard(r)
    PROVE  IndInv'
<1> USE DEF IndInv, PoolInv
<1>1. /\ dropping' = dropping \cup {r}
      /\ table' = [p \in Pages |-> IF Rel(p) = r THEN NoFrame ELSE table[p]]
      /\ UNCHANGED <<nused, hand, lockVars, files, nblocks, disk, stable, failures,
                     client, written, vouched>>
  BY DEF Discard
<1> DEFINE Gone(g) == [frames[g] EXCEPT !.valid = FALSE, !.dirty = FALSE]
           Hit(g) == frames[g].valid /\ Rel(frames[g].page) = r
<1>2. frames' = [g \in Frames |-> IF Hit(g) THEN Gone(g) ELSE frames[g]]
  BY DEF Discard
<1>3. \A g \in Frames : frames[g] \in FrameStates
  BY DEF TypeInv, PoolTyped
<1>4. ASSUME NEW g \in Frames
      PROVE  /\ Gone(g) \in FrameStates /\ ~Gone(g).valid
             /\ Gone(g).page = frames[g].page /\ Gone(g).pins = frames[g].pins
  BY <1>3 DEF FrameStates
<1> HIDE DEF Gone
<1>5. \A g \in Frames :
        /\ frames'[g] \in FrameStates
        /\ frames'[g].page = frames[g].page /\ frames'[g].pins = frames[g].pins
        /\ Hit(g) => ~frames'[g].valid
        /\ ~Hit(g) => frames'[g] = frames[g]
  BY <1>2, <1>3, <1>4
<1>6. frames' \in [Frames -> FrameStates]
  BY <1>2, <1>5
<1> HIDE DEF Hit
<1>7. TypeInv'
  <2>1. table' \in [Pages -> Frames \cup {NoFrame}]
    BY <1>1 DEF TypeInv, PoolTyped
  <2>2. StoreTyped'
    BY <1>1 DEF TypeInv, StoreTyped
  <2> QED
    BY <1>1, <1>6, <2>1, <2>2
       DEF TypeInv, PoolTyped, LocksTyped, ClientsTyped, lockVars
<1>8. CacheFits'
  <2>1. ASSUME NEW g \in Frames, frames'[g].valid
        PROVE  frames'[g].page \in Pages /\ table'[frames'[g].page] = g
    <3>1. ~Hit(g) /\ frames'[g] = frames[g]
      BY <1>5, <2>1
    <3>2. frames[g].page \in Pages /\ table[frames[g].page] = g /\ Rel(frames[g].page) # r
      BY <2>1, <3>1 DEF CacheFits, Hit
    <3> QED
      BY <1>1, <3>1, <3>2
  <2>2. ASSUME NEW p \in Pages, table'[p] # NoFrame
        PROVE  /\ frames'[table'[p]].valid /\ frames'[table'[p]].page = p
               /\ p[2] < nblocks'[Rel(p)]
    <3>1. Rel(p) # r /\ table'[p] = table[p]
      BY <1>1, <2>2
    <3>2. frames[table[p]].valid /\ frames[table[p]].page = p /\ table[p] \in Frames
      BY <2>2, <3>1 DEF CacheFits, TypeInv, PoolTyped
    <3>3. frames'[table[p]] = frames[table[p]]
      BY <1>5, <3>1, <3>2 DEF Hit
    <3> QED
      BY <1>1, <2>2, <3>1, <3>2, <3>3 DEF CacheFits
  <2>3. \A f \in Frames : f >= nused' => ~frames'[f].valid /\ frames'[f].pins = 0
    BY <1>1, <1>5 DEF CacheFits
  <2> QED
    BY <2>1, <2>2, <2>3 DEF CacheFits
<1>9. InUseKeep
  BY <1>5 DEF InUseKeep, Hit
<1>10. PinsSame
  BY <1>5 DEF PinsSame
<1>11. PagesMove
  <2>1. ASSUME NEW p \in KeptPages PROVE SamePage(p)
    <3>1. p \in Pages /\ Rel(p) # r /\ Rel(p) \in Rels
      BY PagesArePairs
    <3>2. table'[p] = table[p]
      BY <1>1, <3>1
    <3>3. ASSUME table[p] # NoFrame PROVE frames'[table[p]] = frames[table[p]]
      <4>1. frames[table[p]].page = p /\ table[p] \in Frames
        BY <3>1, <3>3 DEF CacheFits, TypeInv, PoolTyped
      <4> QED
        BY <1>5, <3>1, <4>1 DEF Hit
    <3>4. nblocks[Rel(p)] \in Nat
      BY <3>1 DEF TypeInv, StoreTyped
    <3> QED
      BY <1>1, <3>2, <3>3, <3>4 DEF SamePage
  <2> QED
    BY <2>1 DEF PagesMove
<1> QED
  BY <1>1, <1>7, <1>8, <1>9, <1>10, <1>11, NobodyMoves

\* A step that moves nothing in the pool: the file goes, or nothing happens.
LEMMA PoolRests ==
    ASSUME IndInv, StoreTyped',
           UNCHANGED <<poolVars, lockVars, nblocks, disk, stable, client, written, vouched>>
    PROVE  IndInv'
<1> USE DEF IndInv, PoolInv
<1>1. TypeInv'
  BY DEF TypeInv, PoolTyped, LocksTyped, ClientsTyped, poolVars, lockVars
<1>2. CacheFits'
  BY DEF CacheFits, poolVars
<1>3. InUseKeep /\ PinsSame
  BY FramesStill DEF poolVars
<1>4. PagesMove
  <2>1. ASSUME NEW p \in KeptPages PROVE SamePage(p)
    BY PageNumbers DEF TypeInv, SamePage, poolVars
  <2> QED
    BY <2>1 DEF PagesMove
<1> QED
  BY <1>1, <1>2, <1>3, <1>4, NobodyMoves

LEMMA UnlinkInv ==
    ASSUME IndInv, NEW r \in Dropped, Unlink(r)
    PROVE  IndInv'
<1>1. StoreTyped'
  BY DEF Unlink, IndInv, TypeInv, StoreTyped
<1> QED
  BY <1>1, PoolRests DEF Unlink

LEMMA StutterInv ==
    ASSUME IndInv, UNCHANGED vars
    PROVE  IndInv'
<1>1. StoreTyped'
  BY DEF vars, storeVars, IndInv, TypeInv, StoreTyped
<1> QED
  BY <1>1, PoolRests DEF vars, storeVars

LEMMA InitInv == Init => IndInv
<1> SUFFICES ASSUME Init PROVE IndInv
  OBVIOUS
<1> DEFINE b == [page |-> NoPage, valid |-> FALSE, pins |-> 0, usage |-> 0, dirty |-> FALSE, val |-> 0]
<1>1. b \in FrameStates /\ ~b.valid /\ b.pins = 0
  BY PoolAssumption DEF FrameStates
<1>2. /\ frames = [f \in Frames |-> b]
      /\ table = [p \in Pages |-> NoFrame]
      /\ nused = 0 /\ hand = 0
      /\ writer = [f \in Frames |-> Nobody] /\ readers = [f \in Frames |-> {}]
      /\ files = Rels /\ dropping = {} /\ nblocks = [r \in Rels |-> 1]
      /\ disk = [p \in Pages |-> 0]
      /\ stable = Zero /\ written = Zero /\ vouched = Zero
      /\ client = [c \in Clients |-> Idle]
  BY DEF Init
<1> HIDE DEF b
<1>3. Zero \in [KeptPages -> Nat] /\ \A p \in KeptPages : Zero[p] = 0
  BY DEF Zero
<1>4. TypeInv
  <2>1. PoolTyped
    BY <1>1, <1>2, FramesAreNat DEF PoolTyped
  <2>2. LocksTyped
    BY <1>2 DEF LocksTyped, Nobody
  <2>3. StoreTyped
    BY <1>2, <1>3, PoolAssumption DEF StoreTyped
  <2>4. ClientsTyped
    BY <1>2, IdleIs DEF ClientsTyped
  <2> QED
    BY <2>1, <2>2, <2>3, <2>4 DEF TypeInv
<1>5. CacheFits
  BY <1>1, <1>2 DEF CacheFits
<1>6. \A c \in Clients : client[c].frame = NoFrame /\ client[c].pc = "idle"
  BY <1>2, IdleIs
<1>7. \A f \in Frames : f # NoFrame
  BY FramesAreNat
<1>8. PinsFit
  <2>1. \A f \in Frames : Pinners(f) = {}
    BY <1>6, <1>7 DEF Pinners
  <2> QED
    BY <1>1, <1>2, <2>1, FS_EmptySet DEF PinsFit
<1>9. ClientsFit
  BY <1>6 DEF ClientsFit, ClientFits, Writing, Flushing
<1>10. LocksFit
  BY <1>2, <1>6 DEF LocksFit, Nobody, Writing
<1>11. PagesFit
  <2>1. \A p \in KeptPages : disk[p] = 0 /\ table[p] = NoFrame
    BY <1>2, PagesArePairs
  <2> QED
    BY <1>2, <1>3, <2>1 DEF PagesFit, PageFits
<1>12. OwnsFit
  <2>1. \A p \in KeptPages : disk[p] = 0
    BY <1>2, PagesArePairs
  <2> QED
    BY <1>2, <1>3, <1>6, <2>1, IdleIs DEF OwnsFit, OwnFits
<1> QED
  BY <1>4, <1>5, <1>8, <1>9, <1>10, <1>11, <1>12 DEF IndInv, PoolInv

LEMMA NextInv == IndInv /\ [Next]_vars => IndInv'
<1> SUFFICES ASSUME IndInv, [Next]_vars PROVE IndInv'
  OBVIOUS
<1>1. ASSUME NEW c \in Clients, NEW p \in Pages, PinHit(c, p) \/ PinMiss(c, p) PROVE IndInv'
  BY <1>1, PinHitInv, PinMissInv
<1>2. ASSUME NEW c \in Clients, NEW r \in Rels, Extend(c, r) PROVE IndInv'
  BY <1>2, ExtendInv
<1>3. ASSUME NEW c \in Clients, VictimFails(c) \/ LoadFails(c) \/ Unpin(c) PROVE IndInv'
  BY <1>3, VictimFailsInv, LoadFailsInv, UnpinInv
<1>4. ASSUME NEW c \in Clients, Lock(c) \/ Modify(c) \/ MarkDirty(c) \/ Unlock(c) PROVE IndInv'
  BY <1>4, LockInv, ModifyInv, MarkDirtyInv, UnlockInv
<1>5. ASSUME NEW c \in Clients,
             StartCommit(c) \/ FlushSkip(c) \/ FlushPin(c) \/ FlushRLock(c)
      PROVE  IndInv'
  BY <1>5, StartCommitInv, FlushSkipInv, FlushPinInv, FlushRLockInv
<1>6. ASSUME NEW c \in Clients,
             FlushWrite(c) \/ FlushFails(c) \/ SyncAll(c) \/ SyncFails(c) \/ Commit(c)
      PROVE  IndInv'
  BY <1>6, FlushWriteInv, FlushFailsInv, SyncAllInv, SyncFailsInv, CommitInv
<1>7. ASSUME NEW r \in Dropped, Discard(r) \/ Unlink(r) PROVE IndInv'
  BY <1>7, DiscardInv, UnlinkInv
<1>8. ASSUME UNCHANGED vars PROVE IndInv'
  BY <1>8, StutterInv
<1> QED
  BY <1>1, <1>2, <1>3, <1>4, <1>5, <1>6, <1>7, <1>8 DEF Next

\* What holds of every state the pool can reach; the theorems below are read
\* off it.
THEOREM Invariance == Spec => []IndInv
<1>1. Init => IndInv
  BY InitInv
<1>2. IndInv /\ [Next]_vars => IndInv'
  BY NextInv
<1> QED
  BY <1>1, <1>2, PTL DEF Spec


-----------------------------------------------------------------------------
(* The theorems.                                                           *)

\* TypeOK: the table, the frames, the pins and the goroutines agree in every
\* reachable state, the failed reads and writes and the discarded relations
\* included.
THEOREM PoolIsTyped == Spec => []TypeOK
<1>1. IndInv => TypeOK
  <2> SUFFICES ASSUME IndInv PROVE TypeOK
    OBVIOUS
  <2>1. \A f \in Frames : /\ frames[f].usage \in 0 .. MaxUsageCount
                          /\ frames[f].val \in 0 .. MaxWrites
    BY DEF IndInv, TypeInv, PoolTyped, FrameStates
  <2>2. \A f \in Frames : /\ frames[f].pins = Cardinality(Pinners(f))
                          /\ frames[f].valid => table[frames[f].page] = f
    BY DEF IndInv, PoolInv, PinsFit, CacheFits
  <2>3. \A p \in Pages : table[p] # NoFrame =>
                            frames[table[p]].valid /\ frames[table[p]].page = p
    BY DEF IndInv, PoolInv, CacheFits
  <2>4. \A c \in Clients : client[c].pc \in Pcs
    BY DEF IndInv, TypeInv, ClientsTyped, ClientStates
  <2> QED
    BY <2>1, <2>2, <2>3, <2>4 DEF TypeOK, IndInv, TypeInv, PoolTyped, StoreTyped
<1> QED
  BY <1>1, Invariance, PTL

\* NoLostWrites: a Pin of a page returns every change made to it, whatever was
\* evicted, reloaded, flushed or failed to be in between.
THEOREM NoWriteIsLost == Spec => []NoLostWrites
<1>1. IndInv => NoLostWrites
  BY DEF IndInv, PagesFit, PageFits, NoLostWrites
<1> QED
  BY <1>1, Invariance, PTL

\* CommitIsDurable: what a commit bit vouches for survives a crash, the changes
\* of the transaction that other sessions brought to disk included.
THEOREM CommitsAreDurable == Spec => []CommitIsDurable
<1>1. IndInv => CommitIsDurable
  BY DEF IndInv, PagesFit, PageFits, CommitIsDurable
<1> QED
  BY <1>1, Invariance, PTL

\* SweepIsClock: in every reachable state the sweep would take the first frame
\* after the hand of those that need the fewest passes, for any number of
\* frames and any cap of the usage counts.
THEOREM SweepTakesTheFirst == Spec => []SweepIsClock
<1>1. IndInv => SweepIsClock
  BY ClockFromType DEF IndInv, TypeInv, PoolTyped, ClockTyped
<1> QED
  BY <1>1, Invariance, PTL


-----------------------------------------------------------------------------
(* What a step may do to frames in use and to the disk.                    *)

\* A frame that is written holds the page, is nobody's to change, and is
\* cached or held.
Writable(p) ==
    \E g \in Frames : /\ frames[g].page = p /\ writer[g] = Nobody
                      /\ frames[g].valid \/ frames[g].pins > 0

HeldKeep == \A f \in Frames : frames[f].pins > 0 => frames'[f].page = frames[f].page

\* A frame in use loses its page only with its relation.
LosesKeep ==
    /\ dropping \subseteq dropping'
    /\ \A f \in Frames : frames'[f].pins > 0 /\ ~frames'[f].valid =>
          \/ frames[f].pins > 0 /\ ~frames[f].valid
          \/ Rel(frames'[f].page) \in dropping'

DiskKeep == \A p \in Pages : disk'[p] # disk[p] => Writable(p) \/ ~(p[2] < nblocks[Rel(p)])

\* A discarded frame that is still held is of a relation being dropped.
DiscardsFit ==
    \A f \in Frames : frames[f].pins > 0 /\ ~frames[f].valid =>
        Rel(frames[f].page) \in dropping

\* What every step does.
Keeps == HeldKeep /\ LosesKeep /\ DiskKeep

\* The frames keep their pages, and those that come into use have one.
LEMMA PoolKeeps ==
    ASSUME UNCHANGED <<dropping, disk>>,
           \A f \in Frames :
              /\ frames'[f].page = frames[f].page /\ frames'[f].valid = frames[f].valid
              /\ frames'[f].pins > 0 => frames[f].pins > 0 \/ frames[f].valid
    PROVE  Keeps
BY DEF Keeps, HeldKeep, LosesKeep, DiskKeep


\* Frame f gets other pins or another content: the other actions on frames.
LEMMA FrameKeeps ==
    ASSUME UNCHANGED <<dropping, disk>>, NEW f \in Frames,
           \A g \in Frames \ {f} : frames'[g] = frames[g],
           frames'[f].page = frames[f].page, frames'[f].valid = frames[f].valid,
           frames'[f].pins > 0 => frames[f].pins > 0 \/ frames[f].valid
    PROVE  Keeps
BY PoolKeeps

\* Frame v, which nobody holds, is written if it must be, and gets another page.
LEMMA EvictKeeps ==
    ASSUME IndInv, NEW v \in Frames, frames[v].pins = 0, UNCHANGED dropping,
           \A g \in Frames \ {v} : /\ frames'[g].page = frames[g].page
                                   /\ frames'[g].valid = frames[g].valid
                                   /\ frames'[g].pins = frames[g].pins,
           frames'[v].valid \/ frames'[v].pins = 0,
           \A q \in Pages : \/ disk'[q] = disk[q]
                            \/ (MustFlush(v) /\ frames[v].page = q)
                            \/ ~(q[2] < nblocks[Rel(q)])
    PROVE  Keeps
<1>1. \A f \in Frames : frames[f].pins > 0 => f # v
  OBVIOUS
<1>2. HeldKeep
  BY <1>1 DEF HeldKeep
<1>3. LosesKeep
  <2>1. ASSUME NEW f \in Frames, frames'[f].pins > 0, ~frames'[f].valid
        PROVE  frames[f].pins > 0 /\ ~frames[f].valid
    <3>1. f # v
      BY <2>1
    <3> QED
      BY <2>1, <3>1
  <2> QED
    BY <2>1 DEF LosesKeep
<1>4. writer[v] = Nobody
  <2>1. ASSUME NEW c \in Clients, client[c].frame = v PROVE FALSE
    BY <2>1, HolderPins DEF IndInv, PoolInv
  <2> QED
    BY <2>1 DEF IndInv, PoolInv, LocksFit, Nobody
<1>5. DiskKeep
  BY <1>4 DEF DiskKeep, Writable, MustFlush
<1> QED
  BY <1>2, <1>3, <1>5 DEF Keeps

LEMMA InstallKeeps ==
    ASSUME IndInv, NEW p \in Pages, NEW x, Victim.victim # NoFrame, UNCHANGED dropping,
           Install(Victim, p, x),
           \A q \in Pages : \/ disk'[q] = disk[q]
                            \/ (MustFlush(Victim.victim) /\ frames[Victim.victim].page = q)
                            \/ ~(q[2] < nblocks[Rel(q)])
    PROVE  Keeps
<1>1. PICK v \in Frames : v = Victim.victim /\ frames[v].pins = 0
  BY VictimTyped DEF IndInv, PoolInv, TypeInv, Free
<1>2. /\ frames'[v].valid
      /\ \A g \in Frames \ {v} : frames'[g] = Swept(Victim)[g]
  BY <1>1, SweptFrames DEF Install, IndInv, PoolInv, TypeInv
<1>3. \A g \in Frames \ {v} : /\ frames'[g].page = frames[g].page
                              /\ frames'[g].valid = frames[g].valid
                              /\ frames'[g].pins = frames[g].pins
  BY <1>2, SweptFrames DEF IndInv, PoolInv, TypeInv
<1> QED
  BY <1>1, <1>2, <1>3, EvictKeeps

LEMMA PinKeeps ==
    ASSUME IndInv, NEW c \in Clients, NEW p \in Pages, PinHit(c, p) \/ PinMiss(c, p)
    PROVE  Keeps
<1>3. disk \in [Pages -> 0 .. MaxWrites]
  BY DEF IndInv, TypeInv, StoreTyped
<1>1. CASE PinHit(c, p)
  <2>1. PICK f \in Frames : f = table[p] /\ frames[f].valid /\ frames[f] \in FrameStates
    BY <1>1 DEF PinHit, IndInv, TypeInv, PoolTyped, PoolInv, CacheFits
  <2>2. /\ frames' = [frames EXCEPT ![f].pins = @ + 1,
                                    ![f].usage = IF @ < MaxUsageCount THEN @ + 1 ELSE @]
        /\ UNCHANGED <<dropping, disk>>
    BY <1>1, <2>1 DEF PinHit, storeVars
  <2>3. frames \in [Frames -> FrameStates]
    BY DEF IndInv, TypeInv, PoolTyped
  <2>4. /\ \A g \in Frames \ {f} : frames'[g] = frames[g]
        /\ frames'[f].page = frames[f].page /\ frames'[f].valid = frames[f].valid
    BY <2>1, <2>2, <2>3 DEF FrameStates
  <2> QED
    BY <2>1, <2>2, <2>4, FrameKeeps
<1>2. CASE PinMiss(c, p)
  <2>1. /\ Victim.victim # NoFrame /\ Install(Victim, p, disk[p]) /\ UNCHANGED dropping
        /\ disk' = IF MustFlush(Victim.victim) THEN DiskWith(Victim.victim) ELSE disk
    BY <1>2 DEF PinMiss, dropVars
  <2>2. \A q \in Pages : disk'[q] = disk[q]
                         \/ (MustFlush(Victim.victim) /\ frames[Victim.victim].page = q)
    BY <1>3, <2>1 DEF DiskWith
  <2> QED
    BY <2>1, <2>2, InstallKeeps
<1> QED
  BY <1>1, <1>2

LEMMA ExtendKeeps ==
    ASSUME IndInv, NEW c \in Clients, NEW r \in Rels, Extend(c, r)
    PROVE  Keeps
<1>1. PICK p \in Pages : p = <<r, nblocks[r]>>
  BY DEF Extend
<1>2. /\ Victim.victim # NoFrame /\ Install(Victim, p, 0) /\ UNCHANGED dropping
      /\ disk' = IF MustFlush(Victim.victim)
                 THEN [DiskWith(Victim.victim) EXCEPT ![p] = 0] ELSE [disk EXCEPT ![p] = 0]
  BY <1>1 DEF Extend, dropVars
<1>3. Rel(p) = r /\ p[2] = nblocks[r] /\ nblocks[r] \in Nat
  BY <1>1 DEF Rel, IndInv, TypeInv, StoreTyped
<1>4. ~(p[2] < nblocks[Rel(p)])
  BY <1>3
<1>6. disk \in [Pages -> 0 .. MaxWrites]
  BY DEF IndInv, TypeInv, StoreTyped
<1>5. \A q \in Pages \ {p} : disk'[q] = disk[q]
                             \/ (MustFlush(Victim.victim) /\ frames[Victim.victim].page = q)
  BY <1>2, <1>6 DEF DiskWith
<1> QED
  BY <1>2, <1>4, <1>5, InstallKeeps

LEMMA MissFailsKeeps ==
    ASSUME IndInv, NEW c \in Clients, VictimFails(c) \/ LoadFails(c)
    PROVE  Keeps
<1>1. PICK v \in Frames : v = Victim.victim /\ frames[v].pins = 0
  BY VictimTyped DEF VictimFails, LoadFails, IndInv, PoolInv, TypeInv, Free
<1>2. \A g \in Frames : /\ Swept(Victim)[g].page = frames[g].page
                        /\ Swept(Victim)[g].valid = frames[g].valid
                        /\ Swept(Victim)[g].pins = frames[g].pins
                        /\ Swept(Victim)[g] \in FrameStates
  BY SweptFrames DEF IndInv, PoolInv, TypeInv
<1>3. Swept(Victim) \in [Frames -> FrameStates]
  BY SweptFrames DEF IndInv, PoolInv, TypeInv
<1>6. disk \in [Pages -> 0 .. MaxWrites]
  BY DEF IndInv, TypeInv, StoreTyped
<1>4. CASE VictimFails(c)
  <2>1. frames' = Swept(Victim) /\ UNCHANGED <<dropping, disk>>
    BY <1>4 DEF VictimFails, dropVars
  <2> HIDE DEF Swept
  <2> QED
    BY <1>2, <2>1, PoolKeeps
<1>5. CASE LoadFails(c)
  <2>1. /\ frames' = [Swept(Victim) EXCEPT ![v].valid = FALSE, ![v].dirty = FALSE]
        /\ disk' = IF MustFlush(v) THEN DiskWith(v) ELSE disk
        /\ UNCHANGED dropping
    BY <1>1, <1>5 DEF LoadFails, dropVars
  <2>2. /\ frames'[v].pins = 0
        /\ \A g \in Frames \ {v} : frames'[g] = Swept(Victim)[g]
    BY <1>1, <1>2, <1>3, <2>1 DEF FrameStates
  <2>3. \A q \in Pages : disk'[q] = disk[q] \/ (MustFlush(v) /\ frames[v].page = q)
    BY <1>6, <2>1 DEF DiskWith
  <2>4. \A g \in Frames \ {v} : /\ frames'[g].page = frames[g].page
                                /\ frames'[g].valid = frames[g].valid
                                /\ frames'[g].pins = frames[g].pins
    BY <1>2, <2>2
  <2> QED
    BY <1>1, <2>1, <2>2, <2>3, <2>4, EvictKeeps
<1> QED
  BY <1>4, <1>5


\* The goroutine's own frame: Unpin, the write, MarkDirty and FlushAll.
LEMMA OwnFrameKeeps ==
    ASSUME IndInv, NEW c \in Clients,
           Unpin(c) \/ Modify(c) \/ MarkDirty(c) \/ FlushFails(c)
    PROVE  Keeps
<1>1. PICK f \in Frames : f = client[c].frame
  BY HolderFrame DEF Unpin, Modify, MarkDirty, FlushFails, IndInv, PoolInv, ClientsFit
<1>2. frames[f].pins > 0 /\ frames[f] \in FrameStates /\ frames \in [Frames -> FrameStates]
  BY <1>1, HolderPins DEF IndInv, PoolInv, TypeInv, PoolTyped
<1>3. UNCHANGED <<dropping, disk>>
  BY DEF Unpin, Modify, MarkDirty, FlushFails, storeVars, dropVars
<1>4. \/ frames' = [frames EXCEPT ![f].pins = @ - 1]
      \/ frames' = [frames EXCEPT ![f].val = @ + 1]
      \/ frames' = [frames EXCEPT ![f].dirty = TRUE]
  BY <1>1 DEF Unpin, Modify, MarkDirty, FlushFails
<1>5. /\ \A g \in Frames \ {f} : frames'[g] = frames[g]
      /\ frames'[f].page = frames[f].page /\ frames'[f].valid = frames[f].valid
  BY <1>2, <1>4 DEF FrameStates
<1> QED
  BY <1>2, <1>3, <1>5, FrameKeeps

LEMMA FlushPinKeeps ==
    ASSUME IndInv, NEW c \in Clients, FlushPin(c)
    PROVE  Keeps
<1>1. PICK f \in Frames : f = client[c].walk
  BY FramesAreNat DEF FlushPin, IndInv, TypeInv, ClientsTyped, ClientStates
<1>2. frames[f] \in FrameStates /\ frames \in [Frames -> FrameStates]
  BY DEF IndInv, TypeInv, PoolTyped
<1>3. /\ frames' = [frames EXCEPT ![f].pins = @ + 1] /\ frames[f].valid
      /\ UNCHANGED <<dropping, disk>>
  BY <1>1 DEF FlushPin, MustFlush, storeVars
<1>4. /\ \A g \in Frames \ {f} : frames'[g] = frames[g]
      /\ frames'[f].page = frames[f].page /\ frames'[f].valid = frames[f].valid
  BY <1>2, <1>3 DEF FrameStates
<1> QED
  BY <1>3, <1>4, FrameKeeps

\* FlushAll writes under the shared lock: nobody is changing the frame.
LEMMA FlushWriteKeeps ==
    ASSUME IndInv, NEW c \in Clients, FlushWrite(c)
    PROVE  Keeps
<1>1. PICK f \in Frames : f = client[c].frame
  BY HolderFrame DEF FlushWrite, IndInv, PoolInv, ClientsFit
<1>2. /\ disk' = IF frames[f].dirty THEN DiskWith(f) ELSE disk
      /\ frames' = [frames EXCEPT ![f].dirty = FALSE, ![f].pins = @ - 1]
      /\ UNCHANGED dropping
  BY <1>1 DEF FlushWrite, dropVars
<1>3. /\ frames[f].pins > 0 /\ writer[f] = Nobody
      /\ frames[f] \in FrameStates /\ frames \in [Frames -> FrameStates]
  BY <1>1, HolderPins, ReaderAlone DEF FlushWrite, Nobody, IndInv, PoolInv, TypeInv, PoolTyped
<1>4. /\ \A g \in Frames \ {f} : frames'[g] = frames[g]
      /\ frames'[f].page = frames[f].page /\ frames'[f].valid = frames[f].valid
  BY <1>2, <1>3 DEF FrameStates
<1>5. HeldKeep /\ LosesKeep
  BY <1>2, <1>3, <1>4 DEF HeldKeep, LosesKeep
<1>6. \A q \in Pages : disk'[q] # disk[q] => q = frames[f].page
  <2>1. disk \in [Pages -> 0 .. MaxWrites]
    BY DEF IndInv, TypeInv, StoreTyped
  <2> QED
    BY <1>2, <2>1 DEF DiskWith
<1>7. DiskKeep
  BY <1>3, <1>6 DEF DiskKeep, Writable
<1> QED
  BY <1>5, <1>7 DEF Keeps

LEMMA DiscardKeeps ==
    ASSUME IndInv, NEW r \in Dropped, Discard(r)
    PROVE  Keeps
<1> DEFINE Gone(g) == [frames[g] EXCEPT !.valid = FALSE, !.dirty = FALSE]
           Hit(g) == frames[g].valid /\ Rel(frames[g].page) = r
<1>1. /\ frames' = [g \in Frames |-> IF Hit(g) THEN Gone(g) ELSE frames[g]]
      /\ dropping' = dropping \cup {r} /\ disk' = disk
  BY DEF Discard
<1>2. ASSUME NEW g \in Frames
      PROVE  Gone(g).page = frames[g].page /\ Gone(g).pins = frames[g].pins
  BY DEF FrameStates, IndInv, TypeInv, PoolTyped
<1> HIDE DEF Gone
<1>3. \A g \in Frames : /\ frames'[g].page = frames[g].page
                        /\ frames'[g].pins = frames[g].pins
                        /\ Hit(g) \/ frames'[g] = frames[g]
  BY <1>1, <1>2
<1>4. HeldKeep /\ DiskKeep
  BY <1>1, <1>3 DEF HeldKeep, DiskKeep
<1>5. LosesKeep
  BY <1>1, <1>3 DEF LosesKeep
<1> QED
  BY <1>4, <1>5 DEF Keeps

\* The other steps leave the frames and the disk alone.
LEMMA RestKeeps ==
    ASSUME UNCHANGED <<frames, dropping, disk>>
    PROVE  Keeps
BY PoolKeeps

LEMMA StepKeeps == IndInv /\ [Next]_vars => Keeps
<1> SUFFICES ASSUME IndInv, [Next]_vars PROVE Keeps
  OBVIOUS
<1>1. ASSUME NEW c \in Clients, NEW p \in Pages, PinHit(c, p) \/ PinMiss(c, p) PROVE Keeps
  BY <1>1, PinKeeps
<1>2. ASSUME NEW c \in Clients, NEW r \in Rels, Extend(c, r) PROVE Keeps
  BY <1>2, ExtendKeeps
<1>3. ASSUME NEW c \in Clients, VictimFails(c) \/ LoadFails(c) PROVE Keeps
  BY <1>3, MissFailsKeeps
<1>4. ASSUME NEW c \in Clients, Unpin(c) \/ Modify(c) \/ MarkDirty(c) \/ FlushFails(c)
      PROVE  Keeps
  BY <1>4, OwnFrameKeeps
<1>5. ASSUME NEW c \in Clients, FlushPin(c) PROVE Keeps
  BY <1>5, FlushPinKeeps
<1>6. ASSUME NEW c \in Clients, FlushWrite(c) PROVE Keeps
  BY <1>6, FlushWriteKeeps
<1>7. ASSUME NEW r \in Dropped, Discard(r) PROVE Keeps
  BY <1>7, DiscardKeeps
<1>8. ASSUME NEW c \in Clients,
             Lock(c) \/ Unlock(c) \/ StartCommit(c) \/ FlushSkip(c) \/ FlushRLock(c)
             \/ SyncAll(c) \/ SyncFails(c) \/ Commit(c)
      PROVE  Keeps
  BY <1>8, RestKeeps DEF Lock, Unlock, StartCommit, FlushSkip, FlushRLock, SyncAll, SyncFails,
     Commit, poolVars, storeVars, dropVars
<1>9. ASSUME NEW r \in Dropped, Unlink(r) PROVE Keeps
  BY <1>9, RestKeeps DEF Unlink, poolVars
<1>10. ASSUME UNCHANGED vars PROVE Keeps
  BY <1>10, RestKeeps DEF vars, poolVars, storeVars
<1> QED
  BY <1>1, <1>2, <1>3, <1>4, <1>5, <1>6, <1>7, <1>8, <1>9, <1>10 DEF Next

LEMMA DiscardsKeep == DiscardsFit /\ Keeps => DiscardsFit'
BY DEF DiscardsFit, Keeps, HeldKeep, LosesKeep

LEMMA DiscardsStart == Init => DiscardsFit
BY DEF Init, DiscardsFit

\* PinnedFrameStays: the frame a goroutine holds pinned holds the same page
\* until it is unpinned, through every eviction, failed load and Discard.
THEOREM PinsHoldPages == Spec => PinnedFrameStays
<1>1. ASSUME IndInv, Keeps, NEW c \in Clients, client[c].frame # NoFrame
      PROVE  frames'[client[c].frame].page = frames[client[c].frame].page
  <2>1. PICK f \in Frames : f = client[c].frame
    BY <1>1 DEF IndInv, TypeInv, ClientsTyped, ClientStates
  <2>2. frames[f].pins > 0
    BY <1>1, <2>1, HolderPins DEF IndInv, PoolInv
  <2> QED
    BY <1>1, <2>1, <2>2 DEF Keeps, HeldKeep
<1>2. IndInv /\ [Next]_vars =>
         [\A c \in Clients :
             client[c].frame # NoFrame /\ client'[c].frame = client[c].frame
                => frames'[client[c].frame].page = frames[client[c].frame].page]_vars
  BY <1>1, StepKeeps
<1> QED
  BY <1>2, Invariance, PTL DEF Spec, PinnedFrameStays

\* NoTornWrite: while a goroutine changes a page under the content lock no
\* eviction and no FlushAll brings that page to the disk.
THEOREM HalfChangesStayOffDisk == Spec => NoTornWrite
<1>1. ASSUME IndInv, DiscardsFit, Keeps, NEW f \in Frames, writer[f] # Nobody,
             table[frames[f].page] = f, Rel(frames[f].page) \notin dropping
      PROVE  disk'[frames[f].page] = disk[frames[f].page]
  <2>1. PICK c \in Clients : client[c].frame = f /\ client[c].pc \in Writing
    BY <1>1 DEF IndInv, PoolInv, LocksFit, Nobody
  <2>2. PICK p \in Pages : p = frames[f].page
    BY <1>1, <2>1, FramesAreNat DEF IndInv, PoolInv, ClientsFit, ClientFits, InUse
  <2>3. table[p] = f /\ f # NoFrame /\ p[2] < nblocks[Rel(p)]
    BY <1>1, <2>2, FramesAreNat DEF IndInv, PoolInv, CacheFits
  <2>4. ~Writable(p)
    <3>1. SUFFICES ASSUME NEW g \in Frames, frames[g].page = p, writer[g] = Nobody,
                          frames[g].valid \/ frames[g].pins > 0
                   PROVE  FALSE
      BY DEF Writable
    <3>2. ASSUME frames[g].valid PROVE g = f
      <4>1. table[frames[g].page] = g
        BY <1>1, <3>1, <3>2 DEF IndInv, PoolInv, CacheFits
      <4> QED
        BY <2>3, <3>1, <4>1
    <3>3. ~frames[g].valid => Rel(p) \in dropping
      BY <1>1, <3>1 DEF DiscardsFit
    <3> QED
      BY <1>1, <2>2, <3>1, <3>2, <3>3
  <2> QED
    BY <1>1, <2>2, <2>3, <2>4 DEF Keeps, DiskKeep
<1>2. IndInv /\ DiscardsFit /\ [Next]_vars =>
         [\A f \in Frames :
             writer[f] # Nobody => LET p == frames[f].page IN
                 table[p] = f /\ Rel(p) \notin dropping => disk'[p] = disk[p]]_vars
  BY <1>1, StepKeeps
<1>3. IndInv /\ DiscardsFit /\ [Next]_vars => DiscardsFit'
  BY StepKeeps, DiscardsKeep
<1> QED
  BY <1>2, <1>3, DiscardsStart, Invariance, PTL DEF Spec, NoTornWrite

=============================================================================
