------------------------- MODULE ReplayWindowProofs -------------------------
(***************************************************************************)
(* What the proofs about Push and Association need to know of the replay   *)
(* window, for every bitmap and counter size and every width.              *)
(***************************************************************************)
EXTENDS ReplayWindow, TLAPS

\* ReplayWindow::new is a well-formed, empty window of the clamped width.
LEMMA NewWindowFacts ==
  ASSUME NEW width \in Nat
  PROVE  /\ NewWindow(width) \in Window
         /\ NewWindow(width).highest = NoCounter
         /\ NewWindow(width).seen = {}
         /\ NewWindow(width).width = ClampWidth(width)
BY SlotsAssumption DEF NewWindow, Window, ClampWidth, Bits, NoCounter

\* ReplayWindow::resumed is well formed and refuses all it was told of.
LEMMA ResumedWindowFacts ==
  ASSUME NEW width \in Nat, NEW h \in Counter
  PROVE  /\ ResumedWindow(h, width) \in Window
         /\ ResumedWindow(h, width).highest = h
         /\ ResumedWindow(h, width).width = ClampWidth(width)
         /\ \A c \in Counter : c <= h => ~Fresh(ResumedWindow(h, width), c)
<1>1. /\ ResumedWindow(h, width) \in Window
      /\ ResumedWindow(h, width).highest = h
      /\ ResumedWindow(h, width).width = ClampWidth(width)
      /\ ResumedWindow(h, width).seen = Bits
  BY NewWindowFacts DEF ResumedWindow, Window
<1>2. ASSUME NEW c \in Counter, c <= h
      PROVE  ~Fresh(ResumedWindow(h, width), c)
  BY <1>1, <1>2, SlotsAssumption, CounterMaxAssumption DEF Fresh, Bits, Counter, NoCounter
<1> QED
  BY <1>1, <1>2

\* ReplayWindow::accept keeps the window well formed and moves `highest` to the
\* larger of the two counters.
LEMMA AcceptFacts ==
  ASSUME NEW w \in Window, NEW c \in Counter, Fresh(w, c)
  PROVE  /\ Accept(w, c) \in Window
         /\ Accept(w, c).width = w.width
         /\ Accept(w, c).highest = IF c > w.highest THEN c ELSE w.highest
         /\ Accept(w, c).seen =
              IF w.highest = NoCounter THEN {0}
              ELSE IF c > w.highest THEN ShiftLeft(w.seen, c - w.highest) \cup {0}
              ELSE w.seen \cup {w.highest - c}
<1> USE SlotsAssumption, CounterMaxAssumption
<1>1. CASE w.highest = NoCounter
  <2>1. {0} \in SUBSET Bits /\ c > NoCounter
    BY DEF Bits, Counter, NoCounter
  <2>2. Accept(w, c) = [w EXCEPT !.highest = c, !.seen = {0}]
    BY <1>1 DEF Accept
  <2> QED
    BY <1>1, <2>1, <2>2 DEF Window
<1>2. CASE w.highest # NoCounter /\ c > w.highest
  <2>1. ShiftLeft(w.seen, c - w.highest) \cup {0} \in SUBSET Bits
    BY DEF ShiftLeft, Bits
  <2>2. Accept(w, c) = [w EXCEPT !.highest = c,
                                 !.seen = ShiftLeft(w.seen, c - w.highest) \cup {0}]
    BY <1>2 DEF Accept
  <2> QED
    BY <1>2, <2>1, <2>2 DEF Window
<1>3. CASE w.highest # NoCounter /\ ~(c > w.highest)
  <2>1. w.highest - c \in Bits
    BY <1>3 DEF Fresh, Window, Bits, Counter, NoCounter
  <2>2. Accept(w, c) = [w EXCEPT !.seen = w.seen \cup {w.highest - c}]
    BY <1>3 DEF Accept
  <2> QED
    BY <1>3, <2>1, <2>2 DEF Window
<1> QED
  BY <1>1, <1>2, <1>3

\* A counter that has been accepted is refused from then on.
LEMMA AcceptedIsRefused ==
  ASSUME NEW w \in Window, NEW c \in Counter, Fresh(w, c)
  PROVE  ~Fresh(Accept(w, c), c)
<1> DEFINE v == Accept(w, c)
<1>1. /\ v.highest = IF c > w.highest THEN c ELSE w.highest
      /\ v.seen = IF w.highest = NoCounter THEN {0}
                  ELSE IF c > w.highest THEN ShiftLeft(w.seen, c - w.highest) \cup {0}
                  ELSE w.seen \cup {w.highest - c}
  BY AcceptFacts
<1>2. c \in Nat /\ NoCounter < c /\ w.highest \in Int
  BY CounterMaxAssumption DEF Counter, NoCounter, Window
<1>3. v.highest # NoCounter /\ ~(c > v.highest) /\ (v.highest - c) \in v.seen
  BY <1>1, <1>2
<1> QED
  BY <1>3 DEF Fresh

\* Accepting another counter makes nothing acceptable that was refused: a bit
\* that is shifted out has also left the window.
LEMMA RefusedStaysRefused ==
  ASSUME NEW w \in Window, NEW c \in Counter, Fresh(w, c),
         NEW d \in Counter, ~Fresh(w, d)
  PROVE  ~Fresh(Accept(w, c), d)
<1> USE SlotsAssumption, CounterMaxAssumption
<1>1. w.highest # NoCounter /\ d <= w.highest
  BY DEF Fresh, Window, Counter, NoCounter
<1>2. CASE c > w.highest
  <2>1. /\ Accept(w, c).highest = c
        /\ Accept(w, c).width = w.width
        /\ Accept(w, c).seen = ShiftLeft(w.seen, c - w.highest) \cup {0}
    BY AcceptFacts, <1>1, <1>2
  <2>2. c # NoCounter /\ d < c
    BY <1>1, <1>2 DEF Window, Counter, NoCounter
  <2>3. CASE c - d <= w.width /\ c - d < Slots
    <3>1. w.highest - d \in w.seen
      BY <1>1, <1>2, <2>3 DEF Fresh, Window, Counter, NoCounter, Bits
    <3>2. c - d \in Bits /\ (c - d) - (c - w.highest) = w.highest - d
      BY <1>1, <2>2, <2>3 DEF Window, Counter, NoCounter, Bits
    <3>3. c - d \in ShiftLeft(w.seen, c - w.highest)
      BY <3>1, <3>2 DEF ShiftLeft
    <3> QED
      BY <2>1, <2>2, <3>3 DEF Fresh, Counter
  <2>4. CASE ~(c - d <= w.width /\ c - d < Slots)
    BY <2>1, <2>2, <2>4 DEF Fresh, Counter
  <2> QED
    BY <2>3, <2>4
<1>3. CASE ~(c > w.highest)
  <2>1. /\ Accept(w, c).highest = w.highest
        /\ Accept(w, c).width = w.width
        /\ w.seen \subseteq Accept(w, c).seen
    BY AcceptFacts, <1>1, <1>3
  <2> QED
    BY <1>1, <2>1 DEF Fresh
<1> QED
  BY <1>2, <1>3

\* A bit of the window after accepting c stands for c or for a bit that was set
\* before.
LEMMA AcceptSetsOneBit ==
  ASSUME NEW w \in Window, NEW c \in Counter, Fresh(w, c),
         NEW d \in Counter, d <= Accept(w, c).highest,
         (Accept(w, c).highest - d) \in Accept(w, c).seen
  PROVE  d = c \/ (d <= w.highest /\ (w.highest - d) \in w.seen)
<1> USE SlotsAssumption, CounterMaxAssumption
<1>0. c \in Int /\ d \in Int /\ w.highest \in Int /\ NoCounter < c
  BY DEF Window, Counter, NoCounter
<1>1. CASE w.highest = NoCounter
  <2>1. Accept(w, c).highest = c /\ Accept(w, c).seen = {0}
    BY <1>0, <1>1, AcceptFacts
  <2> QED
    BY <1>0, <2>1
<1>2. CASE w.highest # NoCounter /\ c > w.highest
  <2>1. /\ Accept(w, c).highest = c
        /\ Accept(w, c).seen = ShiftLeft(w.seen, c - w.highest) \cup {0}
    BY AcceptFacts, <1>2
  <2>2. CASE c - d = 0
    BY <2>2 DEF Counter
  <2>3. CASE c - d \in ShiftLeft(w.seen, c - w.highest)
    <3>1. (c - d) - (c - w.highest) \in w.seen
      BY <2>3 DEF ShiftLeft
    <3>2. (c - d) - (c - w.highest) = w.highest - d
      BY DEF Window, Counter, NoCounter
    <3>3. w.highest - d >= 0
      BY <3>1, <3>2 DEF Window, Bits
    <3> QED
      BY <3>1, <3>2, <3>3 DEF Window, Counter, NoCounter
  <2> QED
    BY <2>1, <2>2, <2>3
<1>3. CASE w.highest # NoCounter /\ ~(c > w.highest)
  <2>1. Accept(w, c).highest = w.highest /\ Accept(w, c).seen = w.seen \cup {w.highest - c}
    BY <1>3, AcceptFacts
  <2> QED
    BY <1>0, <2>1
<1> QED
  BY <1>1, <1>2, <1>3
=============================================================================
