---------------------------- MODULE ReplayWindow ----------------------------
(***************************************************************************)
(* The receiving half of src/security/counter.rs: the sliding window that  *)
(* accepts each invocation counter of one peer at most once, and the       *)
(* sending counter it is the counterpart of.                               *)
(*                                                                         *)
(* A window is a record.  `highest` is the highest counter accepted        *)
(* (NoCounter for the code's None), `seen` the set of the bitmap's set     *)
(* bits: i \in seen says that highest - i has been accepted.  The bitmap   *)
(* has Slots bits, 64 in the code (REPLAY_WINDOW_MAX).                     *)
(***************************************************************************)
EXTENDS Integers

CONSTANTS Slots,      \* REPLAY_WINDOW_MAX: the bits of the bitmap
          CounterMax  \* u32::MAX

ASSUME SlotsAssumption == Slots \in Nat \ {0}
ASSUME CounterMaxAssumption == CounterMax \in Nat

Counter == 0 .. CounterMax
NoCounter == -1
Bits == 0 .. (Slots - 1)

Window == [highest : Counter \cup {NoCounter}, seen : SUBSET Bits, width : Bits]

(***************************************************************************)
(* InvocationCounter.  The value kept is the last one used; the next one   *)
(* is refused, never wrapped, once the counter is exhausted.               *)
(***************************************************************************)
\* Mutant: the counter is never exhausted.
HasNextAlways(last) == TRUE

HasNext(last) == last < CounterMax
NextCounter(last) == last + 1

(***************************************************************************)
(* ReplayWindow::new and ReplayWindow::resumed.  The requested width is    *)
(* clamped to REPLAY_WIDTH_MAX = Slots - 1; a resumed window treats        *)
(* everything at or below `highest` as seen.                               *)
(***************************************************************************)
ClampWidth(width) == IF width > Slots - 1 THEN Slots - 1 ELSE width

NewWindow(width) ==
  [highest |-> NoCounter, seen |-> {}, width |-> ClampWidth(width)]

ResumedWindow(highest, width) ==
  [NewWindow(width) EXCEPT !.highest = highest, !.seen = Bits]

\* ReplayWindow::expected_next: what an invocation-counter-error names.
ExpectedNext(w) ==
  IF w.highest = NoCounter THEN 0
  ELSE IF w.highest = CounterMax THEN CounterMax ELSE w.highest + 1

\* Mutant: anything within the width of the highest is accepted, seen or not.
FreshWithoutBitmap(w, c) ==
  \/ w.highest = NoCounter
  \/ c > w.highest
  \/ w.highest - c <= w.width

\* Mutant: the configured width is ignored, only a higher counter will do.
FreshStrict(w, c) == w.highest = NoCounter \/ c > w.highest

(***************************************************************************)
(* ReplayWindow::check: above the highest, or inside the width with its    *)
(* bit clear.                                                              *)
(***************************************************************************)
Fresh(w, c) ==
  \/ w.highest = NoCounter
  \/ c > w.highest
  \/ /\ w.highest - c <= w.width
     /\ w.highest - c < Slots
     /\ (w.highest - c) \notin w.seen

\* The u64 bitmap shifted left: bits pushed past the last slot are lost, and an
\* advance of Slots or more empties it.
ShiftLeft(seen, advance) == {i \in Bits : i - advance \in seen}

(***************************************************************************)
(* ReplayWindow::accept on a counter that check lets through.              *)
(***************************************************************************)
Accept(w, c) ==
  IF w.highest = NoCounter
    THEN [w EXCEPT !.highest = c, !.seen = {0}]
  ELSE IF c > w.highest
    THEN [w EXCEPT !.highest = c, !.seen = ShiftLeft(w.seen, c - w.highest) \cup {0}]
  ELSE [w EXCEPT !.seen = w.seen \cup {w.highest - c}]
=============================================================================
