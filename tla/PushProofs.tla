----------------------------- MODULE PushProofs -----------------------------
(***************************************************************************)
(* Proofs about Push, for every set of meters, every window and counter    *)
(* size, every width and every storage interval.                           *)
(***************************************************************************)
EXTENDS Push, ReplayWindowProofs

(***************************************************************************)
(* The inductive invariant, in parts.                                      *)
(***************************************************************************)
\* Nothing beyond the stored value has been used, and nothing beyond the last
\* value used has been sealed.
SenderInv ==
  \A m \in Meters :
    /\ counter[m] <= reserved[m]
    /\ \A c \in Counter : sealed[m][c] <= 1
    /\ \A c \in Counter : c > counter[m] => sealed[m][c] = 0

\* A frame that some key opens was sealed by that meter.
NetInv == \A f \in net : f.key \in Meters => sealed[f.key][f.counter] > 0

\* The stored highest never runs ahead of the window, nor the window ahead of
\* the meter.
StorageInv ==
  \A m \in Meters :
    /\ window[m].width = ClampWidth(Width)
    /\ window[m].highest <= counter[m]
    /\ kept[m] <= window[m].highest
    /\ floor[m] <= kept[m]

\* What was handed over or used is refused by the window, and what was used is
\* also refused by the window a restart would build.
ReadingInv ==
  \A m \in Meters, c \in Counter :
    /\ used[m][c] <= 1
    /\ c \in pending[m] =>
         ~Fresh(window[m], c) /\ used[m][c] = 0 /\ sealed[m][c] > 0
    /\ used[m][c] > 0 =>
         ~Fresh(window[m], c) /\ c <= kept[m] /\ sealed[m][c] > 0

\* A bit above the floor stands for a counter that really was accepted.
BitmapInv ==
  \A m \in Meters : \A c \in Counter :
    (/\ c > floor[m]
     /\ c <= window[m].highest
     /\ (window[m].highest - c) \in window[m].seen)
    => \/ c \in pending[m]
       \/ used[m][c] > 0
       \/ \E f \in net : f.key = m /\ f.counter = c /\ f.body = "other"

IInv == TypeOK /\ SenderInv /\ NetInv /\ StorageInv /\ ReadingInv /\ BitmapInv
-----------------------------------------------------------------------------
(***************************************************************************)
(* The invariant holds initially and every action preserves it.            *)
(***************************************************************************)

\* Fresh counters, no frames and empty windows satisfy the invariant.
LEMMA InitIInv == Init => IInv
<1> SUFFICES ASSUME Init PROVE IInv
  OBVIOUS
<1> USE SlotsAssumption, CounterMaxAssumption, WidthAssumption, LongIdsAssumption
<1>1. NewWindow(Width) \in Window
  BY NewWindowFacts
<1>2. TypeOK
  BY <1>1 DEF Init, TypeOK, Counter
<1>3. SenderInv
  BY DEF Init, SenderInv, Counter
<1>4. NetInv
  BY DEF Init, NetInv
<1>5. StorageInv
  BY NewWindowFacts DEF Init, StorageInv, Counter, NoCounter
<1>6. ReadingInv
  BY DEF Init, ReadingInv
<1>7. BitmapInv
  BY NewWindowFacts DEF Init, BitmapInv
<1> QED
  BY <1>2, <1>3, <1>4, <1>5, <1>6, <1>7 DEF IInv

\* What TypeOK says of the numbers kept for one meter.
LEMMA MeterFacts ==
  ASSUME TypeOK, NEW m \in Meters
  PROVE  /\ counter[m] \in Nat /\ counter[m] <= CounterMax
         /\ reserved[m] \in Nat /\ reserved[m] <= CounterMax
         /\ window[m] \in Window /\ window[m].highest \in Int
         /\ kept[m] \in Int /\ floor[m] \in Int
         /\ \A c \in Counter : sealed[m][c] \in Nat /\ used[m][c] \in Nat
<1> USE CounterMaxAssumption
<1>1. counter[m] \in Counter /\ reserved[m] \in Counter /\ window[m] \in Window
  BY DEF TypeOK
<1>2. kept[m] \in Counter \cup {NoCounter} /\ floor[m] \in Counter \cup {NoCounter}
  BY DEF TypeOK
<1>3. \A c \in Counter : sealed[m][c] \in Nat /\ used[m][c] \in Nat
  BY DEF TypeOK
<1>4. window[m].highest \in Counter \cup {NoCounter}
  BY <1>1 DEF Window
<1>5. NoCounter \in Int /\ \A c \in Counter : c \in Nat /\ c \in Int /\ c <= CounterMax
  BY DEF Counter, NoCounter
<1> QED
  BY <1>1, <1>2, <1>3, <1>4, <1>5

\* Sealing a frame under the next counter.
LEMMA SealIInv ==
  ASSUME IInv, NEW m \in Meters, NEW form \in Forms, NEW body \in Bodies,
         MaySend(m), Seal(m, form, body),
         longId' \in [Meters -> 0 .. (LongIds - 1)],
         UNCHANGED <<reserved, listenerVars>>
  PROVE  IInv'
<1> USE CounterMaxAssumption
<1> DEFINE c == counter[m] + 1
<1> DEFINE new == [form |-> form, title |-> IF form = "event" THEN NoTitle ELSE m,
                   key |-> m, counter |-> c, body |-> body]
<1>0. TypeOK /\ SenderInv /\ NetInv /\ StorageInv /\ ReadingInv /\ BitmapInv
  BY DEF IInv
<1>1. /\ c \in Counter
      /\ counter' = [counter EXCEPT ![m] = c]
      /\ sealed' = [sealed EXCEPT ![m][c] = @ + 1]
      /\ net' = net \cup {new}
      /\ UNCHANGED <<reserved, window, kept, floor, pending, used>>
  BY <1>0, SMTT(40) DEF Seal, NextCounter, HasNext, TypeOK, Counter, listenerVars
<1>2. new \in Frame
  BY <1>1 DEF Frame, NoTitle
<1>3. TypeOK'
  BY <1>0, <1>1, <1>2 DEF TypeOK
<1>4. SenderInv'
  <2> SUFFICES ASSUME NEW n \in Meters
               PROVE  /\ counter'[n] <= reserved'[n]
                      /\ \A d \in Counter : sealed'[n][d] <= 1
                      /\ \A d \in Counter : d > counter'[n] => sealed'[n][d] = 0
    BY DEF SenderInv
  <2>1. CASE n = m
    <3>1. counter[m] < reserved[m] /\ counter'[m] = c /\ reserved'[m] = reserved[m]
      BY <1>0, <1>1 DEF MaySend, TypeOK
    <3>2. sealed[m][c] = 0
      BY <1>0, <1>1, MeterFacts DEF SenderInv
    <3>3. sealed'[m] = [sealed[m] EXCEPT ![c] = 1]
      BY <1>0, <1>1, <3>2 DEF TypeOK
    <3>4. \A d \in Counter : sealed'[m][d] = IF d = c THEN 1 ELSE sealed[m][d]
      BY <1>0, <3>3 DEF TypeOK
    <3>5. \A d \in Counter : d \in Int /\ (d > c => d > counter[m] /\ d # c)
      BY <1>0, MeterFacts DEF Counter
    <3> QED
      BY <1>0, <2>1, <3>1, <3>4, <3>5, MeterFacts DEF SenderInv
  <2>2. CASE n # m
    <3>1. counter'[n] = counter[n] /\ reserved'[n] = reserved[n] /\ sealed'[n] = sealed[n]
      BY <1>0, <1>1, <2>2 DEF TypeOK
    <3> QED
      BY <1>0, <3>1 DEF SenderInv
  <2> QED
    BY <2>1, <2>2
<1>5. \A n \in Meters, d \in Counter : sealed'[n][d] >= sealed[n][d]
  BY <1>0, <1>1 DEF TypeOK
<1>6. NetInv'
  <2>1. ASSUME NEW f \in net, f.key \in Meters
        PROVE  sealed'[f.key][f.counter] > 0
    BY <1>0, <1>3, <1>5, <2>1 DEF NetInv, TypeOK, Frame
  <2>2. sealed'[m][c] > 0
    BY <1>0, <1>1 DEF TypeOK
  <2> QED
    BY <1>1, <2>1, <2>2 DEF NetInv
<1>7. StorageInv'
  <2>1. ASSUME NEW n \in Meters PROVE window[n].highest <= counter'[n]
    <3>1. counter[n] <= counter'[n] /\ counter'[n] \in Nat
      BY <1>0, <1>1, MeterFacts DEF TypeOK
    <3> QED
      BY <1>0, <3>1, MeterFacts DEF StorageInv
  <2> QED
    BY <1>0, <1>1, <2>1 DEF StorageInv
<1>8. ReadingInv'
  <2>1. ASSUME NEW n \in Meters, NEW d \in Counter, sealed[n][d] > 0
        PROVE  sealed'[n][d] > 0
    BY <1>0, <1>3, <1>5, <2>1 DEF TypeOK
  <2> QED
    BY <1>0, <1>1, <2>1 DEF ReadingInv
<1>9. BitmapInv'
  BY <1>0, <1>1 DEF BitmapInv
<1> QED
  BY <1>3, <1>4, <1>6, <1>7, <1>8, <1>9 DEF IInv

\* PushSender::notify: the counter it takes is above every one sealed before.
LEMMA NotifyIInv == ASSUME IInv, NEW m \in Meters, Notify(m) PROVE IInv'
<1>1. longId' \in [Meters -> 0 .. (LongIds - 1)]
  BY LongIdsAssumption DEF IInv, TypeOK, Notify, NextLongId
<1> QED
  BY <1>1, SealIInv DEF Notify, Forms, Bodies

\* Other messages of the device take their counters the same way.
LEMMA SendOtherIInv == ASSUME IInv, NEW m \in Meters, SendOther(m) PROVE IInv'
<1>1. longId' \in [Meters -> 0 .. (LongIds - 1)]
  BY DEF IInv, TypeOK, SendOther
<1>2. UNCHANGED <<reserved, listenerVars>> /\ MaySend(m)
  BY DEF SendOther
<1>3. CASE Seal(m, "event", "reading")
  BY <1>1, <1>2, <1>3, SealIInv DEF Forms, Bodies
<1>4. CASE Seal(m, "general", "other")
  BY <1>1, <1>2, <1>4, SealIInv DEF Forms, Bodies
<1> QED
  BY <1>3, <1>4 DEF SendOther

\* The sender's steps that seal nothing: the counter may move up to the stored
\* value, the stored value may grow.
LEMMA QuietSenderIInv ==
  ASSUME IInv,
         counter' \in [Meters -> Counter], reserved' \in [Meters -> Counter],
         longId' \in [Meters -> 0 .. (LongIds - 1)],
         \A m \in Meters : counter[m] <= counter'[m] /\ counter'[m] <= reserved'[m],
         UNCHANGED <<sealed, net, listenerVars>>
  PROVE  IInv'
<1> USE CounterMaxAssumption
<1>0. TypeOK /\ SenderInv /\ NetInv /\ StorageInv /\ ReadingInv /\ BitmapInv
  BY DEF IInv
<1>1. UNCHANGED <<sealed, net, window, kept, floor, pending, used>>
  BY DEF listenerVars
<1>2. TypeOK'
  BY <1>0, <1>1 DEF TypeOK
<1>3. SenderInv'
  <2>1. ASSUME NEW n \in Meters, NEW d \in Counter, d > counter'[n]
        PROVE  sealed[n][d] = 0
    <3>1. counter'[n] \in Int /\ counter[n] \in Int /\ d \in Int /\ counter[n] <= counter'[n]
      BY <1>0, MeterFacts DEF Counter
    <3> QED
      BY <1>0, <2>1, <3>1 DEF SenderInv
  <2> QED
    BY <1>0, <1>1, <2>1 DEF SenderInv
<1>4. NetInv' /\ ReadingInv' /\ BitmapInv'
  BY <1>0, <1>1 DEF NetInv, ReadingInv, BitmapInv
<1>5. StorageInv'
  <2>1. ASSUME NEW n \in Meters PROVE window[n].highest <= counter'[n]
    <3>1. counter'[n] \in Int /\ counter[n] <= counter'[n]
      BY DEF Counter
    <3> QED
      BY <1>0, <3>1, MeterFacts DEF StorageInv
  <2> QED
    BY <1>0, <1>1, <2>1 DEF StorageInv
<1> QED
  BY <1>2, <1>3, <1>4, <1>5 DEF IInv

\* A notify that fails before its counter moves the long invoke id only.
LEMMA NotifyRefusedIInv == ASSUME IInv, NEW m \in Meters, NotifyRefused(m) PROVE IInv'
<1>1. longId' \in [Meters -> 0 .. (LongIds - 1)]
  BY LongIdsAssumption DEF IInv, TypeOK, NotifyRefused, NextLongId
<1>2. \A n \in Meters : counter[n] <= counter'[n] /\ counter'[n] <= reserved'[n]
  BY DEF NotifyRefused, IInv, TypeOK, SenderInv, Counter
<1> QED
  BY <1>1, <1>2, QuietSenderIInv DEF NotifyRefused, IInv, TypeOK

\* A notify that fails after its counter leaves a gap, never a repeat.
LEMMA NotifyLostIInv == ASSUME IInv, NEW m \in Meters, NotifyLost(m) PROVE IInv'
<1> USE CounterMaxAssumption
<1>1. longId' \in [Meters -> 0 .. (LongIds - 1)]
  BY LongIdsAssumption DEF IInv, TypeOK, NotifyLost, NextLongId
<1>2. \A n \in Meters : counter[n] <= counter'[n] /\ counter'[n] <= reserved'[n]
  <2> SUFFICES ASSUME NEW n \in Meters
               PROVE  counter[n] <= counter'[n] /\ counter'[n] <= reserved[n]
    BY DEF NotifyLost
  <2>1. counter'[n] = IF n = m THEN counter[m] + 1 ELSE counter[n]
    BY DEF NotifyLost, NextCounter, IInv, TypeOK
  <2>2. counter[m] < reserved[m] /\ counter[n] <= reserved[n]
    BY DEF NotifyLost, MaySend, IInv, SenderInv
  <2> QED
    BY <2>1, <2>2, MeterFacts DEF IInv
<1>3. counter' \in [Meters -> Counter]
  <2>1. NextCounter(counter[m]) \in Counter
    BY MeterFacts DEF IInv, NotifyLost, HasNext, NextCounter, Counter
  <2> QED
    BY <2>1 DEF NotifyLost, IInv, TypeOK
<1> QED
  BY <1>1, <1>2, <1>3, QuietSenderIInv DEF NotifyLost, IInv, TypeOK

\* Storing ahead keeps the reservation above the counter and in range.
LEMMA StoreAheadIInv == ASSUME IInv, NEW m \in Meters, StoreAhead(m) PROVE IInv'
<1> USE CounterMaxAssumption, ReserveAssumption
<1>1. reserved' \in [Meters -> Counter]
  BY DEF StoreAhead, IInv, TypeOK, Counter
<1>2. \A n \in Meters : counter[n] <= counter'[n] /\ counter'[n] <= reserved'[n]
  <2> SUFFICES ASSUME NEW n \in Meters
               PROVE  counter[n] <= reserved'[n]
    BY MeterFacts DEF StoreAhead, IInv
  <2>1. reserved'[n] \in Int /\ reserved[n] <= reserved'[n]
    <3>1. CASE n = m
      BY <3>1, MeterFacts DEF StoreAhead, IInv, TypeOK
    <3>2. CASE n # m
      BY <3>2, MeterFacts DEF StoreAhead, IInv, TypeOK
    <3> QED
      BY <3>1, <3>2
  <2> QED
    BY <2>1, MeterFacts DEF IInv, SenderInv
<1> QED
  BY <1>1, <1>2, QuietSenderIInv DEF StoreAhead, IInv, TypeOK

\* PushSender::new from the stored value skips counters and repeats none.
LEMMA MeterRestartIInv == ASSUME IInv, NEW m \in Meters, MeterRestart(m) PROVE IInv'
<1> USE CounterMaxAssumption, LongIdsAssumption
<1>1. longId' \in [Meters -> 0 .. (LongIds - 1)]
  BY DEF MeterRestart, IInv, TypeOK
<1>2. \A n \in Meters : counter[n] <= counter'[n] /\ counter'[n] <= reserved'[n]
  <2> SUFFICES ASSUME NEW n \in Meters
               PROVE  counter[n] <= counter'[n] /\ counter'[n] <= reserved[n]
    BY DEF MeterRestart
  <2>1. counter'[n] = IF n = m THEN reserved[m] ELSE counter[n]
    BY DEF MeterRestart, IInv, TypeOK
  <2> QED
    BY <2>1, MeterFacts DEF IInv, SenderInv
<1>3. counter' \in [Meters -> Counter]
  BY DEF MeterRestart, IInv, TypeOK
<1> QED
  BY <1>1, <1>2, <1>3, QuietSenderIInv DEF MeterRestart, IInv, TypeOK

\* A frame the listener opens: by the lemmas above its counter is refused from
\* now on, and so is everything that was refused before.
LEMMA HandleIInv ==
  ASSUME IInv, NEW f \in net \cup DamagedFrames, NEW sender, Handle(f, sender)
  PROVE  IInv'
<1> DEFINE t == TitleOf(f, sender)
<1> DEFINE c == f.counter
<1>0. TypeOK /\ SenderInv /\ NetInv /\ StorageInv /\ ReadingInv /\ BitmapInv
  BY DEF IInv
<1>1. /\ t \in Meters
      /\ Fresh(window[t], c)
      /\ f.key = t
      /\ window' = [window EXCEPT ![t] = Accept(@, c)]
      /\ pending' = IF f.body = "reading" THEN [pending EXCEPT ![t] = @ \cup {c}] ELSE pending
      /\ UNCHANGED <<counter, reserved, longId, sealed, net, kept, floor, used>>
  BY DEF Handle, Opens, Verifies, senderVars
<1>2. f \in net /\ f \in Frame /\ c \in Counter /\ f.body \in Bodies
  <2>1. f \notin DamagedFrames
    BY <1>1, MetersAssumption DEF DamagedFrames, NoKey
  <2>2. f \in net /\ f \in Frame
    BY <2>1, <1>0 DEF TypeOK
  <2> QED
    BY <2>2 DEF Frame
<1>3. sealed[t][c] > 0
  BY <1>0, <1>1, <1>2 DEF NetInv
<1>4. window[t] \in Window
  BY <1>0, <1>1 DEF TypeOK
<1>5. /\ window'[t] = Accept(window[t], c)
      /\ \A n \in Meters : n # t => window'[n] = window[n]
  BY <1>0, <1>1 DEF TypeOK
<1>6. /\ Accept(window[t], c) \in Window
      /\ window'[t].width = window[t].width
      /\ window'[t].highest = IF c > window[t].highest THEN c ELSE window[t].highest
  <2> DEFINE w == window[t]
  <2>1. w \in Window /\ c \in Counter /\ Fresh(w, c) /\ window'[t] = Accept(w, c)
    BY <1>1, <1>2, <1>4, <1>5
  <2> HIDE DEF w, c
  <2>2. /\ Accept(w, c) \in Window
        /\ Accept(w, c).width = w.width
        /\ Accept(w, c).highest = IF c > w.highest THEN c ELSE w.highest
    BY <2>1, AcceptFacts
  <2> QED
    BY <2>1, <2>2 DEF w
<1>7. /\ \A n \in Meters : n # t => pending'[n] = pending[n]
      /\ pending'[t] = IF f.body = "reading" THEN pending[t] \cup {c} ELSE pending[t]
  BY <1>0, <1>1 DEF TypeOK
<1>8. TypeOK'
  <2>1. window' \in [Meters -> Window]
    BY <1>0, <1>1, <1>6 DEF TypeOK
  <2>2. pending' \in [Meters -> SUBSET Counter]
    BY <1>0, <1>1, <1>2 DEF TypeOK
  <2> QED
    BY <1>0, <1>1, <2>1, <2>2 DEF TypeOK
<1>9. SenderInv' /\ NetInv'
  BY <1>0, <1>1 DEF SenderInv, NetInv
<1>10. StorageInv'
  <2>1. c <= counter[t]
    <3>1. ~(c > counter[t])
      BY <1>0, <1>1, <1>2, <1>3 DEF SenderInv
    <3>2. c \in Int /\ counter[t] \in Int
      BY <1>0, <1>1, <1>2, MeterFacts DEF Counter
    <3> QED
      BY <3>1, <3>2
  <2>2. c \in Int /\ window[t].highest \in Int /\ kept[t] \in Int
    BY <1>0, <1>1, <1>2, MeterFacts DEF Counter
  <2>3. window'[t].highest <= counter[t] /\ kept[t] <= window'[t].highest
    <3>1. window[t].highest <= counter[t] /\ kept[t] <= window[t].highest /\ counter[t] \in Int
      BY <1>0, <1>1, MeterFacts DEF StorageInv
    <3> QED
      BY <1>6, <2>1, <2>2, <3>1
  <2>4. window'[t].width = ClampWidth(Width)
    BY <1>0, <1>1, <1>6 DEF StorageInv
  <2>5. ASSUME NEW n \in Meters
        PROVE  /\ window'[n].width = ClampWidth(Width)
               /\ window'[n].highest <= counter[n]
               /\ kept[n] <= window'[n].highest
               /\ floor[n] <= kept[n]
    <3>1. CASE n = t
      BY <1>0, <2>3, <2>4, <3>1 DEF StorageInv
    <3>2. CASE n # t
      BY <1>0, <1>5, <3>2 DEF StorageInv
    <3> QED
      BY <3>1, <3>2
  <2> QED
    BY <1>1, <2>5 DEF StorageInv
<1>11. ReadingInv'
  <2>1. ASSUME NEW n \in Meters, NEW d \in Counter, ~Fresh(window[n], d)
        PROVE  ~Fresh(window'[n], d)
    <3>1. CASE n = t
      BY <1>1, <1>2, <1>4, <1>5, <2>1, <3>1, RefusedStaysRefused
    <3>2. CASE n # t
      BY <1>5, <2>1, <3>2
    <3> QED
      BY <3>1, <3>2
  <2>2. ~Fresh(window'[t], c)
    BY <1>1, <1>2, <1>4, <1>5, AcceptedIsRefused
  <2>3. used[t][c] = 0
    <3>1. ~(used[t][c] > 0)
      BY <1>0, <1>1, <1>2 DEF ReadingInv
    <3> QED
      BY <3>1, <1>0, <1>1, <1>2, MeterFacts
  <2>4. ASSUME NEW n \in Meters, NEW d \in Counter, d \in pending'[n]
        PROVE  d \in pending[n] \/ (n = t /\ d = c)
    BY <1>7, <2>4
  <2> QED
    BY <1>0, <1>1, <1>3, <2>1, <2>2, <2>3, <2>4 DEF ReadingInv
<1>12. BitmapInv'
  <2> SUFFICES ASSUME NEW n \in Meters, NEW d \in Counter,
                      d > floor[n], d <= window'[n].highest,
                      (window'[n].highest - d) \in window'[n].seen
               PROVE  \/ d \in pending'[n]
                      \/ used[n][d] > 0
                      \/ \E g \in net : g.key = n /\ g.counter = d /\ g.body = "other"
    BY <1>1 DEF BitmapInv
  <2>1. CASE n = t
    <3>1. d = c \/ (d <= window[t].highest /\ (window[t].highest - d) \in window[t].seen)
      BY <1>1, <1>2, <1>4, <1>5, <2>1, AcceptSetsOneBit
    <3>2. CASE d = c
      BY <1>1, <1>2, <1>7, <2>1, <3>2 DEF Bodies
    <3>3. CASE d <= window[t].highest /\ (window[t].highest - d) \in window[t].seen
      BY <1>0, <1>7, <2>1, <3>3 DEF BitmapInv
    <3> QED
      BY <3>1, <3>2, <3>3
  <2>2. CASE n # t
    BY <1>0, <1>5, <1>7, <2>2 DEF BitmapInv
  <2> QED
    BY <2>1, <2>2
<1> QED
  BY <1>8, <1>9, <1>10, <1>11, <1>12 DEF IInv

\* Storing the highest counter and using the readings: everything the window
\* refuses lies at or below what is now stored.
LEMMA StoreAndUseIInv == ASSUME IInv, NEW m \in Meters, StoreAndUse(m) PROVE IInv'
<1>0. TypeOK /\ SenderInv /\ NetInv /\ StorageInv /\ ReadingInv /\ BitmapInv
  BY DEF IInv
<1>1. /\ kept' = [kept EXCEPT ![m] = window[m].highest]
      /\ used' = [used EXCEPT ![m] = [c \in Counter |->
                    IF c \in pending[m] THEN @[c] + 1 ELSE @[c]]]
      /\ pending' = [pending EXCEPT ![m] = {}]
      /\ UNCHANGED <<counter, reserved, longId, sealed, net, window, floor>>
  BY DEF StoreAndUse, senderVars
<1>2. /\ kept'[m] = window[m].highest /\ pending'[m] = {}
      /\ \A c \in Counter : used'[m][c] = IF c \in pending[m] THEN used[m][c] + 1 ELSE used[m][c]
      /\ \A n \in Meters : n # m => kept'[n] = kept[n] /\ used'[n] = used[n] /\ pending'[n] = pending[n]
  BY <1>0, <1>1 DEF TypeOK
<1>3. TypeOK'
  <2>1. window[m].highest \in Counter \cup {NoCounter}
    BY <1>0 DEF TypeOK, Window
  <2>2. kept' \in [Meters -> Counter \cup {NoCounter}]
    BY <1>0, <1>1, <2>1 DEF TypeOK
  <2>3. [c \in Counter |-> IF c \in pending[m] THEN used[m][c] + 1 ELSE used[m][c]] \in [Counter -> Nat]
    BY <1>0, MeterFacts
  <2>4. used' \in [Meters -> [Counter -> Nat]]
    BY <1>0, <1>1, <2>3 DEF TypeOK
  <2> QED
    BY <1>0, <1>1, <2>2, <2>4 DEF TypeOK
<1>4. SenderInv' /\ NetInv'
  BY <1>0, <1>1 DEF SenderInv, NetInv
<1>5. StorageInv'
  <2>1. kept[m] <= window[m].highest /\ floor[m] <= kept[m]
    BY <1>0 DEF StorageInv
  <2>2. floor[m] <= window[m].highest /\ window[m].highest <= window[m].highest
    BY <1>0, <2>1, MeterFacts
  <2> QED
    BY <1>0, <1>1, <1>2, <2>2 DEF StorageInv
<1>6. ReadingInv'
  <2> SUFFICES ASSUME NEW n \in Meters, NEW c \in Counter
               PROVE  /\ used'[n][c] <= 1
                      /\ c \in pending'[n] =>
                           ~Fresh(window[n], c) /\ used'[n][c] = 0 /\ sealed[n][c] > 0
                      /\ used'[n][c] > 0 =>
                           ~Fresh(window[n], c) /\ c <= kept'[n] /\ sealed[n][c] > 0
    BY <1>1 DEF ReadingInv
  <2>1. CASE n = m
    <3>1. ~Fresh(window[m], c) => c <= window[m].highest
      BY <1>0, MeterFacts DEF Fresh, Counter
    <3>2. used[m][c] \in Nat /\ used[m][c] <= 1
      BY <1>0, MeterFacts DEF ReadingInv
    <3>3. CASE c \in pending[m]
      BY <1>0, <1>2, <2>1, <3>1, <3>3 DEF ReadingInv
    <3>4. CASE c \notin pending[m]
      BY <1>0, <1>2, <2>1, <3>1, <3>2, <3>4 DEF ReadingInv
    <3> QED
      BY <3>3, <3>4
  <2>2. CASE n # m
    BY <1>0, <1>2, <2>2 DEF ReadingInv
  <2> QED
    BY <2>1, <2>2
<1>7. BitmapInv'
  <2>1. ASSUME NEW n \in Meters, NEW c \in Counter, c \in pending[n] \/ used[n][c] > 0
        PROVE  c \in pending'[n] \/ used'[n][c] > 0
    <3>1. used[n][c] \in Nat
      BY <1>0, MeterFacts
    <3> QED
      BY <1>2, <2>1, <3>1
  <2> QED
    BY <1>0, <1>1, <2>1 DEF BitmapInv
<1> QED
  BY <1>3, <1>4, <1>5, <1>6, <1>7 DEF IInv

\* A restarted listener: the window built from storage refuses all that was used.
LEMMA ListenerRestartIInv == ASSUME IInv, ListenerRestart PROVE IInv'
<1>0. TypeOK /\ SenderInv /\ NetInv /\ StorageInv /\ ReadingInv /\ BitmapInv
  BY DEF IInv
<1>1. /\ window' = [m \in Meters |-> RestoredWindow(m)]
      /\ floor' = kept
      /\ pending' = [m \in Meters |-> {}]
      /\ UNCHANGED <<counter, reserved, longId, sealed, net, kept, used>>
  BY DEF ListenerRestart, senderVars
<1>2. ASSUME NEW m \in Meters
      PROVE  /\ window'[m] \in Window
             /\ window'[m].highest = kept[m]
             /\ window'[m].width = ClampWidth(Width)
             /\ \A c \in Counter : c <= kept[m] => ~Fresh(window'[m], c)
  <2>1. window'[m] = RestoredWindow(m) /\ kept[m] \in Counter \cup {NoCounter}
    BY <1>0, <1>1 DEF TypeOK
  <2>2. CASE kept[m] = NoCounter
    <3>1. window'[m] = NewWindow(Width)
      BY <2>1, <2>2 DEF RestoredWindow
    <3>2. \A c \in Counter : ~(c <= NoCounter)
      BY DEF Counter, NoCounter
    <3> QED
      BY <2>2, <3>1, <3>2, NewWindowFacts, WidthAssumption
  <2>3. CASE kept[m] # NoCounter
    BY <2>1, <2>3, ResumedWindowFacts, WidthAssumption DEF RestoredWindow
  <2> QED
    BY <2>2, <2>3
<1>3. TypeOK'
  <2>1. window' \in [Meters -> Window]
    BY <1>1, <1>2
  <2> QED
    BY <1>0, <1>1, <2>1 DEF TypeOK
<1>4. SenderInv' /\ NetInv'
  BY <1>0, <1>1 DEF SenderInv, NetInv
<1>5. StorageInv'
  <2>1. ASSUME NEW m \in Meters PROVE kept[m] <= counter[m] /\ kept[m] <= kept[m]
    BY <1>0, MeterFacts DEF StorageInv
  <2> QED
    BY <1>1, <1>2, <2>1 DEF StorageInv
<1>6. ReadingInv'
  BY <1>0, <1>1, <1>2 DEF ReadingInv
<1>7. BitmapInv'
  <2>1. ASSUME NEW m \in Meters, NEW c \in Counter PROVE ~(c > kept[m] /\ c <= kept[m])
    BY <1>0, MeterFacts DEF Counter
  <2> QED
    BY <1>1, <1>2, <2>1 DEF BitmapInv
<1> QED
  BY <1>3, <1>4, <1>5, <1>6, <1>7 DEF IInv

-----------------------------------------------------------------------------
(***************************************************************************)
(* The theorems.                                                           *)
(***************************************************************************)

\* IInv is an invariant of Push: every step of the meters, the network and the
\* listener, failures and restarts included, preserves it.
THEOREM Invariance == Spec => []IInv
<1>1. Init => IInv
  BY InitIInv
<1>2. IInv /\ [Next]_vars => IInv'
  <2> SUFFICES ASSUME IInv, [Next]_vars PROVE IInv'
    OBVIOUS
  <2>1. ASSUME NEW m \in Meters, Notify(m) PROVE IInv'
    BY <2>1, NotifyIInv
  <2>2. ASSUME NEW m \in Meters, NotifyRefused(m) PROVE IInv'
    BY <2>2, NotifyRefusedIInv
  <2>3. ASSUME NEW m \in Meters, NotifyLost(m) PROVE IInv'
    BY <2>3, NotifyLostIInv
  <2>4. ASSUME NEW m \in Meters, SendOther(m) PROVE IInv'
    BY <2>4, SendOtherIInv
  <2>5. ASSUME NEW m \in Meters, StoreAhead(m) PROVE IInv'
    BY <2>5, StoreAheadIInv
  <2>6. ASSUME NEW m \in Meters, MeterRestart(m) PROVE IInv'
    BY <2>6, MeterRestartIInv
  <2>7. ASSUME NEW m \in Meters, StoreAndUse(m) PROVE IInv'
    BY <2>7, StoreAndUseIInv
  <2>8. ASSUME NEW f \in net \cup DamagedFrames, NEW s \in Meters \cup {NoTitle}, Handle(f, s)
        PROVE  IInv'
    BY <2>8, HandleIInv
  <2>9. CASE ListenerRestart
    BY <2>9, ListenerRestartIInv
  <2>10. CASE UNCHANGED vars
    BY <2>10 DEF vars, senderVars, listenerVars, IInv, TypeOK, SenderInv, NetInv,
                 StorageInv, ReadingInv, BitmapInv
  <2> QED
    BY <2>1, <2>2, <2>3, <2>4, <2>5, <2>6, <2>7, <2>8, <2>9, <2>10 DEF Next
<1> QED
  BY <1>1, <1>2, PTL DEF Spec

\* Type correctness of Push.
THEOREM TypeCorrect == Spec => []TypeOK
<1>1. IInv => TypeOK
  BY DEF IInv
<1> QED
  BY <1>1, Invariance, PTL

\* InvocationCounter with a stored reserve: no meter ever seals two frames under
\* one counter, whatever its power supply does.
THEOREM NonceUniqueness == Spec => []NonceUsedOnce
<1>1. IInv => NonceUsedOnce
  BY DEF IInv, SenderInv, NonceUsedOnce
<1> QED
  BY <1>1, Invariance, PTL

\* ReplayWindow under duplication, reordering, loss and listener restarts: each
\* reading is used at most once, for every window size and width.
THEOREM AtMostOnce == Spec => []UsedAtMostOnce
<1>1. IInv => UsedAtMostOnce
  BY DEF IInv, ReadingInv, UsedAtMostOnce
<1> QED
  BY <1>1, Invariance, PTL

\* NotificationListener attributes a reading only to the meter that sealed it.
THEOREM Authenticity == Spec => []Authentic
<1>1. IInv => Authentic
  BY DEF IInv, ReadingInv, Authentic
<1> QED
  BY <1>1, Invariance, PTL

\* Only authentic frames move a replay window, so none can lock a meter out.
THEOREM NoLockOutTheorem == Spec => []NoLockOut
<1>1. IInv => NoLockOut
  BY DEF IInv, StorageInv, NoLockOut
<1> QED
  BY <1>1, Invariance, PTL

\* ReplayWindow refuses nothing inside its width that it has not accepted.
THEOREM NoFalseReplayTheorem == Spec => []NoFalseReplay
<1>1. ASSUME IInv PROVE NoFalseReplay
  <2> SUFFICES ASSUME NEW m \in Meters, NEW c \in Counter,
                      c > floor[m],
                      c >= window[m].highest - (IF Width < Slots THEN Width ELSE Slots - 1),
                      ~ \E f \in net : f.key = m /\ f.counter = c /\ f.body = "other",
                      c \notin pending[m], used[m][c] = 0
               PROVE  Fresh(window[m], c)
    BY DEF NoFalseReplay
  <2>1. window[m].highest \in Int /\ c \in Int /\ window[m].width = ClampWidth(Width)
    BY <1>1, MeterFacts DEF IInv, StorageInv, Counter
  <2>2. CASE c > window[m].highest
    BY <2>2 DEF Fresh
  <2>3. CASE c <= window[m].highest
    <3>1. (window[m].highest - c) \notin window[m].seen
      BY <1>1, <2>3 DEF IInv, BitmapInv
    <3>2. window[m].highest - c <= window[m].width /\ window[m].highest - c < Slots
      BY <2>1, SlotsAssumption, WidthAssumption DEF ClampWidth
    <3> QED
      BY <3>1, <3>2 DEF Fresh
  <2> QED
    BY <2>1, <2>2, <2>3
<1> QED
  BY <1>1, Invariance, PTL
=============================================================================
