-------------------------------- MODULE Push --------------------------------
(***************************************************************************)
(* Pushed notifications end to end: the PushSender of each meter           *)
(* (src/server/push.rs), an unreliable network, and the                    *)
(* NotificationListener with one replay window per meter                   *)
(* (src/client/notify.rs), on top of the counters of ReplayWindow.         *)
(*                                                                         *)
(* Both ends lose power.  The sender's host follows the rule the code      *)
(* documents for InvocationCounter: it stores a value ahead of the counter *)
(* and sends nothing beyond it.  The listener's host stores the highest    *)
(* accepted counter and uses a reading only once that is done.             *)
(***************************************************************************)
EXTENDS ReplayWindow, FiniteSets

CONSTANTS Meters,     \* system titles the listener's lookup knows
          Width,      \* the reorder width its windows are made with
          Reserve,    \* how far ahead the sender's host stores its counter
          LongIds     \* 2^24: the long invoke id's range

ASSUME MetersAssumption == NoCounter \notin Meters
ASSUME WidthAssumption == Width \in Nat
ASSUME ReserveAssumption == Reserve \in Nat \ {0}
ASSUME LongIdsAssumption == LongIds \in Nat \ {0}

VARIABLES
  counter,    \* PushSender.invocation_counter: last value used, in RAM
  reserved,   \* the value the sender's host has on stable storage
  longId,     \* PushSender.long_invoke_id
  sealed,     \* history: how often each counter went out under each meter's key
  net,        \* every frame ever sent; it may arrive late, often or never
  window,     \* the listener's ReplayWindow per meter, in RAM
  kept,       \* the highest accepted counter the listener's host has stored
  floor,      \* history: what `kept` was when the window was last built
  pending,    \* readings handed to the listener's host and not used yet
  used        \* history: how often each reading has been used

senderVars == <<counter, reserved, longId, sealed>>
listenerVars == <<window, kept, floor, pending, used>>
vars == <<senderVars, net, listenerVars>>

(***************************************************************************)
(* A frame.  `title` is the system title of a general-glo frame; a         *)
(* glo-event-notification has none and the caller names the sender.  `key` *)
(* is the meter whose key the tag was made with, NoKey for a frame that is *)
(* damaged, unprotected or protected more weakly than the listener         *)
(* demands: no key opens it.                                               *)
(***************************************************************************)
NoKey == NoCounter
NoTitle == NoCounter

Forms == {"general", "event"}
Bodies == {"reading", "other"}
Frame == [form : Forms, title : Meters \cup {NoTitle}, key : Meters \cup {NoKey},
          counter : Counter, body : Bodies]

\* What arrives from nowhere: any header, and a tag no key verifies.
DamagedFrames == {f \in Frame : f.key = NoKey /\ (f.form = "event") = (f.title = NoTitle)}

Init ==
  /\ counter = [m \in Meters |-> 0]
  /\ reserved = [m \in Meters |-> 0]
  /\ longId = [m \in Meters |-> 0]
  /\ sealed = [m \in Meters |-> [c \in Counter |-> 0]]
  /\ net = {}
  /\ window = [m \in Meters |-> NewWindow(Width)]
  /\ kept = [m \in Meters |-> NoCounter]
  /\ floor = [m \in Meters |-> NoCounter]
  /\ pending = [m \in Meters |-> {}]
  /\ used = [m \in Meters |-> [c \in Counter |-> 0]]

-----------------------------------------------------------------------------
(* The meter. *)

\* Mutant: the 24-bit mask is forgotten.
NextLongIdUnmasked(m) == longId' = [longId EXCEPT ![m] = @ + 1]

\* next_long_invoke_id: 24 bits, wrapping, and advanced by every attempt.
NextLongId(m) == longId' = [longId EXCEPT ![m] = (@ + 1) % LongIds]

\* The host's side of the contract: no value beyond the stored one is used.
MaySend(m) == counter[m] < reserved[m]

\* A value taken and a frame sealed under it.
Seal(m, form, body) ==
  LET c == NextCounter(counter[m])
  IN  /\ HasNext(counter[m])
      /\ counter' = [counter EXCEPT ![m] = c]
      /\ sealed' = [sealed EXCEPT ![m][c] = @ + 1]
      /\ net' = net \cup
           {[form |-> form, title |-> IF form = "event" THEN NoTitle ELSE m,
             key |-> m, counter |-> c, body |-> body]}

\* PushSender::notify, all of it succeeding.
Notify(m) ==
  /\ MaySend(m)
  /\ NextLongId(m)
  /\ Seal(m, "general", "reading")
  /\ UNCHANGED <<reserved, listenerVars>>

\* notify fails before a counter is taken: the body does not fit the scratch, or
\* the counter is exhausted.
NotifyRefused(m) ==
  /\ NextLongId(m)
  /\ UNCHANGED <<counter, reserved, sealed, net, listenerVars>>

\* notify fails in protect_apdu: the counter is spent and nothing leaves.
NotifyLost(m) ==
  /\ MaySend(m)
  /\ HasNext(counter[m])
  /\ NextLongId(m)
  /\ counter' = [counter EXCEPT ![m] = NextCounter(@)]
  /\ UNCHANGED <<reserved, sealed, net, listenerVars>>

\* Other traffic of the same device under the same counter: an event without a
\* system title, or a general-glo frame that holds no notification.
SendOther(m) ==
  /\ MaySend(m)
  /\ \/ Seal(m, "event", "reading")
     \/ Seal(m, "general", "other")
  /\ UNCHANGED <<reserved, longId, listenerVars>>

\* The host stores a value ahead of the counter ("store n + 1000, use up to that").
StoreAhead(m) ==
  /\ counter[m] = reserved[m]
  /\ reserved[m] < CounterMax
  /\ reserved' = [reserved EXCEPT
       ![m] = IF @ + Reserve > CounterMax THEN CounterMax ELSE @ + Reserve]
  /\ UNCHANGED <<counter, longId, sealed, net, listenerVars>>

\* Mutant: the meter starts again from zero against an unchanged key.
MeterRestartFromZero(m) ==
  /\ counter' = [counter EXCEPT ![m] = 0]
  /\ longId' = [longId EXCEPT ![m] = 0]
  /\ UNCHANGED <<reserved, sealed, net, listenerVars>>

\* Power is lost; PushSender::new from the stored value.
MeterRestart(m) ==
  /\ counter' = [counter EXCEPT ![m] = reserved[m]]
  /\ longId' = [longId EXCEPT ![m] = 0]
  /\ UNCHANGED <<reserved, sealed, net, listenerVars>>

-----------------------------------------------------------------------------
(* The listener. *)

\* Whose keys and window a frame is tried with: its own title, or the caller's.
TitleOf(f, sender) == IF f.form = "event" THEN sender ELSE f.title

\* Mutant: the tag is checked with whichever key fits, not the title's own.
VerifiesUnderAnyKey(f, title) == f.key # NoKey

\* The tag verifies under the keys of `title`.
Verifies(f, title) == f.key = title

\* handle_inner lets the frame through.
Opens(f, sender) ==
  LET title == TitleOf(f, sender)
  IN  /\ title \in Meters
      /\ Fresh(window[title], f.counter)
      /\ Verifies(f, title)

\* Mutant: the counter is spent by the check made before the tag is verified.
HandleSpendsFirst(f, sender) ==
  LET title == TitleOf(f, sender)
  IN  /\ title \in Meters
      /\ Fresh(window[title], f.counter)
      /\ window' = [window EXCEPT ![title] = Accept(@, f.counter)]
      /\ pending' = IF f.body = "reading" /\ Verifies(f, title)
                      THEN [pending EXCEPT ![title] = @ \cup {f.counter}]
                      ELSE pending
      /\ UNCHANGED <<senderVars, net, kept, floor, used>>

\* NotificationListener::handle and handle_from.  A frame that does not open is
\* refused and changes nothing; one that opens spends its counter whether or not
\* it then decodes as a notification.
Handle(f, sender) ==
  LET title == TitleOf(f, sender)
  IN  /\ Opens(f, sender)
      /\ window' = [window EXCEPT ![title] = Accept(@, f.counter)]
      /\ pending' = IF f.body = "reading"
                      THEN [pending EXCEPT ![title] = @ \cup {f.counter}]
                      ELSE pending
      /\ UNCHANGED <<senderVars, net, kept, floor, used>>

\* The host stores ReplayWindow::highest and then uses what it was given.
StoreAndUse(m) ==
  /\ pending[m] # {}
  /\ kept' = [kept EXCEPT ![m] = window[m].highest]
  /\ used' = [used EXCEPT ![m] = [c \in Counter |->
                IF c \in pending[m] THEN @[c] + 1 ELSE @[c]]]
  /\ pending' = [pending EXCEPT ![m] = {}]
  /\ UNCHANGED <<senderVars, net, window, floor>>

\* The window a restarted listener builds for a meter.
RestoredWindow(m) ==
  IF kept[m] = NoCounter THEN NewWindow(Width) ELSE ResumedWindow(kept[m], Width)

\* The listener's process ends: windows and unused readings are gone.
ListenerRestart ==
  /\ window' = [m \in Meters |-> RestoredWindow(m)]
  /\ floor' = kept
  /\ pending' = [m \in Meters |-> {}]
  /\ UNCHANGED <<senderVars, net, kept, used>>

Next ==
  \/ \E m \in Meters :
       \/ Notify(m) \/ NotifyRefused(m) \/ NotifyLost(m) \/ SendOther(m)
       \/ StoreAhead(m) \/ MeterRestart(m) \/ StoreAndUse(m)
  \/ \E f \in net \cup DamagedFrames, s \in Meters \cup {NoTitle} : Handle(f, s)
  \/ ListenerRestart

Spec == Init /\ [][Next]_vars

-----------------------------------------------------------------------------
(* Properties. *)

\* Every variable keeps its type; in particular no counter leaves its width.
TypeOK ==
  /\ counter \in [Meters -> Counter]
  /\ reserved \in [Meters -> Counter]
  /\ longId \in [Meters -> 0 .. (LongIds - 1)]
  /\ sealed \in [Meters -> [Counter -> Nat]]
  /\ net \subseteq Frame
  /\ window \in [Meters -> Window]
  /\ kept \in [Meters -> Counter \cup {NoCounter}]
  /\ floor \in [Meters -> Counter \cup {NoCounter}]
  /\ pending \in [Meters -> SUBSET Counter]
  /\ used \in [Meters -> [Counter -> Nat]]

\* No meter seals two frames under one counter, across any number of power
\* losses and up to the exhaustion of the counter (counter.rs: "a sender never
\* reuses a value, and refuses to encrypt rather than wrapping").
NonceUsedOnce == \A m \in Meters, c \in Counter : sealed[m][c] <= 1

\* However often a frame arrives, and however often the listener restarts
\* between accepting it and storing that it did, its reading is used at most
\* once (counter.rs: "a receiver accepts each value at most once").
UsedAtMostOnce == \A m \in Meters, c \in Counter : used[m][c] <= 1

\* A reading is attributed to a meter only if that meter sealed it under that
\* counter, whichever title the frame or the caller named.
Authentic ==
  \A m \in Meters, c \in Counter :
    (c \in pending[m] \/ used[m][c] > 0) => sealed[m][c] > 0

\* No frame moves a window past what its meter really sent: a damaged frame
\* cannot lock the meter out (notify.rs: "a forged frame that advanced the
\* window would lock the real meter out for good").
NoLockOut == \A m \in Meters : window[m].highest <= counter[m]

\* The window turns away nothing it promised to take: since it was built, a
\* counter within the configured width (as far as the bitmap can answer) that
\* has not been accepted is still acceptable.
NoFalseReplay ==
  \A m \in Meters : \A c \in Counter :
    (/\ c > floor[m]
     /\ c >= window[m].highest - (IF Width < Slots THEN Width ELSE Slots - 1)
     /\ ~ \E f \in net : f.key = m /\ f.counter = c /\ f.body = "other"
     /\ c \notin pending[m]
     /\ used[m][c] = 0)
    => Fresh(window[m], c)
=============================================================================
