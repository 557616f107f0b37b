--------------------------- MODULE BlockDelivery ----------------------------
(***************************************************************************)
(* What general block transfer promises its two callers, with no block,    *)
(* window or acknowledgement in sight: the APDUs given to the sender are    *)
(* handed to the receiver's caller one by one, each exactly once, whole and *)
(* in the order they were given; and the sender moves to the next only when *)
(* the present one has been handed over.                                    *)
(***************************************************************************)
EXTENDS Integers, Sequences

CONSTANT Apdus  \* how many APDUs there are to move

VARIABLES sending,   \* the APDU the sender is at
          delivered  \* the APDUs handed over so far

Init == sending = 1 /\ delivered = <<>>

Deliver ==
  /\ Len(delivered) < sending
  /\ delivered' = Append(delivered, sending)
  /\ UNCHANGED sending

Proceed ==
  /\ Len(delivered) = sending
  /\ sending < Apdus
  /\ sending' = sending + 1
  /\ UNCHANGED delivered

Next == Deliver \/ Proceed

Spec == Init /\ [][Next]_<<sending, delivered>>
=============================================================================
