------------------------- MODULE MCPaymentWatch -------------------------
(* Instances of PaymentWatch for TLC. *)
EXTENDS PaymentProperties, TLC

\* Reservation numbers are interchangeable; safety runs only.
BookingSymmetry == Permutations(Bookings)
=============================================================================
