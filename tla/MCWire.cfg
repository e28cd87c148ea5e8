\* Every message undamaged, and then cut, changed or extended once or twice, at
\* every place.  A receiver may always be left with what it has.
CONSTANTS
    Messages <- SampleMessages
    MaxDamage = 2
SPECIFICATION Spec
INVARIANTS EncodingsRoundTrip OneEncodingEach ReservationsFitTheInput
CHECK_DEADLOCK FALSE
