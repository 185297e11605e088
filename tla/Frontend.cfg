SPECIFICATION Spec
INVARIANTS SessionHolds RecordsHold
PROPERTY ClaimsStand
CHECK_DEADLOCK FALSE
