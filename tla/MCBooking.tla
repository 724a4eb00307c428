----------------------------- MODULE MCBooking -----------------------------
EXTENDS Booking

\* A ride (a pickup, the passengers, a car, a name) and the price of one.
MCTasks == {"ride", "price"}
MCSlots == {"from", "pax", "car", "name", "price_from"}
MCDomain == [s \in MCSlots |->
    CASE s \in {"from", "price_from"} -> {"home", "street"} [] s = "pax" -> {"few", "many"}
      [] s = "car" -> {"van"} [] s = "name" -> {"dan"}]
MCSlotsOf == [t \in MCTasks |-> IF t = "ride" THEN {"from", "pax", "car", "name"} ELSE {"price_from"}]
MCRequired == [t \in MCTasks |-> IF t = "ride" THEN {"from", "pax"} ELSE {"price_from"}]
MCFromSlot == [s \in MCSlots |-> IF s = "price_from" THEN "from" ELSE None]
MCGives == [s \in MCSlots |-> IF s = "from" THEN "home" ELSE IF s = "name" THEN "dan" ELSE None]
MCMaxAttempts == [t \in MCTasks |-> IF t = "ride" THEN 1 ELSE 2]
=============================================================================
