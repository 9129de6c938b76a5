----------------------------- MODULE MCFareMarket -----------------------------
(* Small instances of FareMarket: two flights around the ends of a year, of  *)
(* a leap February and of a short one, with and without keys.                *)
EXTENDS FareMarket

CONSTANTS k1, k2, t1, t2

Date(y, m, d) == [year |-> y, month |-> m, day |-> d]
Plane(key, departs, date) == [key |-> key, departs |-> departs, day |-> Ordinal(date)]
Begin(start, f, g) == [today |-> start, flights |-> {f, g}]

MCScenario == {
    Begin(Date(2027, 12, 30), Plane(k1, t1, Date(2028, 1, 3)), Plane(k2, t2, Date(2028, 1, 3))),
    Begin(Date(2027, 12, 30), Plane(k1, t1, Date(2028, 1, 2)), Plane(Empty, t2, Date(2028, 1, 2))),
    Begin(Date(2028, 2, 26), Plane(k1, t1, Date(2028, 2, 28)), Plane(k1, t1, Date(2028, 3, 31))),
    Begin(Date(2026, 1, 30), Plane(k1, t1, Date(2026, 2, 1)), Plane(None, t2, Date(2026, 2, 28)))}

MCFlight == UNION {s.flights : s \in MCScenario}

Outbound(name) == <<"outbound", name>>
MCKeyPaths == {
    <<Outbound("flightKey"), Outbound("departureDate")>>,
    <<Outbound("flightKey")>>,
    <<Outbound("departureDate") \o <<"day">>>>,
    << >>}
=============================================================================
