------------------------------ MODULE MCRouteForm ------------------------------
(* A small instance of RouteForm: airports of the seed migration whose texts *)
(* begin one another ("BER" is a code, and begins Berlin and Bergamo), and   *)
(* edits that give one the city of another, or a city that is called like    *)
(* the code of another (as Pau, the city of PUF, is like PAU).               *)
EXTENDS RouteForm

MCFragment == {"ber", "lin", "gamo", "bgy", "rome", "cia", "il caravaggio",
               "brandenburg", "ciampino", "(ber)", "(bgy)", "(cia)"}
MCBracketed == [c \in {"ber", "bgy", "cia"} |->
                  CASE c = "ber" -> "(ber)" [] c = "bgy" -> "(bgy)" [] OTHER -> "(cia)"]
R(c, city, name) == [code |-> c, city |-> city, name |-> name, active |-> TRUE]
Berlin == R("ber", <<"ber", "lin">>, <<"ber", "lin", "brandenburg">>)
Bergamo == R("bgy", <<"ber", "gamo">>, <<"il caravaggio">>)
Rome == R("cia", <<"rome">>, <<"ciampino">>)
MCSeed == [a \in {"a1", "a2", "a3"} |->
             CASE a = "a1" -> Berlin [] a = "a2" -> Bergamo [] OTHER -> Rome]
MCEdits == {Berlin, Bergamo, [Berlin EXCEPT !.active = FALSE],
            [Bergamo EXCEPT !.active = FALSE], [Bergamo EXCEPT !.city = <<"rome">>],
            [Bergamo EXCEPT !.city = <<"cia">>]}
MCTyped == {<<"ber">>, <<"rome">>, <<"cia">>, <<"ber", "gamo">>}
=============================================================================
