---------------------------- MODULE PriceRefinement ----------------------------
(***************************************************************************)
(* The transactions of PriceHistory implement PriceWatch as long as no two *)
(* of them are open at once: the rows of a fare in the order of created_at *)
(* are its prices, and the events its changes.                             *)
(*                                                                         *)
(* Any number of workers may run the subscription, one may begin while     *)
(* another still queues the notifications of its commit, crash or roll     *)
(* back; the code does not keep their transactions apart, which is what    *)
(* NoOverlap adds.                                                         *)
(***************************************************************************)
EXTENDS PriceHistory, Ordering

InTransaction(w) == pc[w] \in {"read", "store"}

NoOverlap == \A v, w \in Worker : InTransaction(v) /\ InTransaction(w) => v = w

SerialNext == Next /\ NoOverlap'

SerialSpec == Init /\ [][SerialNext]_vars

FairSerialSpec ==
    /\ SerialSpec
    /\ \A w \in Worker : WF_vars(WorkerStep(w))
    /\ WF_vars(\E m \in broker : SendStep(m))

(* The committed rows of a fare, oldest first. *)
InOrder(rows, f) ==
    LET times == Ascending({x.at : x \in {y \in rows : y.fare = f}})
    IN  [k \in 1 .. Len(times) |-> CHOOSE x \in rows : x.at = times[k]]

Stored(f) == LET s == InOrder(snapshots, f) IN [i \in 1 .. Len(s) |-> s[i].price]
Recorded(f) ==
    LET s == InOrder(events, f)
    IN  [i \in 1 .. Len(s) |-> [old |-> s[i].old, new |-> s[i].new]]

Watch == INSTANCE PriceWatch WITH
            observed <- [f \in Fare |-> Stored(f)],
            changes <- [f \in Fare |-> Recorded(f)]

(* A run's result becomes visible at once and whole, and the events of a     *)
(* fare are exactly the changes between each observation and the one before *)
(* it, also when a result holds the fare twice; nothing else ever touches    *)
(* the tables but the cascade of a deletion.                                 *)
ImplementsWatch == Watch!Spec
=============================================================================
