--------------------------- MODULE MCTicketStore ---------------------------
(* An instance of the ticket database for TLC. *)
EXTENDS TicketStore, TLC

CallerSymmetry == Permutations(Callers)

t1 == <<1, 1>>
t2 == <<1, 2>>
t3 == <<2, 1>>

Table(parents) ==
    [i \in Ids |-> IF i \in DOMAIN parents
                   THEN [status |-> "open", lifecycle |-> "open", parent |-> parents[i]]
                   ELSE NoRow]

\* Two tickets without a relation, an epic and its child, and three tickets of
\* which one blocks the next, the last in an epic.
MCStarts ==
    {[rows |-> Table(t1 :> None @@ t2 :> None), blocks |-> {}, calls |-> 0],
     [rows |-> Table(t1 :> None @@ t2 :> t1), blocks |-> {}, calls |-> 0],
     [rows |-> Table(t1 :> None @@ t2 :> None @@ t3 :> t1), blocks |-> {<<t1, t2>>, <<t2, t3>>}, calls |-> 1]}

\* Each column alone, and a status or a parent together with another.
MCRequests ==
    {ch \in Change :
        /\ ch.force => ch.status = "closed"
        /\ ch.lifecycle # "done"
        /\ Cardinality({k \in {"status", "lifecycle", "parent", "project"} : ch[k] # NoChange[k]}) = 1
           \/ /\ ch.lifecycle = "same" /\ ch.project # 1
              /\ ch.status = "closed" /\ ~ch.force /\ ch.parent \in {Same, t1} /\ ch.project \in {0, 2}}
=============================================================================
