---- MODULE MCWorkflow ----
(***************************************************************************)
(* Instances of Workflow for TLC.                                          *)
(***************************************************************************)
EXTENDS Workflow

CONSTANTS t1, t2, s1, a1, a2, b1, c1, c2, m1, r1, r2

\* t1 has the sockets a1 and a2, t2 has b1, and the student has c1 and c2.
OwnerOf == [c \in Connections |-> CASE c \in {a1, a2} -> t1
                                    [] c = b1 -> t2
                                    [] c \in {c1, c2} -> s1]

Cast(sockets, ids) == [sockets |-> sockets, ids |-> ids]

\* A student who reconnects, a teacher who does, two teachers who compete for
\* one request, two requests of one pair, and a session of the clients' own.
AnyCast == {Cast({a1, c1, c2}, {r1}), Cast({a1, a2, c1}, {r1}),
            Cast({a1, b1, c1}, {r1}), Cast({a1, c1}, {r1, r2}),
            Cast({a1, c1}, {r1, m1})}
====
