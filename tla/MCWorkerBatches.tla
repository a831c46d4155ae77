-------------------------- MODULE MCWorkerBatches --------------------------
(* Up to three plans of two roles and two waves: plain ones, and others     *)
(* with dependencies, the shared file, more tokens or steps, or a risk that *)
(* calls for a chain.                                                       *)
EXTENDS WorkerBatches

Plain == [role : 1..2, wave : 1..2, steps : {1, 2}, tokens : {1},
          deps : {FALSE}, shared : {FALSE}, risky : {FALSE}]
Bare == [role : 1..2, wave : 1..2, steps : {1}, tokens : {1},
         deps : {FALSE}, shared : {FALSE}, risky : {FALSE}]
First == {s \in Bare : s.wave = 1}
MCShapes == Plain \cup {[s EXCEPT !.deps = TRUE] : s \in Bare}
                  \cup {[s EXCEPT !.shared = TRUE] : s \in First}
                  \cup {[s EXCEPT !.tokens = 2] : s \in First}
                  \cup {[s EXCEPT !.risky = TRUE] : s \in {b \in Bare : b.role = 1}}
                  \cup {[s EXCEPT !.steps = n] : s \in {b \in First : b.role = 2}, n \in 3..4}
=============================================================================
