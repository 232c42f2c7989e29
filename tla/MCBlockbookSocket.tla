------------------------ MODULE MCBlockbookSocket ------------------------
(* Instances of BlockbookSocket for TLC. *)
EXTENDS BlockbookSocket, TLC

CONSTANTS h1, h2, h3, c1, s1, s2

\* heavy requests and socket objects are interchangeable
Symmetry == Permutations(Heavy) \cup Permutations(Socket)
=============================================================================
