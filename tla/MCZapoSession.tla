--------------------------- MODULE MCZapoSession ---------------------------
(* Two objects of the session. Objects and workers are interchangeable.      *)
EXTENDS ZapoSession, TLC

Symmetry == Permutations(Client) \cup Permutations(Worker)

\* The objects live in one worker or in two; each in a worker of its own.
Anywhere == [Client -> Worker]
Apart == {CHOOSE home \in Anywhere : \A c, d \in Client : home[c] = home[d] => c = d}
=============================================================================
