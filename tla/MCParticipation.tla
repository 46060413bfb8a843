--------------------------- MODULE MCParticipation ---------------------------
(* Instances of Participation small enough for TLC.  Users are interchangeable *)
(* and so are tasks, so safety is checked up to their permutation.             *)
EXTENDS Participation, TLC

MemberHandlers == {"join", "reserve", "decline", "guests", "seek", "limit", "delete"}
RaceHandlers == {"join", "reserve", "decline", "guests", "manual_add", "limit", "restart"}
CarHandlers == {"seek", "driver", "passenger", "decline", "reserve", "delete"}
CarRaceHandlers == {"seek", "manual_carpool", "decline", "reserve"}
JoinHandlers == {"join", "decline"}

Symmetry == Permutations(Users) \union Permutations(Tasks)
=============================================================================
