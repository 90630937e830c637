------------------------------- MODULE PlaylistsMC -------------------------------
(* TLC instances of Playlists.                                              *)
EXTENDS Playlists, TLC

\* One private track of the first user.
PrivateTracks == [t \in Tracks |-> 1]

\* Requests are interchangeable, and so are names.
Symmetry == Permutations(Requests) \union Permutations(Names)

\* No step depends on what was answered.
View == <<data, req, begun, faults, allowed, strayed>>
==================================================================================
