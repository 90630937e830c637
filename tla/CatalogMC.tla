-------------------------------- MODULE CatalogMC --------------------------------
(* TLC instances of Catalog.                                                *)
EXTENDS Catalog, TLC

\* Two artists; an album of the first with a track of its name and a track of the
\* second artist, which may have been taken out or stand in a playlist.
TitleTrack ==
    [artists |-> <<"n1", "n2">>,
     albums |-> <<[name |-> "n1", artist |-> 1]>>,
     tracks |-> <<[name |-> "n1", artist |-> 1, by |-> "ordinary", global |-> FALSE],
                  [name |-> "n2", artist |-> 2, by |-> "super", global |-> FALSE]>>,
     filed |-> {{<<1, 1>>, <<2, 1>>}, {<<1, 1>>}},
     listed |-> {{}, {2}}]

Symmetry == Permutations(Requests)

\* No step depends on what was answered.
View == <<data, req, begun, faults, strayed, met, seen, steady>>
===================================================================================
