----------------------------- MODULE CatalogProofs -----------------------------
(***************************************************************************)
(* Proofs about Catalog, for any number of users and requests served at    *)
(* once, every library to start from, and every MaxRequests and MaxFaults. *)
(* Typed is the invariant that the others rest on; each section adds its   *)
(* own to it.                                                              *)
(***************************************************************************)
EXTENDS Catalog, TLAPS

-------------------------------------------------------------------------------
(* What a request is at each step that it may reach.                       *)

Creates == {"createArtist", "createAlbum"}
ImageOps == {"uploadImage", "deleteImage", "getImage"}
Ops ==
    Creates \union ImageOps
      \union {"updateArtist", "deleteArtist", "getArtist", "getArtists", "updateAlbum",
              "deleteAlbum", "getAlbum", "putTrack", "takeTrack", "uploadTrack", "deleteTrack",
              "updateTrack", "getTrackMeta", "getTracks", "search"}
NamingOps == Creates \union {"updateArtist", "updateAlbum", "uploadTrack", "updateTrack"}

Request ==
    [op : Ops \union {"none"}, step : Nat, user : Users \union {Nobody}, kind : Kinds,
     artist : Nat, album : Nat, track : Nat, name : Names \union {Unnamed},
     title : (Names \union {Unnamed}) \X Nat, single : BOOLEAN, global : BOOLEAN,
     cover : BOOLEAN, unchecked : BOOLEAN, key : Key \union {NoKey}, left : SUBSET Ids, found : SUBSET Ids]

\* What a client asks.
WellAsked(q) ==
    /\ q \in Request
    /\ q.op # "none"
    /\ q.op \in NamingOps => q.name \in Names
    /\ q.op = "uploadTrack" => q.user \in Users
    /\ q.op \in {"createArtist", "deleteArtist"} => q.kind = "artist"
    /\ q.op \in {"createAlbum", "deleteAlbum"} => q.kind = "album"
    /\ q.op \in ImageOps \union {"deleteArtist", "deleteAlbum"} => OwnerId(q) \in Ids

\* A request behind its first step: it has the ids that the step has given out,
\* and the key of its image from the step that makes it.
Underway(q) ==
    /\ WellAsked(q)
    /\ q.step \in 2..Len(Steps(q))
    /\ q.op \in Creates => OwnerId(q) \in Ids
    /\ q.op = "uploadTrack" => q.track \in Ids
    /\ At(q, "put") \/ At(q, "remove") \/ At(q, "get") =>
          q.key \in Key /\ q.key.kind = q.kind /\ q.key.id = OwnerId(q)

PlaceInv ==
    /\ req \in [Requests -> Request]
    /\ \A r \in Requests : req[r] = Idle \/ Underway(req[r])

\* No sequence runs out of ids, and none gives one out twice.
CountInv ==
    /\ \A k \in Kinds \union {"track"} : created[k] <= begun + MaxFounded
    /\ \A i \in Ids :
          /\ ArtistExists(i) => i <= created.artist
          /\ AlbumExists(i) => i <= created.album
          /\ TrackExists(i) => i <= created.track

\* What TypeOK says of the rows, and that track_album has pairs.
Typed ==
    /\ TypeOK
    /\ filed \subseteq Ids \X Ids
    /\ PlaceInv
    /\ CountInv

-------------------------------------------------------------------------------
(* Images and files.                                                       *)

OwnerOf(k) == [kind |-> k.kind, id |-> k.id]
Accounted(k) == OwnerOf(k) \in strayed \/ NameOf(k.kind, k.id) = k.name

\* The image that a request will store or remove is the one that its owner has.
HeldInv ==
    \A r \in Requests : At(req[r], "put") \/ At(req[r], "remove") => Accounted(req[r].key)

\* A request that will delete a row has removed what is in the bucket.
Cleared(q) ==
    IF q.op = "deleteTrack"
    THEN q.track \in files => [kind |-> "track", id |-> q.track] \in strayed
    ELSE ImagesOf(TheOwner(q)) # {} => TheOwner(q) \in strayed
LeftInv == \A r \in Requests : Deletes(req[r]) => Cleared(req[r])

OwnInv == ObjectsAreOwned /\ HeldInv /\ LeftInv

\* A request behind the check has a superuser's user, or the check was not made.
PassedInv ==
    \A r \in Requests :
       LET q == req[r] IN
       q.op \in {"updateArtist", "updateAlbum", "deleteAlbum", "putTrack", "takeTrack",
                "deleteTrack", "updateTrack"} =>
          q.user \in Superusers \/ (q.unchecked /\ q.op \notin {"deleteTrack", "updateTrack"})

\* What a reading request has met, what it has found and what is left to look up.
Reading(q) == q.op \in ReadOps
MetInv ==
    \A r \in Requests :
       LET q == req[r] IN
       Reading(q) =>
          /\ FiledTracks \subseteq seen[r].filed /\ Open(q) \subseteq seen[r].open
          /\ steady[r] \subseteq FiledTracks \intersect Open(q)
FoundInv ==
    \A r \in Requests :
       LET q == req[r] IN
       /\ q.op = "getTrackMeta" => q.track \in seen[r].filed
       /\ q.op \in {"getTracks", "search"} =>
             q.found \subseteq seen[r].filed \intersect seen[r].open
       /\ q.op = "getTracks" /\ q.step = 3 =>
             q.left \subseteq seen[r].open /\ steady[r] \subseteq q.left \union q.found
ReadInv == MetInv /\ FoundInv

-------------------------------------------------------------------------------
(* The steps of the operations.                                            *)

ChangeOps == {"updateArtist", "updateAlbum", "deleteAlbum", "putTrack", "takeTrack",
              "deleteTrack", "updateTrack"}

On(q, n, ops) == q.step = n /\ q.op \in ops

\* Which step of which operations is at a place.
OpAt(q, at) ==
    \/ at = "insert" /\ On(q, 1, Creates \union {"uploadTrack"})
    \/ at = "super" /\ On(q, 1, ChangeOps)
    \/ at = "load" /\ (On(q, 1, ImageOps \union {"deleteArtist"})
                         \/ On(q, 2, Creates \union {"deleteAlbum"}))
    \/ at = "put" /\ (On(q, 2, {"uploadImage"}) \/ On(q, 3, Creates))
    \/ at = "remove" /\ (On(q, 2, {"deleteImage", "deleteArtist"}) \/ On(q, 3, {"deleteAlbum"}))
    \/ at = "get" /\ On(q, 2, {"getImage"})
    \/ at = "delete" /\ (On(q, 3, {"deleteArtist"}) \/ On(q, 4, {"deleteAlbum"})
                           \/ On(q, 6, {"deleteTrack"}))
    \/ at = "readTrack" /\ On(q, 4, {"deleteTrack"})
    \/ at = "readAlbum" /\ On(q, 5, {"deleteTrack"})
    \/ at = "update" /\ (On(q, 2, {"updateArtist"}) \/ On(q, 3, {"updateAlbum"})
                           \/ On(q, 4, {"updateTrack"}))
    \/ at = "albums" /\ (On(q, 3, {"updateArtist"}) \/ On(q, 1, {"getArtist"}))
    \/ at = "row" /\ (On(q, 4, {"updateArtist", "updateAlbum"}) \/ On(q, 2, {"getArtist"})
                        \/ On(q, 1, {"getAlbum"}))
    \/ at = "artists" /\ On(q, 1, {"getArtists"})
    \/ at = "albumsOfAll" /\ On(q, 2, {"getArtists"})
    \/ at = "artist" /\ On(q, 2, {"updateAlbum", "updateTrack"})
    \/ at = "album" /\ (On(q, 2, {"putTrack", "takeTrack"}) \/ On(q, 3, {"updateTrack"}))
    \/ at = "track" /\ (On(q, 3, {"putTrack"}) \/ On(q, 2, {"deleteTrack"})
                          \/ On(q, 1, {"getTrackMeta"}))
    \/ at = "tracksOf" /\ (On(q, 5, {"updateAlbum"}) \/ On(q, 2, {"getAlbum"}))
    \/ at = "file" /\ On(q, 4, {"putTrack"})
    \/ at = "unfile" /\ On(q, 3, {"takeTrack"})
    \/ at = "putFile" /\ On(q, 2, {"uploadTrack"})
    \/ at = "enqueue" /\ On(q, 3, {"uploadTrack"})
    \/ at = "removeFiles" /\ On(q, 3, {"deleteTrack"})
    \/ at = "access" /\ On(q, 2, {"getTrackMeta"})
    \/ at = "user" /\ On(q, 1, {"getTracks"})
    \/ at = "tracks" /\ On(q, 2, {"getTracks"})
    \/ at = "albumOfEach" /\ On(q, 3, {"getTracks"})
    \/ at = "searchTracks" /\ On(q, 1, {"search"})
    \/ at = "searchArtists" /\ On(q, 2, {"search"})
    \/ at = "searchAlbums" /\ On(q, 3, {"search"})

\* How many steps an operation has.
Length(q) ==
    CASE q.op \in Creates -> IF q.cover THEN 3 ELSE 1
      [] q.op \in ImageOps \union {"getArtist", "getArtists", "getAlbum", "getTrackMeta"} -> 2
      [] q.op \in {"deleteArtist", "takeTrack", "uploadTrack", "getTracks", "search"} -> 3
      [] q.op \in {"updateArtist", "deleteAlbum", "putTrack", "updateTrack"} -> 4
      [] q.op = "updateAlbum" -> 5
      [] q.op = "deleteTrack" -> 6

\* The steps of a new artist or album.
LEMMA CreateLayout ==
    ASSUME NEW q, q.op \in Creates, q.cover \in BOOLEAN
    PROVE  /\ Len(Steps(q)) = Length(q)
           /\ q.step \in 1..Len(Steps(q)) => OpAt(q, Steps(q)[q.step])
<1>0. Steps(q) = CreateSteps(q)
  BY DEF Steps, Creates
<1>1. CASE q.cover
  <2>1. /\ Len(Steps(q)) = 3
        /\ Steps(q)[1] = "insert" /\ Steps(q)[2] = "load" /\ Steps(q)[3] = "put"
    BY <1>0, <1>1 DEF CreateSteps
  <2>2. QED
    BY <1>1, <2>1 DEF Length, OpAt, On, Creates, ImageOps
<1>2. CASE ~q.cover
  <2>1. Len(Steps(q)) = 1 /\ Steps(q)[1] = "insert"
    BY <1>0, <1>2 DEF CreateSteps
  <2>2. QED
    BY <1>2, <2>1 DEF Length, OpAt, On, Creates, ImageOps
<1>3. QED
  BY <1>1, <1>2

\* The steps of images and of deletions that remove one.
LEMMA ImageLayout ==
    ASSUME NEW q, q.op \in ImageOps \union {"deleteArtist", "deleteAlbum"}
    PROVE  /\ Len(Steps(q)) = Length(q)
           /\ q.step \in 1..Len(Steps(q)) => OpAt(q, Steps(q)[q.step])
<1>1. CASE q.op = "uploadImage"
  <2>1. /\ Len(Steps(q)) = 2
        /\ Steps(q)[1] = "load" /\ Steps(q)[2] = "put"
    BY <1>1 DEF Steps, UploadImageSteps
  <2>2. QED
    BY <1>1, <2>1 DEF Length, OpAt, On, Creates, ImageOps, ChangeOps
<1>2. CASE q.op = "deleteImage"
  <2>1. /\ Len(Steps(q)) = 2
        /\ Steps(q)[1] = "load" /\ Steps(q)[2] = "remove"
    BY <1>2 DEF Steps, DeleteImageSteps
  <2>2. QED
    BY <1>2, <2>1 DEF Length, OpAt, On, Creates, ImageOps, ChangeOps
<1>3. CASE q.op = "getImage"
  <2>1. /\ Len(Steps(q)) = 2
        /\ Steps(q)[1] = "load" /\ Steps(q)[2] = "get"
    BY <1>3 DEF Steps, GetImageSteps
  <2>2. QED
    BY <1>3, <2>1 DEF Length, OpAt, On, Creates, ImageOps, ChangeOps
<1>4. CASE q.op = "deleteArtist"
  <2>1. /\ Len(Steps(q)) = 3
        /\ Steps(q)[1] = "load" /\ Steps(q)[2] = "remove" /\ Steps(q)[3] = "delete"
    BY <1>4 DEF Steps, DeleteArtistSteps
  <2>2. QED
    BY <1>4, <2>1 DEF Length, OpAt, On, Creates, ImageOps, ChangeOps
<1>5. CASE q.op = "deleteAlbum"
  <2>1. /\ Len(Steps(q)) = 4
        /\ Steps(q)[1] = "super" /\ Steps(q)[2] = "load" /\ Steps(q)[3] = "remove"
        /\ Steps(q)[4] = "delete"
    BY <1>5 DEF Steps, DeleteAlbumSteps
  <2>2. QED
    BY <1>5, <2>1 DEF Length, OpAt, On, Creates, ImageOps, ChangeOps
<1>6. QED
  BY <1>1, <1>2, <1>3, <1>4, <1>5 DEF ImageOps

\* The steps of artists and albums.
LEMMA ArtistLayout ==
    ASSUME NEW q, q.op \in {"updateArtist", "getArtist", "getArtists", "updateAlbum", "getAlbum"}
    PROVE  /\ Len(Steps(q)) = Length(q)
           /\ q.step \in 1..Len(Steps(q)) => OpAt(q, Steps(q)[q.step])
<1>1. CASE q.op = "updateArtist"
  <2>1. /\ Len(Steps(q)) = 4
        /\ Steps(q)[1] = "super" /\ Steps(q)[2] = "update" /\ Steps(q)[3] = "albums"
        /\ Steps(q)[4] = "row"
    BY <1>1 DEF Steps, UpdateArtistSteps
  <2>2. QED
    BY <1>1, <2>1 DEF Length, OpAt, On, Creates, ImageOps, ChangeOps
<1>2. CASE q.op = "getArtist"
  <2>1. /\ Len(Steps(q)) = 2
        /\ Steps(q)[1] = "albums" /\ Steps(q)[2] = "row"
    BY <1>2 DEF Steps, GetArtistSteps
  <2>2. QED
    BY <1>2, <2>1 DEF Length, OpAt, On, Creates, ImageOps, ChangeOps
<1>3. CASE q.op = "getArtists"
  <2>1. /\ Len(Steps(q)) = 2
        /\ Steps(q)[1] = "artists" /\ Steps(q)[2] = "albumsOfAll"
    BY <1>3 DEF Steps, GetAllArtistsSteps
  <2>2. QED
    BY <1>3, <2>1 DEF Length, OpAt, On, Creates, ImageOps, ChangeOps
<1>4. CASE q.op = "updateAlbum"
  <2>1. /\ Len(Steps(q)) = 5
        /\ Steps(q)[1] = "super" /\ Steps(q)[2] = "artist" /\ Steps(q)[3] = "update"
        /\ Steps(q)[4] = "row" /\ Steps(q)[5] = "tracksOf"
    BY <1>4 DEF Steps, UpdateAlbumSteps
  <2>2. QED
    BY <1>4, <2>1 DEF Length, OpAt, On, Creates, ImageOps, ChangeOps
<1>5. CASE q.op = "getAlbum"
  <2>1. /\ Len(Steps(q)) = 2
        /\ Steps(q)[1] = "row" /\ Steps(q)[2] = "tracksOf"
    BY <1>5 DEF Steps, GetAlbumSteps
  <2>2. QED
    BY <1>5, <2>1 DEF Length, OpAt, On, Creates, ImageOps, ChangeOps
<1>6. QED
  BY <1>1, <1>2, <1>3, <1>4, <1>5

\* The steps of tracks.
LEMMA TrackLayout ==
    ASSUME NEW q, q.op \in {"putTrack", "takeTrack", "uploadTrack", "deleteTrack", "updateTrack"}
    PROVE  /\ Len(Steps(q)) = Length(q)
           /\ q.step \in 1..Len(Steps(q)) => OpAt(q, Steps(q)[q.step])
<1>1. CASE q.op = "putTrack"
  <2>1. /\ Len(Steps(q)) = 4
        /\ Steps(q)[1] = "super" /\ Steps(q)[2] = "album" /\ Steps(q)[3] = "track"
        /\ Steps(q)[4] = "file"
    BY <1>1 DEF Steps, EnsureTrackSteps
  <2>2. QED
    BY <1>1, <2>1 DEF Length, OpAt, On, Creates, ImageOps, ChangeOps
<1>2. CASE q.op = "takeTrack"
  <2>1. /\ Len(Steps(q)) = 3
        /\ Steps(q)[1] = "super" /\ Steps(q)[2] = "album" /\ Steps(q)[3] = "unfile"
    BY <1>2 DEF Steps, DeleteTrackFromAlbumSteps
  <2>2. QED
    BY <1>2, <2>1 DEF Length, OpAt, On, Creates, ImageOps, ChangeOps
<1>3. CASE q.op = "uploadTrack"
  <2>1. /\ Len(Steps(q)) = 3
        /\ Steps(q)[1] = "insert" /\ Steps(q)[2] = "putFile" /\ Steps(q)[3] = "enqueue"
    BY <1>3 DEF Steps, UploadTrackSteps
  <2>2. QED
    BY <1>3, <2>1 DEF Length, OpAt, On, Creates, ImageOps, ChangeOps
<1>4. CASE q.op = "deleteTrack"
  <2>1. /\ Len(Steps(q)) = 6
        /\ Steps(q)[1] = "super" /\ Steps(q)[2] = "track" /\ Steps(q)[3] = "removeFiles"
        /\ Steps(q)[4] = "readTrack" /\ Steps(q)[5] = "readAlbum" /\ Steps(q)[6] = "delete"
    BY <1>4 DEF Steps, DeleteTrackSteps
  <2>2. QED
    BY <1>4, <2>1 DEF Length, OpAt, On, Creates, ImageOps, ChangeOps
<1>5. CASE q.op = "updateTrack"
  <2>1. /\ Len(Steps(q)) = 4
        /\ Steps(q)[1] = "super" /\ Steps(q)[2] = "artist" /\ Steps(q)[3] = "album"
        /\ Steps(q)[4] = "update"
    BY <1>5 DEF Steps, UpdateTrackSteps
  <2>2. QED
    BY <1>5, <2>1 DEF Length, OpAt, On, Creates, ImageOps, ChangeOps
<1>6. QED
  BY <1>1, <1>2, <1>3, <1>4, <1>5

\* The steps of lists, metadata and search.
LEMMA ReadLayout ==
    ASSUME NEW q, q.op \in {"getTrackMeta", "getTracks", "search"}
    PROVE  /\ Len(Steps(q)) = Length(q)
           /\ q.step \in 1..Len(Steps(q)) => OpAt(q, Steps(q)[q.step])
<1>1. CASE q.op = "getTrackMeta"
  <2>1. /\ Len(Steps(q)) = 2
        /\ Steps(q)[1] = "track" /\ Steps(q)[2] = "access"
    BY <1>1 DEF Steps, GetUserMetaSteps
  <2>2. QED
    BY <1>1, <2>1 DEF Length, OpAt, On, Creates, ImageOps, ChangeOps
<1>2. CASE q.op = "getTracks"
  <2>1. /\ Len(Steps(q)) = 3
        /\ Steps(q)[1] = "user" /\ Steps(q)[2] = "tracks" /\ Steps(q)[3] = "albumOfEach"
    BY <1>2 DEF Steps, GetUserTracksSteps
  <2>2. QED
    BY <1>2, <2>1 DEF Length, OpAt, On, Creates, ImageOps, ChangeOps
<1>3. CASE q.op = "search"
  <2>1. /\ Len(Steps(q)) = 3
        /\ Steps(q)[1] = "searchTracks" /\ Steps(q)[2] = "searchArtists" /\ Steps(q)[3] = "searchAlbums"
    BY <1>3 DEF Steps, SearchSteps
  <2>2. QED
    BY <1>3, <2>1 DEF Length, OpAt, On, Creates, ImageOps, ChangeOps
<1>4. QED
  BY <1>1, <1>2, <1>3

\* The place that a request has come to tells its operation and step.
LEMMA Layout ==
    ASSUME NEW q \in Request, q.op # "none"
    PROVE  /\ Len(Steps(q)) = Length(q)
           /\ \A at : q.step \in 1..Len(Steps(q)) /\ At(q, at) => OpAt(q, at)
<1>1. q.op \in Ops /\ q.cover \in BOOLEAN
  BY DEF Request
<1>2. /\ Len(Steps(q)) = Length(q)
      /\ q.step \in 1..Len(Steps(q)) => OpAt(q, Steps(q)[q.step])
  <2>1. CASE q.op \in Creates
    BY <1>1, <2>1, CreateLayout
  <2>2. CASE q.op \in ImageOps \union {"deleteArtist", "deleteAlbum"}
    BY <2>2, ImageLayout
  <2>3. CASE q.op \in {"updateArtist", "getArtist", "getArtists", "updateAlbum", "getAlbum"}
    BY <2>3, ArtistLayout
  <2>4. CASE q.op \in {"putTrack", "takeTrack", "uploadTrack", "deleteTrack", "updateTrack"}
    BY <2>4, TrackLayout
  <2>5. CASE q.op \in {"getTrackMeta", "getTracks", "search"}
    BY <2>5, ReadLayout
  <2>6. QED
    BY <1>1, <2>1, <2>2, <2>3, <2>4, <2>5 DEF Ops
<1>3. QED
  BY <1>2 DEF At

-------------------------------------------------------------------------------
(* What a request is at the beginning.                                     *)

\* A client's request at its first step.
Fresh(q) ==
    /\ WellAsked(q)
    /\ q.step = 1 /\ ~q.unchecked /\ q.left = {} /\ q.found = {}

Active(q) == Fresh(q) \/ Underway(q)

\* The library that is there at the start.
LEMMA Numbers ==
    /\ Ids \subseteq Nat \ {0}
    /\ 0 \notin Ids
    /\ \A i \in Nat \ {0} : i <= MaxRequests + MaxFounded => i \in Ids
BY ConstantsAssumption DEF Ids

\* An idle request, and what is not there.
LEMMA IdleTypes ==
    /\ Idle \in Request
    /\ Idle.op = "none" /\ Idle.step = 1 /\ Idle.kind = "artist"
    /\ \A at : ~At(Idle, at)
BY Numbers DEF Idle, Request, Kinds, NoKey, At

\* What a client gives is taken, for the rest there is a default.
LEMMA AskedTypes ==
    ASSUME NEW ask,
           DOMAIN ask \intersect {"step", "unchecked", "key", "left", "found", "title"} = {},
           "op" \in DOMAIN ask, ask.op \in Ops,
           "user" \in DOMAIN ask => ask.user \in Users,
           "kind" \in DOMAIN ask => ask.kind \in Kinds,
           "artist" \in DOMAIN ask => ask.artist \in Ids,
           "album" \in DOMAIN ask => ask.album \in Ids,
           "track" \in DOMAIN ask => ask.track \in Ids,
           "name" \in DOMAIN ask => ask.name \in Names,
           "single" \in DOMAIN ask => ask.single \in BOOLEAN,
           "global" \in DOMAIN ask => ask.global \in BOOLEAN,
           "cover" \in DOMAIN ask => ask.cover \in BOOLEAN
    PROVE  LET q == Asked(ask) IN
           /\ q \in Request
           /\ q.op = ask.op /\ q.step = 1 /\ ~q.unchecked /\ q.left = {} /\ q.found = {}
           /\ "user" \in DOMAIN ask => q.user = ask.user
           /\ "kind" \in DOMAIN ask => q.kind = ask.kind
           /\ "artist" \in DOMAIN ask => q.artist = ask.artist
           /\ "album" \in DOMAIN ask => q.album = ask.album
           /\ "name" \in DOMAIN ask => q.name = ask.name
<1> DEFINE q == Asked(ask)
<1>1. DOMAIN Idle = {"op", "step", "user", "kind", "artist", "album", "track", "name", "title",
                     "single", "global", "cover", "unchecked", "key", "left", "found"}
  BY DEF Idle
<1>2. q = [f \in DOMAIN Idle |-> IF f \in DOMAIN ask THEN ask[f] ELSE Idle[f]]
  BY DEF Asked
<1> HIDE DEF q
<1>3. /\ q.op = ask.op /\ q.step = 1 /\ q.key = NoKey /\ q.left = {} /\ q.found = {}
  BY <1>1, <1>2 DEF Idle
<1>4. /\ q.single \in BOOLEAN /\ q.global \in BOOLEAN /\ q.cover \in BOOLEAN
      /\ q.unchecked \in BOOLEAN /\ ~q.unchecked
  <2>1. Idle.single \in BOOLEAN /\ Idle.global \in BOOLEAN /\ Idle.cover \in BOOLEAN
        /\ Idle.unchecked \in BOOLEAN /\ ~Idle.unchecked
    BY DEF Idle
  <2>2. QED
    BY <1>1, <1>2, <2>1
<1>5. /\ "user" \in DOMAIN ask => q.user = ask.user
      /\ "kind" \in DOMAIN ask => q.kind = ask.kind
      /\ "artist" \in DOMAIN ask => q.artist = ask.artist
      /\ "album" \in DOMAIN ask => q.album = ask.album
      /\ "name" \in DOMAIN ask => q.name = ask.name
  BY <1>1, <1>2
<1>6. /\ q.user \in Users \union {Nobody} /\ q.kind \in Kinds
      /\ q.name \in Names \union {Unnamed}
  <2>1. Idle.user = Nobody /\ Idle.kind \in Kinds /\ Idle.name = Unnamed
    BY DEF Idle, Kinds
  <2>2. QED
    BY <1>1, <1>2, <2>1
<1>7. q.artist \in Nat /\ q.album \in Nat /\ q.track \in Nat
  BY <1>1, <1>2, Numbers DEF Idle
<1>8. q = [op |-> q.op, step |-> q.step, user |-> q.user, kind |-> q.kind, artist |-> q.artist,
           album |-> q.album, track |-> q.track, name |-> q.name, title |-> q.title,
           single |-> q.single, global |-> q.global, cover |-> q.cover, unchecked |-> q.unchecked, key |-> q.key,
           left |-> q.left, found |-> q.found]
  BY <1>1, <1>2
<1>9. /\ q.op \in Ops \union {"none"} /\ q.step \in Nat /\ q.key \in Key \union {NoKey}
      /\ q.left \in SUBSET Ids /\ q.found \in SUBSET Ids
      /\ q.title \in (Names \union {Unnamed}) \X Nat
  <2>1. "title" \in DOMAIN ask => FALSE
    OBVIOUS
  <2>2. q.title = Idle.title
    BY <1>1, <1>2, <2>1
  <2>3. Idle.title = <<Unnamed, 0>>
    BY DEF Idle
  <2>4. QED
    BY <1>3, <2>2, <2>3
<1>10. q \in Request
  <2>1. [op |-> q.op, step |-> q.step, user |-> q.user, kind |-> q.kind, artist |-> q.artist,
         album |-> q.album, track |-> q.track, name |-> q.name, title |-> q.title,
         single |-> q.single, global |-> q.global, cover |-> q.cover, unchecked |-> q.unchecked, key |-> q.key,
         left |-> q.left, found |-> q.found] \in Request
    BY ONLY <1>4, <1>6, <1>7, <1>9 DEF Request
  <2>2. QED
    BY ONLY <1>8, <2>1
<1>11. QED
  BY <1>3, <1>4, <1>5, <1>10 DEF q

\* A client's request has what its operation needs.
LEMMA AskedFresh ==
    ASSUME NEW ask,
           DOMAIN ask \intersect {"step", "unchecked", "key", "left", "found", "title"} = {},
           "op" \in DOMAIN ask, ask.op \in Ops,
           "user" \in DOMAIN ask => ask.user \in Users,
           "kind" \in DOMAIN ask => ask.kind \in Kinds,
           "artist" \in DOMAIN ask => ask.artist \in Ids,
           "album" \in DOMAIN ask => ask.album \in Ids,
           "track" \in DOMAIN ask => ask.track \in Ids,
           "name" \in DOMAIN ask => ask.name \in Names,
           "single" \in DOMAIN ask => ask.single \in BOOLEAN,
           "global" \in DOMAIN ask => ask.global \in BOOLEAN,
           "cover" \in DOMAIN ask => ask.cover \in BOOLEAN,
           ask.op \in NamingOps => "name" \in DOMAIN ask,
           ask.op = "uploadTrack" => "user" \in DOMAIN ask,
           ask.op \in {"createArtist", "deleteArtist"} =>
              "kind" \in DOMAIN ask /\ ask.kind = "artist",
           ask.op \in {"createAlbum", "deleteAlbum"} =>
              "kind" \in DOMAIN ask /\ ask.kind = "album",
           ask.op \in ImageOps \union {"deleteArtist", "deleteAlbum"} =>
              /\ "kind" \in DOMAIN ask
              /\ IF ask.kind = "artist" THEN "artist" \in DOMAIN ask ELSE "album" \in DOMAIN ask
    PROVE  Fresh(Asked(ask))
<1> DEFINE q == Asked(ask)
<1>1. /\ q \in Request
      /\ q.op = ask.op /\ q.step = 1 /\ ~q.unchecked /\ q.left = {} /\ q.found = {}
      /\ "user" \in DOMAIN ask => q.user = ask.user
      /\ "kind" \in DOMAIN ask => q.kind = ask.kind
      /\ "artist" \in DOMAIN ask => q.artist = ask.artist
      /\ "album" \in DOMAIN ask => q.album = ask.album
      /\ "name" \in DOMAIN ask => q.name = ask.name
  BY AskedTypes
<1> HIDE DEF q
<1>2. q.op # "none"
  BY <1>1 DEF Ops, Creates, ImageOps
<1>3. q.op \in ImageOps \union {"deleteArtist", "deleteAlbum"} => OwnerId(q) \in Ids
  BY <1>1 DEF OwnerId
<1>4. WellAsked(q)
  BY <1>1, <1>2, <1>3 DEF WellAsked
<1>5. QED
  BY <1>1, <1>4 DEF Fresh, q

\* A request begins as what a client may ask.
LEMMA Opening ==
    ASSUME TypeOK, CountInv, NEW ask \in Asks
    PROVE  Fresh(Asked(ask))
<1> DEFINE as == 1..created.artist
           bs == 1..created.album
           ts == 1..created.track
<1>1. as \subseteq Ids /\ bs \subseteq Ids /\ ts \subseteq Ids
  <2>1. /\ created.artist \in Nat /\ created.album \in Nat /\ created.track \in Nat
        /\ begun \in Nat /\ begun <= MaxRequests
        /\ created.artist <= begun + MaxFounded /\ created.album <= begun + MaxFounded /\ created.track <= begun + MaxFounded
    BY ConstantsAssumption DEF TypeOK, CountInv, Kinds
  <2>2. QED
    BY <2>1, ConstantsAssumption DEF Ids
<1> HIDE DEF as, bs, ts
<1>2. ASSUME ask \in [op : {"createArtist"}, kind : {"artist"}, name : Names, cover : BOOLEAN]
      PROVE  Fresh(Asked(ask))
  <2>1. /\ DOMAIN ask = {"op", "kind", "name", "cover"}
        /\ ask.op = "createArtist" /\ ask.kind = "artist" /\ ask.name \in Names /\ ask.cover \in BOOLEAN
    BY <1>2
  <2>2. QED
    BY <1>1, <2>1, AskedFresh DEF Ops, Creates, ImageOps, NamingOps, Kinds
<1>3. ASSUME ask \in [op : {"updateArtist"}, kind : {"artist"}, user : Users, artist : as, name : Names]
      PROVE  Fresh(Asked(ask))
  <2>1. /\ DOMAIN ask = {"op", "kind", "user", "artist", "name"}
        /\ ask.op = "updateArtist" /\ ask.kind = "artist" /\ ask.user \in Users /\ ask.artist \in as
        /\ ask.name \in Names
    BY <1>3
  <2>2. QED
    BY <1>1, <2>1, AskedFresh DEF Ops, Creates, ImageOps, NamingOps, Kinds
<1>4. ASSUME ask \in [op : {"deleteArtist", "getArtist"}, kind : {"artist"}, artist : as]
      PROVE  Fresh(Asked(ask))
  <2>1. /\ DOMAIN ask = {"op", "kind", "artist"}
        /\ ask.op \in {"deleteArtist", "getArtist"} /\ ask.kind = "artist" /\ ask.artist \in as
    BY <1>4
  <2>2. QED
    BY <1>1, <2>1, AskedFresh DEF Ops, Creates, ImageOps, NamingOps, Kinds
<1>5. ASSUME ask \in [op : {"getArtists"}]
      PROVE  Fresh(Asked(ask))
  <2>1. /\ DOMAIN ask = {"op"}
        /\ ask.op = "getArtists"
    BY <1>5
  <2>2. QED
    BY <1>1, <2>1, AskedFresh DEF Ops, Creates, ImageOps, NamingOps, Kinds
<1>6. ASSUME ask \in [op : {"uploadImage", "deleteImage", "getImage"}, kind : {"artist"}, artist : as]
      PROVE  Fresh(Asked(ask))
  <2>1. /\ DOMAIN ask = {"op", "kind", "artist"}
        /\ ask.op \in {"uploadImage", "deleteImage", "getImage"} /\ ask.kind = "artist" /\ ask.artist \in as
    BY <1>6
  <2>2. QED
    BY <1>1, <2>1, AskedFresh DEF Ops, Creates, ImageOps, NamingOps, Kinds
<1>7. ASSUME ask \in [op : {"uploadImage", "deleteImage", "getImage", "getAlbum"}, kind : {"album"}, album : bs]
      PROVE  Fresh(Asked(ask))
  <2>1. /\ DOMAIN ask = {"op", "kind", "album"}
        /\ ask.op \in {"uploadImage", "deleteImage", "getImage", "getAlbum"} /\ ask.kind = "album" /\ ask.album \in bs
    BY <1>7
  <2>2. QED
    BY <1>1, <2>1, AskedFresh DEF Ops, Creates, ImageOps, NamingOps, Kinds
<1>8. ASSUME ask \in [op : {"createAlbum"}, kind : {"album"}, artist : as, name : Names, cover : BOOLEAN]
      PROVE  Fresh(Asked(ask))
  <2>1. /\ DOMAIN ask = {"op", "kind", "artist", "name", "cover"}
        /\ ask.op = "createAlbum" /\ ask.kind = "album" /\ ask.artist \in as /\ ask.name \in Names
        /\ ask.cover \in BOOLEAN
    BY <1>8
  <2>2. QED
    BY <1>1, <2>1, AskedFresh DEF Ops, Creates, ImageOps, NamingOps, Kinds
<1>9. ASSUME ask \in [op : {"updateAlbum"}, kind : {"album"}, user : Users, album : bs, artist : as, name : Names]
      PROVE  Fresh(Asked(ask))
  <2>1. /\ DOMAIN ask = {"op", "kind", "user", "album", "artist", "name"}
        /\ ask.op = "updateAlbum" /\ ask.kind = "album" /\ ask.user \in Users /\ ask.album \in bs
        /\ ask.artist \in as /\ ask.name \in Names
    BY <1>9
  <2>2. QED
    BY <1>1, <2>1, AskedFresh DEF Ops, Creates, ImageOps, NamingOps, Kinds
<1>10. ASSUME ask \in [op : {"deleteAlbum"}, kind : {"album"}, user : Users, album : bs]
      PROVE  Fresh(Asked(ask))
  <2>1. /\ DOMAIN ask = {"op", "kind", "user", "album"}
        /\ ask.op = "deleteAlbum" /\ ask.kind = "album" /\ ask.user \in Users /\ ask.album \in bs
    BY <1>10
  <2>2. QED
    BY <1>1, <2>1, AskedFresh DEF Ops, Creates, ImageOps, NamingOps, Kinds
<1>11. ASSUME ask \in [op : {"putTrack", "takeTrack"}, user : Users, track : ts, album : bs]
      PROVE  Fresh(Asked(ask))
  <2>1. /\ DOMAIN ask = {"op", "user", "track", "album"}
        /\ ask.op \in {"putTrack", "takeTrack"} /\ ask.user \in Users /\ ask.track \in ts /\ ask.album \in bs
    BY <1>11
  <2>2. QED
    BY <1>1, <2>1, AskedFresh DEF Ops, Creates, ImageOps, NamingOps, Kinds
<1>12. ASSUME ask \in [op : {"uploadTrack"}, user : Users, name : Names, artist : as, album : bs,
                        single : {FALSE}, global : BOOLEAN]
      PROVE  Fresh(Asked(ask))
  <2>1. /\ DOMAIN ask = {"op", "user", "name", "artist", "album", "single", "global"}
        /\ ask.op = "uploadTrack" /\ ask.user \in Users /\ ask.name \in Names /\ ask.artist \in as
        /\ ask.album \in bs /\ ask.single = FALSE /\ ask.global \in BOOLEAN
    BY <1>12
  <2>2. QED
    BY <1>1, <2>1, AskedFresh DEF Ops, Creates, ImageOps, NamingOps, Kinds
<1>13. ASSUME ask \in [op : {"uploadTrack"}, user : Users, name : Names, artist : as, single : {TRUE},
                        global : {TRUE}]
      PROVE  Fresh(Asked(ask))
  <2>1. /\ DOMAIN ask = {"op", "user", "name", "artist", "single", "global"}
        /\ ask.op = "uploadTrack" /\ ask.user \in Users /\ ask.name \in Names /\ ask.artist \in as
        /\ ask.single = TRUE /\ ask.global = TRUE
    BY <1>13
  <2>2. QED
    BY <1>1, <2>1, AskedFresh DEF Ops, Creates, ImageOps, NamingOps, Kinds
<1>14. ASSUME ask \in [op : {"deleteTrack", "getTrackMeta"}, user : Users, track : ts]
      PROVE  Fresh(Asked(ask))
  <2>1. /\ DOMAIN ask = {"op", "user", "track"}
        /\ ask.op \in {"deleteTrack", "getTrackMeta"} /\ ask.user \in Users /\ ask.track \in ts
    BY <1>14
  <2>2. QED
    BY <1>1, <2>1, AskedFresh DEF Ops, Creates, ImageOps, NamingOps, Kinds
<1>15. ASSUME ask \in [op : {"updateTrack"}, user : Users, track : ts, name : Names, artist : as, album : bs,
                        global : BOOLEAN]
      PROVE  Fresh(Asked(ask))
  <2>1. /\ DOMAIN ask = {"op", "user", "track", "name", "artist", "album", "global"}
        /\ ask.op = "updateTrack" /\ ask.user \in Users /\ ask.track \in ts /\ ask.name \in Names
        /\ ask.artist \in as /\ ask.album \in bs /\ ask.global \in BOOLEAN
    BY <1>15
  <2>2. QED
    BY <1>1, <2>1, AskedFresh DEF Ops, Creates, ImageOps, NamingOps, Kinds
<1>16. ASSUME ask \in [op : {"getTracks"}, user : Users]
      PROVE  Fresh(Asked(ask))
  <2>1. /\ DOMAIN ask = {"op", "user"}
        /\ ask.op = "getTracks" /\ ask.user \in Users
    BY <1>16
  <2>2. QED
    BY <1>1, <2>1, AskedFresh DEF Ops, Creates, ImageOps, NamingOps, Kinds
<1>17. ASSUME ask \in [op : {"search"}, user : Users, name : Names]
      PROVE  Fresh(Asked(ask))
  <2>1. /\ DOMAIN ask = {"op", "user", "name"}
        /\ ask.op = "search" /\ ask.user \in Users /\ ask.name \in Names
    BY <1>17
  <2>2. QED
    BY <1>1, <2>1, AskedFresh DEF Ops, Creates, ImageOps, NamingOps, Kinds
<1>18. QED
  BY <1>2, <1>3, <1>4, <1>5, <1>6, <1>7, <1>8, <1>9, <1>10, <1>11, <1>12, <1>13, <1>14, <1>15, <1>16, <1>17 DEF Asks, as, bs, ts

-------------------------------------------------------------------------------
(* Where a step leads: to an answer, or to a later step of the request.    *)

\* What no step changes.
Keeps(q, m) ==
    /\ m \in Request
    /\ m.op = q.op /\ m.user = q.user /\ m.kind = q.kind /\ m.name = q.name
    /\ m.global = q.global /\ m.cover = q.cover

\* What only the steps at certain places change.
KeepsMost(q, m) ==
    /\ ~At(q, "insert") => m.artist = q.artist /\ m.album = q.album /\ m.track = q.track
    /\ ~At(q, "load") => m.key = q.key
    /\ ~At(q, "super") => m.unchecked = q.unchecked
    /\ ~(At(q, "tracks") \/ At(q, "albumOfEach") \/ At(q, "searchTracks")) =>
          m.left = q.left /\ m.found = q.found

Follows(q, m) ==
    /\ Underway(m) /\ Keeps(q, m) /\ KeepsMost(q, m)
    /\ \/ m.step = q.step + 1
       \/ At(q, "load") /\ m.step = q.step + 2
       \/ At(q, "albumOfEach") /\ m.step = q.step

Leads(r, q) ==
    \E m : req' = [req EXCEPT ![r] = m] /\ (m = Idle \/ Follows(q, m))

\* What a step makes of the request before it goes on.
Variant(q, v) == Keeps(q, v) /\ KeepsMost(q, v) /\ v.step = q.step

Stepped(q) == [q EXCEPT !.step = @ + 1]

\* A step on changes nothing but the step.
LEMMA SteppedTypes ==
    ASSUME NEW q \in Request
    PROVE  LET m == Stepped(q) IN
           /\ Keeps(q, m) /\ m.step = q.step + 1
           /\ m.artist = q.artist /\ m.album = q.album /\ m.track = q.track /\ m.key = q.key
           /\ m.unchecked = q.unchecked /\ m.left = q.left /\ m.found = q.found
BY DEF Stepped, Request, Keeps

\* The steps depend on the operation and on whether there is an image only.
LEMMA SameSteps ==
    ASSUME NEW q, NEW m, Keeps(q, m)
    PROVE  Steps(m) = Steps(q)
BY DEF Keeps, Steps, CreateSteps

\* Where an active request is.
LEMMA ActiveTypes ==
    ASSUME NEW q, Active(q)
    PROVE  /\ q \in Request /\ q.op # "none" /\ WellAsked(q)
           /\ Len(Steps(q)) = Length(q)
           /\ q.step \in 1..Len(Steps(q))
           /\ \A at : At(q, at) => OpAt(q, at)
<1>1. q \in Request /\ q.op # "none" /\ WellAsked(q)
  BY DEF Active, Fresh, Underway, WellAsked
<1>2. Len(Steps(q)) = Length(q)
  BY <1>1, Layout
<1>3. Length(q) \in Nat \ {0}
  BY <1>1 DEF Length, Request, Ops, Creates, ImageOps
<1>4. q.step \in 1..Len(Steps(q))
  BY <1>2, <1>3 DEF Active, Fresh, Underway
<1>5. QED
  BY <1>1, <1>2, <1>4, Layout

\* A request is at one place.
LEMMA OnePlace ==
    ASSUME NEW q, NEW a, NEW b, At(q, a), At(q, b)
    PROVE  a = b
BY DEF At

\* The step after one that does not load an owner has no key to use.
LEMMA NoKeyNext ==
    ASSUME NEW q, NEW m, NEW at, at # "load", OpAt(q, at),
           m.op = q.op, m.step = q.step + 1
    PROVE  ~OpAt(m, "put") /\ ~OpAt(m, "remove") /\ ~OpAt(m, "get")
BY DEF OpAt, On, Creates, ImageOps, ChangeOps

\* Where a request that has its ids goes on, it is under way.
LEMMA SteppedFollows ==
    ASSUME NEW q, Active(q), NEW at, At(q, at), at # "load",
           NEW v, Variant(q, v), v.step # Len(Steps(v)),
           at = "insert" =>
              /\ v.op \in Creates => OwnerId(v) \in Ids
              /\ v.op = "uploadTrack" => v.track \in Ids
    PROVE  Follows(q, Stepped(v))
<1> DEFINE m == Stepped(v)
<1>1. /\ q \in Request /\ q.op # "none" /\ WellAsked(q) /\ q.step \in 1..Len(Steps(q))
      /\ OpAt(q, at) /\ Len(Steps(q)) = Length(q)
  BY ActiveTypes
<1>2. /\ Keeps(q, v) /\ v.step = q.step /\ v \in Request /\ Steps(v) = Steps(q)
  BY SameSteps DEF Variant, Keeps
<1>3. /\ Keeps(v, m) /\ m.step = v.step + 1
      /\ m.artist = v.artist /\ m.album = v.album /\ m.track = v.track /\ m.key = v.key
      /\ m.unchecked = v.unchecked /\ m.left = v.left /\ m.found = v.found
  BY <1>2, SteppedTypes
<1> HIDE DEF m
<1>4. Keeps(q, m) /\ Steps(m) = Steps(q) /\ m.step = q.step + 1 /\ m \in Request
  <2>1. Keeps(q, m)
    BY <1>2, <1>3 DEF Keeps
  <2>2. QED
    BY <1>2, <1>3, <2>1, SameSteps DEF Keeps
<1>5. KeepsMost(q, m)
  BY <1>3 DEF Variant, KeepsMost
<1>6. m.step \in 2..Len(Steps(m))
  <2>1. Length(q) \in Nat
    BY <1>1 DEF Length, Request, Ops, Creates, ImageOps
  <2>2. QED
    BY <1>1, <1>2, <1>4, <2>1
<1>7. at # "insert" => m.artist = q.artist /\ m.album = q.album /\ m.track = q.track
  <2>1. at # "insert" => ~At(q, "insert")
    BY OnePlace
  <2>2. QED
    BY <2>1, <1>5 DEF KeepsMost
<1>8. m.op = q.op /\ m.kind = q.kind /\ m.name = q.name /\ m.user = q.user
  BY <1>4 DEF Keeps
<1>9. m.op \in ImageOps \union {"deleteArtist", "deleteAlbum"} => OwnerId(m) \in Ids
  <2>1. m.op \in ImageOps \union {"deleteArtist", "deleteAlbum"} => at # "insert"
    BY <1>1, <1>8 DEF OpAt, On, Creates, ImageOps
  <2>2. QED
    BY <1>1, <1>7, <1>8, <2>1 DEF WellAsked, OwnerId
<1>10. WellAsked(m)
  BY <1>1, <1>4, <1>8, <1>9 DEF WellAsked
<1>11. /\ m.op \in Creates => OwnerId(m) \in Ids
       /\ m.op = "uploadTrack" => m.track \in Ids
  <2>1. CASE at = "insert"
    <3>1. m.op = v.op /\ m.kind = v.kind /\ m.artist = v.artist /\ m.album = v.album /\ m.track = v.track
      BY <1>3 DEF Keeps
    <3>2. QED
      BY <2>1, <3>1 DEF OwnerId
  <2>2. CASE at # "insert"
    <3>1. m.op \in Creates \union {"uploadTrack"} => Underway(q)
      BY <1>1, <1>8, <2>2 DEF Active, Fresh, OpAt, On, Creates, ImageOps, ChangeOps
    <3>2. QED
      BY <1>7, <1>8, <2>2, <3>1 DEF Underway, OwnerId
  <2>3. QED
    BY <2>1, <2>2
<1>12. ~At(m, "put") /\ ~At(m, "remove") /\ ~At(m, "get")
  <2>1. ~OpAt(m, "put") /\ ~OpAt(m, "remove") /\ ~OpAt(m, "get")
    BY <1>1, <1>4, <1>8, NoKeyNext
  <2>2. m.step \in 1..Len(Steps(m)) /\ m.op # "none"
    BY <1>1, <1>6, <1>8, <1>4
  <2>3. QED
    BY <1>4, <2>1, <2>2, Layout
<1>13. Underway(m)
  BY <1>6, <1>10, <1>11, <1>12 DEF Underway
<1>14. QED
  BY <1>4, <1>5, <1>13 DEF Follows, m

\* An answer ends the request.
LEMMA AnswerLeads ==
    ASSUME NEW r, NEW q, NEW v, NEW err, Answer(r, v, err)
    PROVE  Leads(r, q)
BY DEF Answer, Leads

\* A step that proceeds answers, or leads to the next.
LEMMA ProceedsLeads ==
    ASSUME NEW r, NEW q, Active(q), NEW at, At(q, at), at # "load",
           NEW v, Variant(q, v), Proceeds(r, v),
           at = "insert" =>
              /\ v.op \in Creates => OwnerId(v) \in Ids
              /\ v.op = "uploadTrack" => v.track \in Ids
    PROVE  Leads(r, q)
<1>1. CASE v.step = Len(Steps(v))
  BY <1>1, AnswerLeads DEF Proceeds
<1>2. CASE v.step # Len(Steps(v))
  <2>1. Follows(q, Stepped(v))
    BY <1>2, SteppedFollows
  <2>2. QED
    BY <1>2, <2>1 DEF Proceeds, Go, Leads, Stepped
<1>3. QED
  BY <1>1, <1>2

\* So does every other way in which a step may end.
LEMMA EndsLeads ==
    ASSUME NEW r, NEW q, NEW v, NEW err, Ends(r, v, err) \/ Fails(r, v)
    PROVE  Leads(r, q)
BY AnswerLeads DEF Ends, Fails

\* So does one whose reply may be lost.
LEMMA DoneLeads ==
    ASSUME NEW r, NEW q, Active(q), NEW at, At(q, at), at # "load",
           NEW v, Variant(q, v), Done(r, v),
           at = "insert" =>
              /\ v.op \in Creates => OwnerId(v) \in Ids
              /\ v.op = "uploadTrack" => v.track \in Ids
    PROVE  Leads(r, q)
BY ProceedsLeads, EndsLeads DEF Done

\* A request that has not changed is a variant of itself.
LEMMA SameVariant ==
    ASSUME NEW q \in Request
    PROVE  Variant(q, q)
BY DEF Variant, Keeps, KeepsMost

\* The name of an owner, or that there is none.
LEMMA Named ==
    ASSUME TypeOK, NEW kind \in Kinds, NEW i \in Ids
    PROVE  NameOf(kind, i) \in Names \union {Unnamed}
<1>1. artists[i] \in Names \union {Unnamed}
  BY DEF TypeOK
<1>2. albums[i].name \in Names \union {Unnamed}
  BY DEF TypeOK, Album, NoAlbum
<1>3. QED
  BY <1>1, <1>2 DEF NameOf

\* A request that loads an owner is about one.
LEMMA LoadedOwner ==
    ASSUME NEW q, Active(q), At(q, "load")
    PROVE  OwnerId(q) \in Ids /\ q.kind \in Kinds
<1>1. OpAt(q, "load") /\ WellAsked(q) /\ q \in Request
  BY ActiveTypes
<1>2. q.op \in Creates => Underway(q)
  BY <1>1 DEF OpAt, On, Creates, ImageOps, Active, Fresh
<1>3. OwnerId(q) \in Ids
  BY <1>1, <1>2 DEF OpAt, On, WellAsked, Underway
<1>4. QED
  BY <1>1, <1>3 DEF Request

KeyOf(q) == [kind |-> q.kind, id |-> OwnerId(q), name |-> NameOf(q.kind, OwnerId(q))]

\* With the key of what the owner is called, or past the removal of an image.
Loads(q, m) ==
    \/ m.step = q.step + 1 /\ m.key = KeyOf(q) /\ KeyOf(q) \in Key
    \/ m.step = q.step + 2 /\ NameOf(q.kind, OwnerId(q)) = Unnamed

\* The key of an owner that is there.
LEMMA KeyType ==
    ASSUME TypeOK, NEW q, Active(q), At(q, "load"), NameOf(q.kind, OwnerId(q)) # Unnamed
    PROVE  KeyOf(q) \in Key
<1>1. OwnerId(q) \in Ids /\ q.kind \in Kinds
  BY LoadedOwner
<1>2. NameOf(q.kind, OwnerId(q)) \in Names
  BY <1>1, Named
<1>3. QED
  BY <1>1, <1>2 DEF KeyOf, Key

\* It takes the key of an image.
LEMMA KeyTaken ==
    ASSUME NEW q \in Request, NEW k \in Key
    PROVE  LET m == Stepped([q EXCEPT !.key = k]) IN
           /\ Keeps(q, m) /\ m.step = q.step + 1 /\ m.key = k
           /\ m.artist = q.artist /\ m.album = q.album /\ m.track = q.track
           /\ m.unchecked = q.unchecked /\ m.left = q.left /\ m.found = q.found
<1> DEFINE v == [q EXCEPT !.key = k]
<1>1. /\ Keeps(q, v) /\ v.step = q.step /\ v.key = k
      /\ v.artist = q.artist /\ v.album = q.album /\ v.track = q.track
      /\ v.unchecked = q.unchecked /\ v.left = q.left /\ v.found = q.found
  BY DEF Request, Keeps
<1> HIDE DEF v
<1>2. v \in Request
  BY <1>1 DEF Keeps
<1>3. QED
  BY <1>1, <1>2, SteppedTypes DEF Keeps, v

\* It goes on with nothing to remove.
LEMMA TwoSteps ==
    ASSUME NEW q \in Request
    PROVE  LET m == Stepped(Stepped(q)) IN
           /\ Keeps(q, m) /\ m.step = q.step + 2 /\ m.key = q.key
           /\ m.artist = q.artist /\ m.album = q.album /\ m.track = q.track
           /\ m.unchecked = q.unchecked /\ m.left = q.left /\ m.found = q.found
<1>1. Stepped(q) \in Request /\ q.step \in Nat
  BY SteppedTypes DEF Keeps, Request
<1>2. QED
  BY <1>1, SteppedTypes DEF Keeps

\* What follows a load is under way.
LEMMA LoadFollows ==
    ASSUME TypeOK, NEW q, Active(q), At(q, "load"),
           NEW m, Keeps(q, m), Loads(q, m), m.step <= Len(Steps(q)),
           m.artist = q.artist /\ m.album = q.album /\ m.track = q.track,
           m.unchecked = q.unchecked /\ m.left = q.left /\ m.found = q.found
    PROVE  Follows(q, m)
<1>1. /\ q \in Request /\ q.op # "none" /\ WellAsked(q) /\ q.step \in 1..Len(Steps(q))
      /\ OpAt(q, "load") /\ Len(Steps(q)) = Length(q)
  BY ActiveTypes
<1>2. m \in Request /\ m.op = q.op /\ m.kind = q.kind /\ m.name = q.name /\ m.user = q.user
      /\ Steps(m) = Steps(q)
  BY SameSteps DEF Keeps
<1>3. OwnerId(m) = OwnerId(q) /\ OwnerId(q) \in Ids
  BY <1>2, LoadedOwner DEF OwnerId
<1>4. WellAsked(m)
  BY <1>1, <1>2, <1>3 DEF WellAsked
<1>5. m.step \in 2..Len(Steps(m))
  <2>1. Length(q) \in Nat
    BY <1>1 DEF Length, Request, Ops, Creates, ImageOps
  <2>2. QED
    BY <1>1, <1>2, <2>1 DEF Loads
<1>6. m.op # "uploadTrack"
  BY <1>1, <1>2 DEF OpAt, On, Creates, ImageOps
<1>7. At(m, "put") \/ At(m, "remove") \/ At(m, "get") => m.step = q.step + 1
  <2>1. m.step \in 1..Len(Steps(m)) /\ m.op # "none"
    BY <1>1, <1>2, <1>5
  <2>2. At(m, "put") \/ At(m, "remove") \/ At(m, "get") =>
           OpAt(m, "put") \/ OpAt(m, "remove") \/ OpAt(m, "get")
    BY <1>2, <2>1, Layout
  <2>3. m.step = q.step + 2 => ~OpAt(m, "put") /\ ~OpAt(m, "remove") /\ ~OpAt(m, "get")
    BY <1>1, <1>2 DEF OpAt, On, Creates, ImageOps
  <2>4. QED
    BY <2>2, <2>3 DEF Loads
<1>8. m.step = q.step + 1 => m.key \in Key /\ m.key.kind = m.kind /\ m.key.id = OwnerId(m)
  <2>1. m.step = q.step + 1 => m.key = KeyOf(q) /\ KeyOf(q) \in Key
    BY <1>1 DEF Loads, Request
  <2>2. KeyOf(q).kind = q.kind /\ KeyOf(q).id = OwnerId(q)
    BY DEF KeyOf
  <2>3. QED
    BY <1>2, <1>3, <2>1, <2>2
<1>9. Underway(m)
  BY <1>3, <1>4, <1>5, <1>6, <1>7, <1>8 DEF Underway
<1>10. KeepsMost(q, m)
  BY DEF KeepsMost
<1>11. QED
  BY <1>9, <1>10 DEF Follows, Loads

\* A load leads to an answer, to the step that uses the key, or past it.
LEMMA LoadLeads ==
    ASSUME TypeOK, NEW r, NEW q, Active(q), LoadArtworkOwner(r, q)
    PROVE  \E m : /\ req' = [req EXCEPT ![r] = m]
                  /\ m = Idle \/ (Follows(q, m) /\ Loads(q, m))
<1>1. q \in Request /\ At(q, "load") /\ q.step \in 1..Len(Steps(q)) /\ Len(Steps(q)) = Length(q)
  BY ActiveTypes DEF LoadArtworkOwner
<1>2. Length(q) \in Nat /\ q.step \in Nat
  BY <1>1, ActiveTypes DEF Length, Request, Ops, Creates, ImageOps
<1>3. ASSUME NEW v, NEW err, Answer(r, v, err)
      PROVE  \E m : req' = [req EXCEPT ![r] = m] /\ (m = Idle \/ (Follows(q, m) /\ Loads(q, m)))
  BY <1>3 DEF Answer
<1>4. ASSUME NameOf(q.kind, OwnerId(q)) # Unnamed, Proceeds(r, [q EXCEPT !.key = KeyOf(q)])
      PROVE  \E m : req' = [req EXCEPT ![r] = m] /\ (m = Idle \/ (Follows(q, m) /\ Loads(q, m)))
  <2> DEFINE v == [q EXCEPT !.key = KeyOf(q)]
             m == Stepped(v)
  <2>1. KeyOf(q) \in Key
    BY <1>1, <1>4, KeyType
  <2>2. /\ Keeps(q, m) /\ m.step = q.step + 1 /\ m.key = KeyOf(q)
        /\ m.artist = q.artist /\ m.album = q.album /\ m.track = q.track
        /\ m.unchecked = q.unchecked /\ m.left = q.left /\ m.found = q.found
    BY <1>1, <2>1, KeyTaken
  <2>3. v.step = q.step /\ Steps(v) = Steps(q)
    BY <1>1 DEF Request, Steps, CreateSteps
  <2>4. CASE v.step = Len(Steps(v))
    BY <1>3, <1>4, <2>4 DEF Proceeds
  <2>5. CASE v.step # Len(Steps(v))
    <3>1. req' = [req EXCEPT ![r] = m]
      BY <1>4, <2>5 DEF Proceeds, Go, Stepped
    <3> HIDE DEF m
    <3>2. m.step <= Len(Steps(q))
      BY <1>1, <1>2, <2>2, <2>3, <2>5
    <3>3. Loads(q, m)
      BY <2>1, <2>2 DEF Loads
    <3>4. Follows(q, m)
      BY <1>1, <2>2, <3>2, <3>3, LoadFollows
    <3>5. QED
      BY <3>1, <3>3, <3>4
  <2>6. QED
    BY <2>4, <2>5
<1>5. ASSUME NameOf(q.kind, OwnerId(q)) = Unnamed, Proceeds(r, [q EXCEPT !.step = @ + 1])
      PROVE  \E m : req' = [req EXCEPT ![r] = m] /\ (m = Idle \/ (Follows(q, m) /\ Loads(q, m)))
  <2> DEFINE v == Stepped(q)
             m == Stepped(v)
  <2>1. /\ Keeps(q, m) /\ m.step = q.step + 2
        /\ m.artist = q.artist /\ m.album = q.album /\ m.track = q.track
        /\ m.unchecked = q.unchecked /\ m.left = q.left /\ m.found = q.found
    BY <1>1, TwoSteps
  <2>2. v.step = q.step + 1 /\ Steps(v) = Steps(q) /\ Proceeds(r, v)
    BY <1>1, <1>5, SteppedTypes, SameSteps DEF Stepped
  <2> HIDE DEF v
  <2>3. CASE v.step = Len(Steps(v))
    BY <1>3, <2>2, <2>3 DEF Proceeds
  <2>4. CASE v.step # Len(Steps(v))
    <3>1. req' = [req EXCEPT ![r] = m]
      BY <2>2, <2>4 DEF Proceeds, Go, Stepped
    <3> HIDE DEF m
    <3>2. Loads(q, m)
      BY <1>5, <2>1 DEF Loads
    <3>3. CASE m.step <= Len(Steps(q))
      <4>1. Follows(q, m)
        BY <1>1, <2>1, <3>2, <3>3, LoadFollows
      <4>2. QED
        BY <3>1, <3>2, <4>1
    <3>4. CASE ~(m.step <= Len(Steps(q)))
      <4>1. q.step < Length(q)
        BY <1>1, ActiveTypes DEF OpAt, On, Length, Creates, ImageOps
      <4>2. QED
        BY <1>1, <1>2, <2>1, <2>2, <2>4, <3>4, <4>1
    <3>5. QED
      BY <3>3, <3>4
  <2>5. QED
    BY <2>3, <2>4
<1>6. QED
  BY <1>3, <1>4, <1>5 DEF LoadArtworkOwner, Ends, Fails, KeyOf

\* A request whose check was not made.
LEMMA CheckMissed ==
    ASSUME NEW q \in Request
    PROVE  LET m == [q EXCEPT !.unchecked = TRUE] IN
           /\ Keeps(q, m) /\ m.step = q.step /\ m.unchecked
           /\ m.artist = q.artist /\ m.album = q.album /\ m.track = q.track /\ m.key = q.key
           /\ m.left = q.left /\ m.found = q.found
<1> DEFINE m == [q EXCEPT !.unchecked = TRUE]
<1>1. m \in Request
  BY DEF Request
<1>2. QED
  BY <1>1 DEF Request, Keeps

\* What a list or a search has found.
LEMMA ListTaken ==
    ASSUME NEW q \in Request, NEW L \in SUBSET Ids, NEW F \in SUBSET Ids
    PROVE  /\ LET m == [q EXCEPT !.left = L] IN
              /\ Keeps(q, m) /\ m.step = q.step /\ m.key = q.key /\ m.unchecked = q.unchecked
              /\ m.artist = q.artist /\ m.album = q.album /\ m.track = q.track
              /\ m.left = L /\ m.found = q.found
           /\ LET m == [q EXCEPT !.found = F] IN
              /\ Keeps(q, m) /\ m.step = q.step /\ m.key = q.key /\ m.unchecked = q.unchecked
              /\ m.artist = q.artist /\ m.album = q.album /\ m.track = q.track
              /\ m.left = q.left /\ m.found = F
           /\ LET m == [q EXCEPT !.left = L, !.found = F] IN
              /\ Keeps(q, m) /\ m.step = q.step /\ m.key = q.key /\ m.unchecked = q.unchecked
              /\ m.artist = q.artist /\ m.album = q.album /\ m.track = q.track
              /\ m.left = L /\ m.found = F
<1>1. LET m == [q EXCEPT !.left = L] IN
      /\ Keeps(q, m) /\ m.step = q.step /\ m.key = q.key /\ m.unchecked = q.unchecked
      /\ m.artist = q.artist /\ m.album = q.album /\ m.track = q.track
      /\ m.left = L /\ m.found = q.found
  BY DEF Request, Keeps
<1>2. LET m == [q EXCEPT !.found = F] IN
      /\ Keeps(q, m) /\ m.step = q.step /\ m.key = q.key /\ m.unchecked = q.unchecked
      /\ m.artist = q.artist /\ m.album = q.album /\ m.track = q.track
      /\ m.left = q.left /\ m.found = F
  BY DEF Request, Keeps
<1>3. LET m == [q EXCEPT !.left = L, !.found = F] IN
      /\ Keeps(q, m) /\ m.step = q.step /\ m.key = q.key /\ m.unchecked = q.unchecked
      /\ m.artist = q.artist /\ m.album = q.album /\ m.track = q.track
      /\ m.left = L /\ m.found = F
  BY DEF Request, Keeps
<1>4. QED
  BY <1>1, <1>2, <1>3

\* The id that an insertion gives out.
LEMMA IdTaken ==
    ASSUME NEW q \in Request, NEW i \in Nat
    PROVE  /\ LET m == [q EXCEPT !.artist = i] IN
              /\ Keeps(q, m) /\ m.step = q.step /\ m.key = q.key /\ m.unchecked = q.unchecked
              /\ m.artist = i /\ m.left = q.left /\ m.found = q.found
           /\ LET m == [q EXCEPT !.album = i] IN
              /\ Keeps(q, m) /\ m.step = q.step /\ m.key = q.key /\ m.unchecked = q.unchecked
              /\ m.album = i /\ m.left = q.left /\ m.found = q.found
<1>1. LET m == [q EXCEPT !.artist = i] IN
      /\ Keeps(q, m) /\ m.step = q.step /\ m.key = q.key /\ m.unchecked = q.unchecked
      /\ m.artist = i /\ m.left = q.left /\ m.found = q.found
  BY DEF Request, Keeps
<1>2. LET m == [q EXCEPT !.album = i] IN
      /\ Keeps(q, m) /\ m.step = q.step /\ m.key = q.key /\ m.unchecked = q.unchecked
      /\ m.album = i /\ m.left = q.left /\ m.found = q.found
  BY DEF Request, Keeps
<1>3. QED
  BY <1>1, <1>2

\* The ids of a track and the album that it is in.
WithTrack(q, i, j) == [q EXCEPT !.track = i, !.album = j]

\* An insertion of a track gives out these ids, and changes nothing else.
LEMMA IdsTaken ==
    ASSUME NEW q \in Request, NEW i \in Nat, NEW j \in Nat
    PROVE  LET m == WithTrack(q, i, j) IN
           /\ Keeps(q, m) /\ m.step = q.step /\ m.key = q.key /\ m.unchecked = q.unchecked
           /\ m.track = i /\ m.album = j /\ m.left = q.left /\ m.found = q.found
BY DEF WithTrack, Request, Keeps

\* A change is let through for a superuser, or because the check could not be made.
Passes(q, m) ==
    \/ q.user \in Superusers
    \/ m.unchecked /\ q.op \notin {"deleteTrack", "updateTrack"}

\* Behind the check a request is one that passes.
LEMMA SuperLeads ==
    ASSUME NEW r, NEW q, Active(q), CheckSuperuser(r, q)
    PROVE  \E m : /\ req' = [req EXCEPT ![r] = m]
                  /\ m = Idle \/ (Follows(q, m) /\ Passes(q, m))
<1>1. /\ q \in Request /\ At(q, "super") /\ q.step \in 1..Len(Steps(q)) /\ Len(Steps(q)) = Length(q)
      /\ OpAt(q, "super")
  BY ActiveTypes DEF CheckSuperuser
<1>2. q.step = 1 /\ Len(Steps(q)) # 1
  BY <1>1 DEF OpAt, On, Length, ChangeOps, Creates, ImageOps
<1>3. ASSUME NEW err, Answer(r, q, err)
      PROVE  \E m : req' = [req EXCEPT ![r] = m] /\ (m = Idle \/ (Follows(q, m) /\ Passes(q, m)))
  BY <1>3 DEF Answer
<1>4. ASSUME q.user \in Superusers, Proceeds(r, q)
      PROVE  \E m : req' = [req EXCEPT ![r] = m] /\ (m = Idle \/ (Follows(q, m) /\ Passes(q, m)))
  <2>1. Follows(q, Stepped(q))
    BY <1>1, <1>2, SameVariant, SteppedFollows
  <2>2. req' = [req EXCEPT ![r] = Stepped(q)]
    BY <1>2, <1>4 DEF Proceeds, Go, Stepped
  <2>3. QED
    BY <1>4, <2>1, <2>2 DEF Passes
<1>5. ASSUME q.op \notin {"deleteTrack", "updateTrack"},
             Go(r, [q EXCEPT !.step = @ + 1, !.unchecked = TRUE])
      PROVE  \E m : req' = [req EXCEPT ![r] = m] /\ (m = Idle \/ (Follows(q, m) /\ Passes(q, m)))
  <2> DEFINE v == [q EXCEPT !.unchecked = TRUE]
  <2>1. Variant(q, v) /\ v.unchecked
    BY <1>1, CheckMissed DEF Variant, KeepsMost
  <2>2. [q EXCEPT !.step = @ + 1, !.unchecked = TRUE] = Stepped(v)
    BY <1>1 DEF Request, Stepped
  <2> HIDE DEF v
  <2>3. v \in Request /\ v.step = q.step /\ Steps(v) = Steps(q)
    BY <2>1, SameSteps DEF Variant, Keeps
  <2>4. Follows(q, Stepped(v)) /\ Stepped(v).unchecked
    BY <1>1, <1>2, <2>1, <2>3, SteppedFollows, SteppedTypes
  <2>5. QED
    BY <1>5, <2>2, <2>4 DEF Go, Passes
<1>6. QED
  BY <1>3, <1>4, <1>5 DEF CheckSuperuser, RequireSuperuser, AuthorizeTrackChange, Ends, Fails

\* A list goes on with the next of its tracks.
LEMMA StayLeads ==
    ASSUME NEW r, NEW q, Active(q), At(q, "albumOfEach"), NEW v, Variant(q, v), Go(r, v)
    PROVE  Leads(r, q)
<1>1. /\ q \in Request /\ WellAsked(q) /\ q.step \in 1..Len(Steps(q)) /\ OpAt(q, "albumOfEach")
  BY ActiveTypes
<1>2. q.op = "getTracks" /\ q.step = 3
  BY <1>1 DEF OpAt, On
<1>3. /\ v \in Request /\ v.op = q.op /\ v.step = q.step /\ Steps(v) = Steps(q)
  BY SameSteps DEF Variant, Keeps
<1>4. WellAsked(v)
  BY <1>1, <1>2, <1>3 DEF WellAsked, NamingOps, Creates, ImageOps
<1>5. ~At(v, "put") /\ ~At(v, "remove") /\ ~At(v, "get")
  <2>1. v.op # "none" /\ v.step \in 1..Len(Steps(v))
    BY <1>1, <1>2, <1>3
  <2>2. ~OpAt(v, "put") /\ ~OpAt(v, "remove") /\ ~OpAt(v, "get")
    BY <1>2, <1>3 DEF OpAt, On, Creates
  <2>3. QED
    BY <1>3, <2>1, <2>2, Layout
<1>6. Underway(v)
  BY <1>1, <1>2, <1>3, <1>4, <1>5 DEF Underway, Creates
<1>7. QED
  BY <1>6 DEF Leads, Follows, Variant, Go

\* What these steps make of a request.
LEMMA ListVariants ==
    ASSUME NEW q \in Request, NEW L \in SUBSET Ids, NEW F \in SUBSET Ids,
           At(q, "tracks") \/ At(q, "albumOfEach") \/ At(q, "searchTracks")
    PROVE  /\ Variant(q, [q EXCEPT !.left = L])
           /\ Variant(q, [q EXCEPT !.found = F])
           /\ Variant(q, [q EXCEPT !.left = L, !.found = F])
<1>1. ASSUME NEW m, Keeps(q, m), m.step = q.step, m.key = q.key, m.unchecked = q.unchecked,
             m.artist = q.artist /\ m.album = q.album /\ m.track = q.track
      PROVE  Variant(q, m)
  BY <1>1 DEF Variant, KeepsMost
<1>2. QED
  BY <1>1, ListTaken

\* What DeleteTrack has read.
LEMMA TitleTaken ==
    ASSUME NEW q \in Request, NEW x \in (Names \union {Unnamed}) \X Nat, NEW e \in BOOLEAN
    PROVE  /\ LET v == [q EXCEPT !.title = x] IN Variant(q, v) /\ v.title = x
           /\ LET v == [q EXCEPT !.single = e] IN
              Variant(q, v) /\ v.title = q.title /\ v.single = e
<1>1. LET v == [q EXCEPT !.title = x] IN Variant(q, v) /\ v.title = x
  BY DEF Request, Variant, Keeps, KeepsMost
<1>2. LET v == [q EXCEPT !.single = e] IN Variant(q, v) /\ v.title = q.title /\ v.single = e
  BY DEF Request, Variant, Keeps, KeepsMost
<1>3. QED
  BY <1>1, <1>2

\* What the names of filed tracks and of albums are.
LEMMA TitleTypes ==
    ASSUME TypeOK
    PROVE  /\ \A t : Filings(t) \subseteq Names \X Ids
           /\ Titles \subseteq Names \X Ids
<1>1. \A t : TrackExists(t) => tracks[t].name \in Names
  BY DEF TypeOK, TrackExists, Track
<1>2. \A b \in Ids : AlbumExists(b) => albums[b].name \in Names
  BY DEF TypeOK, AlbumExists, Album
<1>3. \A t : \A b \in AlbumsOf(t) : b \in Ids /\ TrackExists(t)
  <2>1. ASSUME NEW t, NEW b \in AlbumsOf(t)
        PROVE  b \in Ids /\ TrackExists(t)
    BY <2>1 DEF AlbumsOf, TypeOK
  <2>2. QED
    BY <2>1
<1>4. QED
  BY <1>1, <1>2, <1>3 DEF Filings, Titles

\* What the two reads make of a request.
Titled(q, m) ==
    \/ At(q, "readTrack") /\ m.title \in Filings(q.track)
    \/ At(q, "readAlbum") /\ m.title = q.title /\ (m.single => q.title \in Titles)

\* They lead to an answer or to the next.
LEMMA TitleLeads ==
    ASSUME TypeOK, NEW r, NEW q, Active(q), ReadDeletedTrack(r, q)
    PROVE  \E m : /\ req' = [req EXCEPT ![r] = m]
                  /\ m = Idle \/ (Follows(q, m) /\ Titled(q, m))
<1>1. q \in Request /\ (q.title \in Titles) \in BOOLEAN
  BY ActiveTypes
<1>2. ASSUME NEW err, Answer(r, q, err)
      PROVE  \E m : req' = [req EXCEPT ![r] = m] /\ (m = Idle \/ (Follows(q, m) /\ Titled(q, m)))
  BY <1>2 DEF Answer
<1>3. ASSUME NEW v, Variant(q, v), NEW at \in {"readTrack", "readAlbum"}, At(q, at), Proceeds(r, v),
             Titled(q, Stepped(v))
      PROVE  \E m : req' = [req EXCEPT ![r] = m] /\ (m = Idle \/ (Follows(q, m) /\ Titled(q, m)))
  <2>1. CASE v.step = Len(Steps(v))
    BY <1>3, <2>1 DEF Proceeds, Answer
  <2>2. CASE v.step # Len(Steps(v))
    <3>1. Follows(q, Stepped(v))
      BY <1>3, <2>2, SteppedFollows
    <3>2. QED
      BY <1>3, <2>2, <3>1 DEF Proceeds, Go, Stepped
  <2>3. QED
    BY <2>1, <2>2
<1>4. ASSUME At(q, "readTrack"), NEW x \in Filings(q.track), Proceeds(r, [q EXCEPT !.title = x])
      PROVE  \E m : req' = [req EXCEPT ![r] = m] /\ (m = Idle \/ (Follows(q, m) /\ Titled(q, m)))
  <2> DEFINE v == [q EXCEPT !.title = x]
  <2>1. x \in (Names \union {Unnamed}) \X Nat
    BY <1>4, TitleTypes, Numbers
  <2>2. Variant(q, v) /\ v.title = x
    BY <1>1, <2>1, TitleTaken
  <2> HIDE DEF v
  <2>3. Stepped(v).title = x
    BY <2>2 DEF Stepped, Variant, Keeps, Request
  <2>4. QED
    BY <1>3, <1>4, <2>2, <2>3 DEF Titled, v
<1>5. ASSUME At(q, "readAlbum"), Proceeds(r, [q EXCEPT !.single = (q.title \in Titles)])
      PROVE  \E m : req' = [req EXCEPT ![r] = m] /\ (m = Idle \/ (Follows(q, m) /\ Titled(q, m)))
  <2>e. PICK e \in BOOLEAN : e = (q.title \in Titles)
    BY <1>1
  <2> DEFINE v == [q EXCEPT !.single = e]
  <2>1. <<Unnamed, 0>> \in (Names \union {Unnamed}) \X Nat
    OBVIOUS
  <2>2. Variant(q, v) /\ v.title = q.title /\ v.single = e
    BY <1>1, <2>1, TitleTaken
  <2>3. Proceeds(r, v)
    BY <1>5, <2>e
  <2> HIDE DEF v
  <2>4. Stepped(v).title = q.title /\ Stepped(v).single = e
    BY <2>2 DEF Stepped, Variant, Keeps, Request
  <2>5. QED
    BY <1>3, <1>5, <2>e, <2>2, <2>3, <2>4 DEF Titled
<1>6. QED
  BY <1>2, <1>4, <1>5 DEF ReadDeletedTrack, Ends, Fails

\* The steps of lists and searches.
LEMMA ListLeads ==
    ASSUME NEW r, NEW q, Active(q), ListTracks(r, q) \/ FileTracks(r, q) \/ Search(r, q)
    PROVE  Leads(r, q)
<1>1. q \in Request
  BY ActiveTypes
<1>2. q.left \in SUBSET Ids /\ q.found \in SUBSET Ids
  BY <1>1 DEF Request
<1>3. CASE ListTracks(r, q)
  <2> DEFINE v == [q EXCEPT !.left = GetTracksFor(q.user)]
  <2>1. GetTracksFor(q.user) \in SUBSET Ids
    BY DEF GetTracksFor, GetAllTracks, GetUserTracks
  <2>2. At(q, "tracks") => Variant(q, v)
    BY <1>1, <1>2, <2>1, ListVariants
  <2>3. At(q, "tracks") /\ Proceeds(r, v) => Leads(r, q)
    BY <2>2, ProceedsLeads
  <2>4. At(q, "user") /\ Done(r, q) => Leads(r, q)
    BY <1>1, SameVariant, DoneLeads
  <2>5. QED
    BY <1>3, <2>3, <2>4, EndsLeads DEF ListTracks
<1>4. CASE FileTracks(r, q)
  <2>1. At(q, "albumOfEach")
    BY <1>4 DEF FileTracks
  <2>2. ASSUME NEW t \in q.left,
               LET next == [q EXCEPT !.left = @ \ {t}, !.found = @ \union ({t} \intersect FiledTracks)]
               IN IF next.left = {} THEN Proceeds(r, next) ELSE NoFault /\ Go(r, next)
        PROVE  Leads(r, q)
    <3> DEFINE L == q.left \ {t}
               F == q.found \union ({t} \intersect FiledTracks)
               v == [q EXCEPT !.left = L, !.found = F]
    <3>1. L \in SUBSET Ids /\ F \in SUBSET Ids
      BY <1>2 DEF FiledTracks, TracksIn
    <3>2. Variant(q, v)
      <4> HIDE DEF L, F
      <4>1. QED
        BY <1>1, <2>1, <3>1, ListVariants
    <3>3. [q EXCEPT !.left = @ \ {t}, !.found = @ \union ({t} \intersect FiledTracks)] = v
      BY <1>1 DEF Request
    <3>4. Proceeds(r, v) \/ Go(r, v)
      BY <2>2, <3>3
    <3> HIDE DEF v
    <3>5. QED
      BY <2>1, <3>2, <3>4, ProceedsLeads, StayLeads
  <2>3. QED
    BY <1>4, <2>2, EndsLeads DEF FileTracks
<1>5. CASE Search(r, q)
  <2> DEFINE v == [q EXCEPT !.found = SearchTracks(q.user, q.name)]
  <2>1. SearchTracks(q.user, q.name) \in SUBSET Ids
    BY DEF SearchTracks, GetUserTracks
  <2>2. At(q, "searchTracks") => Variant(q, v)
    BY <1>1, <1>2, <2>1, ListVariants
  <2>3. At(q, "searchTracks") /\ Done(r, v) => Leads(r, q)
    BY <2>2, DoneLeads
  <2>4. (At(q, "searchArtists") \/ At(q, "searchAlbums")) /\ Done(r, q) => Leads(r, q)
    BY <1>1, SameVariant, DoneLeads
  <2>5. QED
    BY <1>5, <2>3, <2>4 DEF Search
<1>6. QED
  BY <1>3, <1>4, <1>5

\* There is an id left in each sequence.
Room ==
    /\ created.artist \in Nat /\ created.album \in Nat /\ created.track \in Nat
    /\ created.artist + 1 \in Ids /\ created.album + 1 \in Ids /\ created.track + 1 \in Ids

\* What these steps make of a request.
LEMMA InsertVariants ==
    ASSUME NEW q \in Request, At(q, "insert"), NEW i \in Nat, NEW j \in Nat
    PROVE  /\ LET v == [q EXCEPT !.artist = i] IN
              Variant(q, v) /\ v.artist = i /\ Keeps(q, v)
           /\ LET v == [q EXCEPT !.album = j] IN
              Variant(q, v) /\ v.album = j /\ Keeps(q, v)
           /\ LET v == WithTrack(q, i, j) IN
              Variant(q, v) /\ v.track = i /\ v.album = j /\ Keeps(q, v)
<1>1. ASSUME NEW v, Keeps(q, v), v.step = q.step, v.key = q.key, v.unchecked = q.unchecked,
             v.left = q.left /\ v.found = q.found
      PROVE  Variant(q, v)
  BY <1>1 DEF Variant, KeepsMost
<1>2. LET v == [q EXCEPT !.artist = i] IN Variant(q, v) /\ v.artist = i /\ Keeps(q, v)
  <2> DEFINE v == [q EXCEPT !.artist = i]
  <2>1. /\ Keeps(q, v) /\ v.step = q.step /\ v.key = q.key /\ v.unchecked = q.unchecked
        /\ v.artist = i /\ v.left = q.left /\ v.found = q.found
    BY IdTaken
  <2> HIDE DEF v
  <2>2. Variant(q, v)
    BY <1>1, <2>1
  <2>3. QED
    BY <2>1, <2>2 DEF v
<1>3. LET v == [q EXCEPT !.album = j] IN Variant(q, v) /\ v.album = j /\ Keeps(q, v)
  <2> DEFINE v == [q EXCEPT !.album = j]
  <2>1. /\ Keeps(q, v) /\ v.step = q.step /\ v.key = q.key /\ v.unchecked = q.unchecked
        /\ v.album = j /\ v.left = q.left /\ v.found = q.found
    BY IdTaken
  <2> HIDE DEF v
  <2>2. Variant(q, v)
    BY <1>1, <2>1
  <2>3. QED
    BY <2>1, <2>2 DEF v
<1>4. LET v == WithTrack(q, i, j) IN
      Variant(q, v) /\ v.track = i /\ v.album = j /\ Keeps(q, v)
  <2> DEFINE v == WithTrack(q, i, j)
  <2>1. /\ Keeps(q, v) /\ v.step = q.step /\ v.key = q.key /\ v.unchecked = q.unchecked
        /\ v.track = i /\ v.album = j /\ v.left = q.left /\ v.found = q.found
    BY IdsTaken
  <2> HIDE DEF v
  <2>2. Variant(q, v)
    BY <1>1, <2>1
  <2>3. QED
    BY <2>1, <2>2 DEF v
<1>5. QED
  BY <1>2, <1>3, <1>4

\* The steps that give out ids.
LEMMA InsertLeads ==
    ASSUME Room, NEW r, NEW q, Active(q),
           CreateArtist(r, q) \/ CreateAlbum(r, q) \/ CreateTrackWithAlbum(r, q)
    PROVE  Leads(r, q)
<1>1. q \in Request /\ At(q, "insert") /\ q.album \in Nat /\ WellAsked(q)
  BY ActiveTypes DEF CreateArtist, CreateAlbum, CreateTrackWithAlbum, Request
<1>3. CASE CreateArtist(r, q)
  <2> DEFINE a == created.artist + 1
             v == [q EXCEPT !.artist = a]
  <2>1. q.op = "createArtist" /\ q.kind = "artist" /\ a \in Nat /\ a \in Ids
    BY <1>1, <1>3 DEF CreateArtist, Room, WellAsked
  <2>2. Variant(q, v) /\ v.artist = a /\ Keeps(q, v)
    <3> HIDE DEF a
    <3>1. QED
      BY <1>1, <2>1, InsertVariants
  <2>3. v.op = "createArtist" /\ OwnerId(v) \in Ids
    BY <2>1, <2>2 DEF OwnerId, Keeps
  <2>4. Done(r, v) => Leads(r, q)
    <3> HIDE DEF v
    <3>1. QED
      BY <1>1, <2>2, <2>3, DoneLeads
  <2>5. QED
    BY <1>3, <2>4, EndsLeads DEF CreateArtist
<1>4. CASE CreateAlbum(r, q)
  <2> DEFINE b == created.album + 1
             v == [q EXCEPT !.album = b]
  <2>1. q.op = "createAlbum" /\ q.kind = "album" /\ b \in Nat /\ b \in Ids
    BY <1>1, <1>4 DEF CreateAlbum, Room, WellAsked, Creates
  <2>2. Variant(q, v) /\ v.album = b /\ Keeps(q, v)
    <3> HIDE DEF b
    <3>1. QED
      BY <1>1, <2>1, InsertVariants
  <2>3. v.op = "createAlbum" /\ OwnerId(v) \in Ids
    BY <2>1, <2>2 DEF OwnerId, Keeps
  <2>4. Done(r, v) => Leads(r, q)
    <3> HIDE DEF v
    <3>1. QED
      BY <1>1, <2>2, <2>3, DoneLeads
  <2>5. QED
    BY <1>4, <2>4, EndsLeads DEF CreateAlbum
<1>5. CASE CreateTrackWithAlbum(r, q)
  <2> DEFINE t == created.track + 1
             b == IF q.single THEN created.album + 1 ELSE q.album
             v == WithTrack(q, t, b)
  <2>1. q.op = "uploadTrack" /\ t \in Nat /\ t \in Ids /\ b \in Nat
    BY <1>1, <1>5 DEF CreateTrackWithAlbum, Room
  <2>2. Variant(q, v) /\ v.track = t /\ Keeps(q, v)
    <3> HIDE DEF t, b
    <3>1. QED
      BY <1>1, <2>1, InsertVariants
  <2>3. v.op = "uploadTrack" /\ v.track \in Ids
    BY <2>1, <2>2 DEF Keeps
  <2>4. Done(r, v) => Leads(r, q)
    <3> HIDE DEF v
    <3>1. QED
      BY <1>1, <2>2, <2>3, DoneLeads DEF Creates
  <2>5. QED
    BY <1>5, <2>4, EndsLeads DEF CreateTrackWithAlbum, WithTrack
<1>6. QED
  BY <1>3, <1>4, <1>5

\* The steps that change or read something and go on as they are.
PlainStep(r, q) ==
    \/ PutImage(r, q) \/ RemoveImage(r, q) \/ GetImage(r, q) \/ LookUp(r, q)
    \/ UpdateArtist(r, q) \/ DeleteArtist(r, q) \/ ReadArtist(r, q) \/ ReadArtists(r, q)
    \/ UpdateAlbum(r, q) \/ DeleteAlbum(r, q) \/ AddTrackToAlbum(r, q)
    \/ DeleteTrackFromAlbum(r, q) \/ ReadAlbum(r, q) \/ PutTrack(r, q)
    \/ AddToTranscodingQueue(r, q) \/ RemoveTrackFiles(r, q) \/ DeleteTrack(r, q)
    \/ UpdateTrack(r, q) \/ CheckAccess(r, q)

\* Each is at a place, and ends in one of the four ways.
LEMMA PlainEnds ==
    ASSUME NEW r, NEW q, PlainStep(r, q)
    PROVE  \E at \in {"put", "remove", "get", "artist", "album", "track", "update", "delete",
                      "albums", "row", "artists", "albumsOfAll", "file", "unfile", "tracksOf",
                      "putFile", "enqueue", "removeFiles", "access"} :
              /\ At(q, at)
              /\ Done(r, q) \/ Proceeds(r, q) \/ Fails(r, q)
                 \/ (\E err : Ends(r, q, err) /\ (err = "ok" => at \in {"albums", "file"}))
<1>1. CASE PutImage(r, q)
  BY <1>1 DEF PutImage
<1>2. CASE RemoveImage(r, q)
  BY <1>2 DEF RemoveImage
<1>3. CASE GetImage(r, q)
  BY <1>3 DEF GetImage
<1>4. CASE LookUp(r, q)
  <2>1. Proceeds(r, q) \/ Fails(r, q) \/ Ends(r, q, "notfound")
    BY <1>4 DEF LookUp
  <2>2. At(q, "artist") \/ At(q, "album") \/ At(q, "track")
    BY <1>4 DEF LookUp
  <2>3. QED
    BY <2>1, <2>2
<1>5. CASE UpdateArtist(r, q)
  BY <1>5 DEF UpdateArtist
<1>6. CASE DeleteArtist(r, q)
  BY <1>6 DEF DeleteArtist
<1>7. CASE ReadArtist(r, q)
  BY <1>7 DEF ReadArtist
<1>8. CASE ReadArtists(r, q)
  BY <1>8 DEF ReadArtists
<1>9. CASE UpdateAlbum(r, q)
  BY <1>9 DEF UpdateAlbum
<1>10. CASE DeleteAlbum(r, q)
  BY <1>10 DEF DeleteAlbum
<1>11. CASE AddTrackToAlbum(r, q)
  BY <1>11 DEF AddTrackToAlbum
<1>12. CASE DeleteTrackFromAlbum(r, q)
  BY <1>12 DEF DeleteTrackFromAlbum
<1>13. CASE ReadAlbum(r, q)
  BY <1>13 DEF ReadAlbum
<1>14. CASE PutTrack(r, q)
  BY <1>14 DEF PutTrack
<1>15. CASE AddToTranscodingQueue(r, q)
  BY <1>15 DEF AddToTranscodingQueue
<1>16. CASE RemoveTrackFiles(r, q)
  BY <1>16 DEF RemoveTrackFiles
<1>17. CASE DeleteTrack(r, q)
  <2>1. At(q, "delete") /\ (Done(r, q) \/ Fails(r, q))
    BY <1>17 DEF DeleteTrack
  <2>2. QED
    BY <2>1
<1>18. CASE UpdateTrack(r, q)
  BY <1>18 DEF UpdateTrack
<1>19. CASE CheckAccess(r, q)
  BY <1>19 DEF CheckAccess
<1>20. QED
  BY <1>1, <1>2, <1>3, <1>4, <1>5, <1>6, <1>7, <1>8, <1>9, <1>10, <1>11, <1>12, <1>13, <1>14, <1>15, <1>16, <1>17, <1>18, <1>19 DEF PlainStep

\* The plain steps lead where they may.
LEMMA PlainLeads ==
    ASSUME NEW r, NEW q, Active(q), PlainStep(r, q)
    PROVE  Leads(r, q)
<1>1. q \in Request
  BY ActiveTypes
<1>2. PICK at \in {"put", "remove", "get", "artist", "album", "track", "update", "delete",
                   "albums", "row", "artists", "albumsOfAll", "file", "unfile", "tracksOf",
                   "putFile", "enqueue", "removeFiles", "access"} :
          /\ At(q, at)
          /\ Done(r, q) \/ Proceeds(r, q) \/ Fails(r, q) \/ (\E err : Ends(r, q, err))
  BY PlainEnds
<1>3. at # "load" /\ at # "insert"
  BY <1>2
<1>4. Done(r, q) \/ Proceeds(r, q) => Leads(r, q)
  BY <1>1, <1>2, <1>3, SameVariant, DoneLeads, ProceedsLeads
<1>5. QED
  BY <1>2, <1>4, EndsLeads

\* Every step of a request leads to an answer or goes on.
LEMMA ServesLeads ==
    ASSUME TypeOK, NEW r, NEW q, Active(q), At(q, "insert") => Room, Serves(r, q)
    PROVE  Leads(r, q)
<1>1. LoadArtworkOwner(r, q) => Leads(r, q)
  BY LoadLeads DEF Leads
<1>2. CheckSuperuser(r, q) => Leads(r, q)
  BY SuperLeads DEF Leads
<1>3. CreateArtist(r, q) \/ CreateAlbum(r, q) \/ CreateTrackWithAlbum(r, q) => Leads(r, q)
  BY InsertLeads DEF CreateArtist, CreateAlbum, CreateTrackWithAlbum
<1>4. ListTracks(r, q) \/ FileTracks(r, q) \/ Search(r, q) => Leads(r, q)
  BY ListLeads
<1>5. PlainStep(r, q) => Leads(r, q)
  BY PlainLeads
<1>6. ReadDeletedTrack(r, q) => Leads(r, q)
  BY TitleLeads DEF Leads
<1>7. QED
  BY <1>1, <1>2, <1>3, <1>4, <1>5, <1>6 DEF Serves, PlainStep

-------------------------------------------------------------------------------
(* The rows keep their keys and references.                                *)

ArtistsOK ==
    /\ artists \in [Ids -> Names \union {Unnamed}]
    /\ \A a1, a2 \in Ids : a1 # a2 /\ ArtistExists(a1) => artists[a1] # artists[a2]
    /\ \A a \in Ids : ArtistExists(a) => a <= created.artist
AlbumsOK ==
    /\ albums \in [Ids -> Album \union {NoAlbum}]
    /\ \A b1, b2 \in Ids : b1 # b2 /\ AlbumExists(b1) => albums[b1] # albums[b2]
    /\ \A b \in Ids : AlbumExists(b) => ArtistExists(albums[b].artist) /\ b <= created.album
TracksOK ==
    /\ tracks \in [Ids -> Track \union {NoTrack}]
    /\ \A t \in Ids : TrackExists(t) => ArtistExists(tracks[t].artist) /\ t <= created.track
FiledOK ==
    /\ filed \subseteq Ids \X Ids
    /\ \A e \in filed : TrackExists(e[1]) /\ AlbumExists(e[2])
    /\ \A t \in listed : TrackExists(t)
RowsOK ==
    /\ created \in [Kinds \union {"track"} -> Nat]
    /\ ArtistsOK /\ AlbumsOK /\ TracksOK /\ FiledOK

\* What is not there is no row.
LEMMA NoRows ==
    /\ Unnamed \notin Names /\ NoAlbum \notin Album /\ NoTrack \notin Track
    /\ NoAlbum.artist = 0 /\ NoTrack.artist = 0
BY ConstantsAssumption, Numbers DEF NoAlbum, NoTrack, Album, Track

\* An artist's name is written, in a new row or in one that is there.
LEMMA ArtistWritten ==
    ASSUME RowsOK, NEW a \in Ids, NEW n \in Names, ~ArtistNameTaken(n, {a}),
           artists' = [artists EXCEPT ![a] = n], UNCHANGED <<albums, tracks, filed, listed>>,
           created' \in [Kinds \union {"track"} -> Nat], a <= created'.artist,
           created.artist <= created'.artist,
           created'.album = created.album /\ created'.track = created.track
    PROVE  RowsOK'
<1>1. n # Unnamed
  BY NoRows
<1>2. artists' \in [Ids -> Names \union {Unnamed}]
  BY DEF RowsOK, ArtistsOK
<1>3. \A i \in Ids : artists'[i] = IF i = a THEN n ELSE artists[i]
  BY DEF RowsOK, ArtistsOK
<1>4. \A i \in Ids : i # a => artists[i] # n
  BY DEF ArtistNameTaken
<1>5. \A a1, a2 \in Ids : a1 # a2 /\ artists'[a1] # Unnamed => artists'[a1] # artists'[a2]
  BY <1>3, <1>4 DEF RowsOK, ArtistsOK, ArtistExists
<1>6. \A i \in Ids : artists'[i] # Unnamed => i <= created'.artist
  <2>1. /\ created.artist \in Nat /\ created'.artist \in Nat
    BY DEF RowsOK, Kinds
  <2>2. \A i \in Ids : i \in Nat
    BY Numbers
  <2>3. QED
    BY <1>3, <2>1, <2>2 DEF RowsOK, ArtistsOK, ArtistExists
<1>7. \A i : ArtistExists(i) => ArtistExists(i)'
  BY <1>1, <1>3 DEF ArtistExists
<1>8. ArtistsOK'
  BY <1>2, <1>5, <1>6 DEF ArtistsOK, ArtistExists
<1>9. AlbumsOK' /\ TracksOK' /\ FiledOK'
  BY <1>7 DEF RowsOK, AlbumsOK, TracksOK, FiledOK, AlbumExists, TrackExists
<1>10. QED
  BY <1>8, <1>9 DEF RowsOK

\* An album's name and artist are written.
LEMMA AlbumWritten ==
    ASSUME RowsOK, NEW b \in Ids, NEW n \in Names, NEW a, ArtistExists(a),
           ~AlbumNameTaken(a, n, {b}),
           albums' = [albums EXCEPT ![b] = [name |-> n, artist |-> a]], UNCHANGED artists,
           created' \in [Kinds \union {"track"} -> Nat], b <= created'.album,
           created.album <= created'.album, created'.artist = created.artist
    PROVE  /\ AlbumsOK' /\ ArtistsOK'
           /\ AlbumExists(b)' /\ \A i : AlbumExists(i) => AlbumExists(i)'
<1> DEFINE row == [name |-> n, artist |-> a]
<1>1. row \in Album /\ row # NoAlbum /\ row.name = n /\ row.artist = a
  BY NoRows DEF Album, ArtistExists
<1>2. albums' \in [Ids -> Album \union {NoAlbum}]
  BY <1>1 DEF RowsOK, AlbumsOK
<1>3. \A i \in Ids : albums'[i] = IF i = b THEN row ELSE albums[i]
  BY DEF RowsOK, AlbumsOK
<1> HIDE DEF row
<1>4. \A i \in Ids : i # b => albums[i] # row
  BY <1>1 DEF AlbumNameTaken
<1>5. \A b1, b2 \in Ids : b1 # b2 /\ albums'[b1] # NoAlbum => albums'[b1] # albums'[b2]
  BY <1>3, <1>4 DEF RowsOK, AlbumsOK, AlbumExists
<1>6. \A i \in Ids : albums'[i] # NoAlbum => i <= created'.album
  <2>1. created.album \in Nat /\ created'.album \in Nat
    BY DEF RowsOK, Kinds
  <2>2. \A i \in Ids : i \in Nat
    BY Numbers
  <2>3. QED
    BY <1>3, <2>1, <2>2 DEF RowsOK, AlbumsOK, AlbumExists
<1>7. \A i \in Ids : albums'[i] # NoAlbum => ArtistExists(albums'[i].artist)
  BY <1>1, <1>3 DEF RowsOK, AlbumsOK, AlbumExists
<1>8. AlbumsOK'
  BY <1>2, <1>5, <1>6, <1>7 DEF AlbumsOK, AlbumExists, ArtistExists
<1>9. ArtistsOK'
  BY DEF RowsOK, ArtistsOK, ArtistExists
<1>10. QED
  BY <1>1, <1>3, <1>8, <1>9 DEF AlbumExists

\* A track's row is written, and the track is filed.
LEMMA TrackWritten ==
    ASSUME RowsOK, ArtistsOK', AlbumsOK', UNCHANGED artists,
           \A i : AlbumExists(i) => AlbumExists(i)',
           NEW t \in Ids, NEW b, AlbumExists(b)', NEW row \in Track, ArtistExists(row.artist),
           tracks' = [tracks EXCEPT ![t] = row], UNCHANGED listed,
           NEW F \in SUBSET filed, filed' = F \union {<<t, b>>},
           created' \in [Kinds \union {"track"} -> Nat], t <= created'.track,
           created.track <= created'.track
    PROVE  RowsOK'
<1>1. row # NoTrack
  BY NoRows
<1>2. tracks' \in [Ids -> Track \union {NoTrack}]
  BY DEF RowsOK, TracksOK
<1>3. \A i \in Ids : tracks'[i] = IF i = t THEN row ELSE tracks[i]
  BY DEF RowsOK, TracksOK
<1>4. \A i \in Ids : tracks'[i] # NoTrack => i <= created'.track
  <2>1. created.track \in Nat /\ created'.track \in Nat
    BY DEF RowsOK, Kinds
  <2>2. \A i \in Ids : i \in Nat
    BY Numbers
  <2>3. QED
    BY <1>3, <2>1, <2>2 DEF RowsOK, TracksOK, TrackExists
<1>5. \A i \in Ids : tracks'[i] # NoTrack => ArtistExists(tracks'[i].artist)
  BY <1>3 DEF RowsOK, TracksOK, TrackExists
<1>6. TracksOK'
  BY <1>2, <1>4, <1>5 DEF TracksOK, TrackExists, ArtistExists
<1>7. (\A i : TrackExists(i) => TrackExists(i)') /\ TrackExists(t)'
  BY <1>1, <1>3 DEF TrackExists
<1>8. b \in Ids
  BY DEF AlbumExists
<1>9. FiledOK'
  <2>1. filed' \subseteq Ids \X Ids
    BY <1>8 DEF RowsOK, FiledOK
  <2>2. \A e \in filed' : TrackExists(e[1])' /\ AlbumExists(e[2])'
    <3>1. \A e \in F : TrackExists(e[1])' /\ AlbumExists(e[2])'
      BY <1>7 DEF RowsOK, FiledOK
    <3>2. QED
      BY <1>7, <3>1
  <2>3. QED
    BY <1>7, <2>1, <2>2 DEF RowsOK, FiledOK
<1>10. QED
  BY <1>6, <1>9 DEF RowsOK

\* Rows are deleted with what refers to them.
LEMMA RowsDeleted ==
    ASSUME RowsOK, UNCHANGED created, NEW As, NEW Bs, NEW Ts,
           artists' = [i \in Ids |-> IF i \in As THEN Unnamed ELSE artists[i]],
           albums' = [i \in Ids |-> IF i \in Bs THEN NoAlbum ELSE albums[i]],
           tracks' = [i \in Ids |-> IF i \in Ts THEN NoTrack ELSE tracks[i]],
           \A b \in Ids : AlbumExists(b) /\ albums[b].artist \in As => b \in Bs,
           \A t \in Ids : TrackExists(t) /\ tracks[t].artist \in As => t \in Ts,
           filed' \subseteq filed, \A e \in filed' : e[1] \notin Ts /\ e[2] \notin Bs,
           listed' \subseteq listed, listed' \intersect Ts = {}
    PROVE  RowsOK'
<1>1. /\ \A i \in Ids : artists'[i] = IF i \in As THEN Unnamed ELSE artists[i]
      /\ \A i \in Ids : albums'[i] = IF i \in Bs THEN NoAlbum ELSE albums[i]
      /\ \A i \in Ids : tracks'[i] = IF i \in Ts THEN NoTrack ELSE tracks[i]
  OBVIOUS
<1>2. /\ artists' \in [Ids -> Names \union {Unnamed}]
      /\ albums' \in [Ids -> Album \union {NoAlbum}]
      /\ tracks' \in [Ids -> Track \union {NoTrack}]
  BY DEF RowsOK, ArtistsOK, AlbumsOK, TracksOK
<1>3. /\ \A i : ArtistExists(i)' <=> ArtistExists(i) /\ i \notin As
      /\ \A i : AlbumExists(i)' <=> AlbumExists(i) /\ i \notin Bs
      /\ \A i : TrackExists(i)' <=> TrackExists(i) /\ i \notin Ts
  BY <1>1 DEF ArtistExists, AlbumExists, TrackExists
<1>4. ArtistsOK'
  <2>1. \A a1, a2 \in Ids : a1 # a2 /\ artists'[a1] # Unnamed => artists'[a1] # artists'[a2]
    BY <1>1 DEF RowsOK, ArtistsOK, ArtistExists
  <2>2. QED
    BY <1>2, <1>3, <2>1 DEF RowsOK, ArtistsOK, ArtistExists
<1>5. AlbumsOK'
  <2>1. \A b1, b2 \in Ids : b1 # b2 /\ albums'[b1] # NoAlbum => albums'[b1] # albums'[b2]
    BY <1>1 DEF RowsOK, AlbumsOK, AlbumExists
  <2>2. \A b \in Ids : AlbumExists(b)' => ArtistExists(albums[b].artist)' /\ b <= created.album
    BY <1>1, <1>3 DEF RowsOK, AlbumsOK
  <2>3. QED
    BY <1>2, <2>1, <2>2 DEF AlbumsOK, AlbumExists
<1>6. TracksOK'
  <2>1. \A t \in Ids : TrackExists(t)' => ArtistExists(tracks[t].artist)' /\ t <= created.track
    BY <1>1, <1>3 DEF RowsOK, TracksOK
  <2>2. QED
    BY <1>2, <2>1 DEF TracksOK
<1>7. FiledOK'
  <2>1. filed' \subseteq Ids \X Ids
    BY DEF RowsOK, FiledOK
  <2>2. \A e \in filed' : TrackExists(e[1])' /\ AlbumExists(e[2])'
    BY <1>3 DEF RowsOK, FiledOK
  <2>3. \A t \in listed' : TrackExists(t)'
    BY <1>3 DEF RowsOK, FiledOK
  <2>4. QED
    BY <2>1, <2>2, <2>3 DEF FiledOK
<1>8. QED
  BY <1>4, <1>5, <1>6, <1>7 DEF RowsOK

\* A sequence moves on without a row.
LEMMA OnlyCounted ==
    ASSUME RowsOK, UNCHANGED <<artists, albums, tracks, filed, listed>>,
           created' \in [Kinds \union {"track"} -> Nat],
           created.artist <= created'.artist, created.album <= created'.album,
           created.track <= created'.track
    PROVE  RowsOK'
<1>1. /\ created.artist \in Nat /\ created'.artist \in Nat
      /\ created.album \in Nat /\ created'.album \in Nat
      /\ created.track \in Nat /\ created'.track \in Nat
      /\ \A i \in Ids : i \in Nat
  BY Numbers DEF RowsOK, Kinds
<1>2. ArtistsOK'
  BY <1>1 DEF RowsOK, ArtistsOK, ArtistExists
<1>3. AlbumsOK'
  BY <1>1 DEF RowsOK, AlbumsOK, AlbumExists, ArtistExists
<1>4. TracksOK'
  BY <1>1 DEF RowsOK, TracksOK, TrackExists, ArtistExists
<1>5. FiledOK'
  BY DEF RowsOK, FiledOK, TrackExists, AlbumExists
<1>6. QED
  BY <1>2, <1>3, <1>4, <1>5 DEF RowsOK

\* Nothing changes.
LEMMA SameRows ==
    ASSUME RowsOK, UNCHANGED rows
    PROVE  RowsOK'
BY DEF rows, RowsOK, ArtistsOK, AlbumsOK, TracksOK, FiledOK, ArtistExists, AlbumExists, TrackExists

\* The sequences as they are, and one or two that have moved on.
LEMMA Counted ==
    ASSUME Room, created \in [Kinds \union {"track"} -> Nat]
    PROVE  /\ LET c == [created EXCEPT !.artist = created.artist + 1] IN
              /\ c \in [Kinds \union {"track"} -> Nat]
              /\ c.artist = created.artist + 1 /\ c.album = created.album
              /\ c.track = created.track
           /\ LET c == [created EXCEPT !.album = created.album + 1] IN
              /\ c \in [Kinds \union {"track"} -> Nat]
              /\ c.artist = created.artist /\ c.album = created.album + 1
              /\ c.track = created.track
           /\ \A n \in {created.album, created.album + 1} :
                 LET c == [created EXCEPT !.track = created.track + 1, !.album = n] IN
                 /\ c \in [Kinds \union {"track"} -> Nat]
                 /\ c.artist = created.artist /\ c.album = n /\ c.track = created.track + 1
<1> DEFINE S == {"artist", "album", "track"}
<1>1. /\ Kinds \union {"track"} = S
      /\ created.artist + 1 \in Nat /\ created.album + 1 \in Nat /\ created.track + 1 \in Nat
      /\ created.album \in Nat
  BY DEF Room, Kinds
<1>2. ASSUME NEW n \in Nat
      PROVE  LET c == [created EXCEPT !.artist = n] IN
             c \in [S -> Nat] /\ c.artist = n /\ c.album = created.album /\ c.track = created.track
  BY <1>1
<1>3. ASSUME NEW n \in Nat
      PROVE  LET c == [created EXCEPT !.album = n] IN
             c \in [S -> Nat] /\ c.artist = created.artist /\ c.album = n /\ c.track = created.track
  BY <1>1
<1>4. ASSUME NEW n \in Nat, NEW m \in Nat
      PROVE  LET c == [created EXCEPT !.track = m, !.album = n] IN
             c \in [S -> Nat] /\ c.artist = created.artist /\ c.album = n /\ c.track = m
  BY <1>1
<1>5. QED
  BY <1>1, <1>2, <1>3, <1>4

-------------------------------------------------------------------------------
(* What each step makes of the rows.                                       *)

\* Sequences move on by at most one, and only when a request inserts.
CountsUp ==
    /\ created' \in [Kinds \union {"track"} -> Nat]
    /\ \A k \in Kinds \union {"track"} : created[k] <= created'[k] /\ created'[k] <= created[k] + 1

\* Where no id is given out, the sequences stand.
LEMMA SameCounts ==
    ASSUME created \in [Kinds \union {"track"} -> Nat], UNCHANGED created
    PROVE  CountsUp
BY DEF CountsUp

\* A new artist has an unused id and name.
LEMMA CreateArtistRows ==
    ASSUME RowsOK, Room, NEW r, NEW q, Active(q), CreateArtist(r, q)
    PROVE  RowsOK' /\ CountsUp
<1> DEFINE a == created.artist + 1
<1>1. q.name \in Names
  BY ActiveTypes DEF CreateArtist, WellAsked, NamingOps, Creates
<1>2. created \in [Kinds \union {"track"} -> Nat] /\ a \in Ids
  BY DEF RowsOK, Room
<1>3. CASE UNCHANGED <<artists, created>>
  BY <1>2, <1>3, SameRows, SameCounts DEF CreateArtist, rows
<1>4. CASE created' = [created EXCEPT !.artist = a]
  <2>1. /\ created' \in [Kinds \union {"track"} -> Nat]
        /\ created'.artist = a /\ created'.album = created.album /\ created'.track = created.track
    BY <1>2, <1>4, Counted
  <2>2. created.artist \in Nat /\ created.album \in Nat /\ created.track \in Nat
    BY DEF Room
  <2>3. CountsUp
    BY <2>1, <2>2 DEF CountsUp, Kinds
  <2>4. CASE UNCHANGED artists
    <3>1. /\ created.artist <= created'.artist /\ created.album <= created'.album
          /\ created.track <= created'.track
      BY <2>1, <2>2
    <3>2. QED
      BY <2>1, <2>3, <2>4, <3>1, OnlyCounted DEF CreateArtist
  <2>5. CASE artists' = [artists EXCEPT ![a] = q.name] /\ ~ArtistNameTaken(q.name, {})
    <3>1. ~ArtistNameTaken(q.name, {a})
      BY <2>5 DEF ArtistNameTaken
    <3>2. UNCHANGED <<albums, tracks, filed, listed>>
      BY DEF CreateArtist
    <3>3. a <= created'.artist /\ created.artist <= created'.artist
      BY <2>1, <2>2
    <3> HIDE DEF a
    <3>4. QED
      BY <1>1, <1>2, <2>1, <2>3, <2>5, <3>1, <3>2, <3>3, ArtistWritten
  <2>6. QED
    BY <2>3, <2>4, <2>5, <1>4 DEF CreateArtist
<1>5. QED
  BY <1>3, <1>4 DEF CreateArtist

\* A renamed artist has an unused name.
LEMMA UpdateArtistRows ==
    ASSUME RowsOK, NEW r, NEW q, Active(q), UpdateArtist(r, q)
    PROVE  RowsOK' /\ CountsUp
<1>1. q.name \in Names
  BY ActiveTypes DEF UpdateArtist, WellAsked, NamingOps
<1>2. UNCHANGED <<albums, tracks, created, filed, listed>> /\ CountsUp
  BY SameCounts DEF UpdateArtist, RowsOK
<1>3. CASE UNCHANGED artists
  BY <1>2, <1>3, SameRows DEF rows
<1>4. CASE /\ artists' = [artists EXCEPT ![q.artist] = q.name]
           /\ ArtistExists(q.artist) /\ ~ArtistNameTaken(q.name, {q.artist})
  <2>1. q.artist \in Ids /\ q.artist <= created.artist
    BY <1>4 DEF ArtistExists, RowsOK, ArtistsOK
  <2>2. /\ created' \in [Kinds \union {"track"} -> Nat]
        /\ q.artist <= created'.artist /\ created.artist <= created'.artist
    <3>1. created.artist \in Nat
      BY DEF RowsOK, Kinds
    <3>2. QED
      BY <1>2, <2>1, <3>1 DEF RowsOK
  <2>3. QED
    BY <1>1, <1>2, <1>4, <2>1, <2>2, ArtistWritten
<1>5. QED
  BY <1>3, <1>4 DEF UpdateArtist

\* A new album has an unused id, a name unused by its artist, and an artist.
LEMMA CreateAlbumRows ==
    ASSUME RowsOK, Room, NEW r, NEW q, Active(q), CreateAlbum(r, q)
    PROVE  RowsOK' /\ CountsUp
<1> DEFINE b == created.album + 1
<1>1. q.name \in Names
  BY ActiveTypes DEF CreateAlbum, WellAsked, NamingOps, Creates
<1>2. created \in [Kinds \union {"track"} -> Nat] /\ b \in Ids
  BY DEF RowsOK, Room
<1>3. UNCHANGED <<artists, tracks, filed, listed>>
  BY DEF CreateAlbum
<1>4. CASE UNCHANGED <<albums, created>>
  BY <1>2, <1>3, <1>4, SameRows, SameCounts DEF rows
<1>5. CASE created' = [created EXCEPT !.album = b]
  <2>1. /\ created' \in [Kinds \union {"track"} -> Nat]
        /\ created'.artist = created.artist /\ created'.album = b /\ created'.track = created.track
    BY <1>2, <1>5, Counted
  <2>2. created.artist \in Nat /\ created.album \in Nat /\ created.track \in Nat
    BY DEF Room
  <2>3. CountsUp
    BY <2>1, <2>2 DEF CountsUp, Kinds
  <2>4. CASE UNCHANGED albums
    <3>1. /\ created.artist <= created'.artist /\ created.album <= created'.album
          /\ created.track <= created'.track
      BY <2>1, <2>2
    <3>2. QED
      BY <1>3, <2>1, <2>3, <2>4, <3>1, OnlyCounted
  <2>5. CASE /\ albums' = [albums EXCEPT ![b] = [name |-> q.name, artist |-> q.artist]]
             /\ ArtistExists(q.artist) /\ ~AlbumNameTaken(q.artist, q.name, {})
    <3>1. ~AlbumNameTaken(q.artist, q.name, {b})
      BY <2>5 DEF AlbumNameTaken
    <3>2. b <= created'.album /\ created.album <= created'.album
      BY <2>1, <2>2
    <3> HIDE DEF b
    <3>3. AlbumsOK' /\ ArtistsOK' /\ \A i : AlbumExists(i) => AlbumExists(i)'
      BY <1>1, <1>2, <1>3, <2>1, <2>5, <3>1, <3>2, AlbumWritten
    <3>4. TracksOK' /\ FiledOK'
      BY <1>3, <2>1, <3>3 DEF RowsOK, TracksOK, FiledOK, TrackExists, ArtistExists
    <3>5. QED
      BY <2>1, <2>3, <3>3, <3>4 DEF RowsOK
  <2>6. QED
    BY <2>4, <2>5 DEF CreateAlbum
<1>6. QED
  BY <1>4, <1>5 DEF CreateAlbum

\* So has a changed one.
LEMMA UpdateAlbumRows ==
    ASSUME RowsOK, NEW r, NEW q, Active(q), UpdateAlbum(r, q)
    PROVE  RowsOK' /\ CountsUp
<1>1. q.name \in Names
  BY ActiveTypes DEF UpdateAlbum, WellAsked, NamingOps
<1>2. UNCHANGED <<artists, tracks, created, filed, listed>> /\ CountsUp
  BY SameCounts DEF UpdateAlbum, RowsOK
<1>3. CASE UNCHANGED albums
  BY <1>2, <1>3, SameRows DEF rows
<1>4. CASE /\ albums' = [albums EXCEPT ![q.album] = [name |-> q.name, artist |-> q.artist]]
           /\ AlbumExists(q.album) /\ ArtistExists(q.artist)
           /\ ~AlbumNameTaken(q.artist, q.name, {q.album})
  <2>1. q.album \in Ids /\ q.album <= created.album
    BY <1>4 DEF AlbumExists, RowsOK, AlbumsOK
  <2>2. /\ created' \in [Kinds \union {"track"} -> Nat]
        /\ q.album <= created'.album /\ created.album <= created'.album
    <3>1. created.album \in Nat
      BY DEF RowsOK, Kinds
    <3>2. QED
      BY <1>2, <2>1, <3>1 DEF RowsOK
  <2>3. AlbumsOK' /\ ArtistsOK' /\ \A i : AlbumExists(i) => AlbumExists(i)'
    BY <1>1, <1>2, <1>4, <2>1, <2>2, AlbumWritten
  <2>4. TracksOK' /\ FiledOK'
    BY <1>2, <2>3 DEF RowsOK, TracksOK, FiledOK, TrackExists, ArtistExists
  <2>5. QED
    BY <1>2, <2>2, <2>3, <2>4 DEF RowsOK
<1>5. QED
  BY <1>3, <1>4 DEF UpdateAlbum

\* With an artist goes all that refers to him.
LEMMA DeleteArtistRows ==
    ASSUME RowsOK, NEW r, NEW q, DeleteArtist(r, q)
    PROVE  RowsOK' /\ CountsUp
<1>1. CASE UNCHANGED rows
  <2>1. UNCHANGED created
    BY <1>1 DEF rows
  <2>2. QED
    BY <1>1, <2>1, SameRows, SameCounts DEF RowsOK
<1>b. PICK bs : bs = GetArtistWithAlbums(q.artist)
  OBVIOUS
<1>t. PICK ts : ts = {t \in GetAllTracks : tracks[t].artist = q.artist}
  OBVIOUS
<1>2. CASE /\ ts \intersect listed = {}
           /\ artists' = [artists EXCEPT ![q.artist] = Unnamed]
           /\ albums' = [b \in Ids |-> IF b \in bs THEN NoAlbum ELSE albums[b]]
           /\ tracks' = [t \in Ids |-> IF t \in ts THEN NoTrack ELSE tracks[t]]
           /\ filed' = {e \in filed : e[1] \notin ts /\ e[2] \notin bs}
           /\ UNCHANGED <<created, listed>>
  <2>1. artists' = [i \in Ids |-> IF i \in {q.artist} THEN Unnamed ELSE artists[i]]
    BY <1>2 DEF RowsOK, ArtistsOK
  <2>2. \A b \in Ids : AlbumExists(b) /\ albums[b].artist \in {q.artist} => b \in bs
    BY <1>b DEF GetArtistWithAlbums
  <2>3. \A t \in Ids : TrackExists(t) /\ tracks[t].artist \in {q.artist} => t \in ts
    BY <1>t DEF GetAllTracks
  <2>4. RowsOK'
    <3>1. /\ filed' \subseteq filed /\ (\A e \in filed' : e[1] \notin ts /\ e[2] \notin bs)
          /\ listed' \subseteq listed /\ listed' \intersect ts = {} /\ UNCHANGED created
      BY <1>2
    <3>2. /\ albums' = [i \in Ids |-> IF i \in bs THEN NoAlbum ELSE albums[i]]
          /\ tracks' = [i \in Ids |-> IF i \in ts THEN NoTrack ELSE tracks[i]]
      BY <1>2
    <3>3. QED
      BY <2>1, <2>2, <2>3, <3>1, <3>2, RowsDeleted
  <2>5. QED
    BY <1>2, <2>4, SameCounts DEF RowsOK
<1>3. QED
  BY <1>1, <1>2, <1>b, <1>t DEF DeleteArtist

\* With an album goes its filing.
LEMMA DeleteAlbumRows ==
    ASSUME RowsOK, NEW r, NEW q, DeleteAlbum(r, q)
    PROVE  RowsOK' /\ CountsUp
<1>1. UNCHANGED <<artists, tracks, created, listed>> /\ CountsUp
  BY SameCounts DEF DeleteAlbum, RowsOK
<1>2. CASE UNCHANGED <<albums, filed>>
  BY <1>1, <1>2, SameRows DEF rows
<1>3. CASE /\ albums' = [albums EXCEPT ![q.album] = NoAlbum]
           /\ filed' = {e \in filed : e[2] # q.album}
  <2>1. /\ artists' = [i \in Ids |-> IF i \in {} THEN Unnamed ELSE artists[i]]
        /\ albums' = [i \in Ids |-> IF i \in {q.album} THEN NoAlbum ELSE albums[i]]
        /\ tracks' = [i \in Ids |-> IF i \in {} THEN NoTrack ELSE tracks[i]]
    BY <1>1, <1>3 DEF RowsOK, ArtistsOK, AlbumsOK, TracksOK
  <2>2. filed' \subseteq filed /\ \A e \in filed' : e[1] \notin {} /\ e[2] \notin {q.album}
    BY <1>3
  <2>3. /\ UNCHANGED created /\ listed' \subseteq listed /\ listed' \intersect {} = {}
        /\ \A b \in Ids : AlbumExists(b) /\ albums[b].artist \in {} => b \in {q.album}
        /\ \A t \in Ids : TrackExists(t) /\ tracks[t].artist \in {} => t \in {}
    BY <1>1
  <2>4. RowsOK'
    BY <2>1, <2>2, <2>3, RowsDeleted
  <2>5. QED
    BY <1>1, <2>4
<1>4. QED
  BY <1>2, <1>3 DEF DeleteAlbum

\* Only tracks that are there are filed, in albums that are there.
LEMMA FilingRows ==
    ASSUME RowsOK, NEW r, NEW q, AddTrackToAlbum(r, q) \/ DeleteTrackFromAlbum(r, q)
    PROVE  RowsOK' /\ CountsUp
<1>1. UNCHANGED <<artists, albums, tracks, created, listed>> /\ CountsUp
  BY SameCounts DEF AddTrackToAlbum, DeleteTrackFromAlbum, RowsOK
<1>2. ArtistsOK' /\ AlbumsOK' /\ TracksOK'
  BY <1>1 DEF RowsOK, ArtistsOK, AlbumsOK, TracksOK, ArtistExists, AlbumExists, TrackExists
<1>3. \/ filed' \subseteq filed
      \/ /\ filed' = filed \union {<<q.track, q.album>>}
         /\ TrackExists(q.track) /\ AlbumExists(q.album)
  BY DEF AddTrackToAlbum, DeleteTrackFromAlbum
<1>4. FiledOK'
  <2>1. \A e \in filed' : e \in Ids \X Ids /\ TrackExists(e[1]) /\ AlbumExists(e[2])
    BY <1>3 DEF RowsOK, FiledOK, TrackExists, AlbumExists
  <2>2. QED
    BY <1>1, <2>1 DEF RowsOK, FiledOK, TrackExists, AlbumExists
<1>5. QED
  BY <1>1, <1>2, <1>4 DEF RowsOK

\* A new track is filed in the album that comes with it or is there.
LEMMA CreateTrackRows ==
    ASSUME RowsOK, Room, NEW r, NEW q, Active(q), CreateTrackWithAlbum(r, q)
    PROVE  RowsOK' /\ CountsUp
<1> DEFINE row == [name |-> q.name, artist |-> q.artist, by |-> q.user, global |-> q.global]
<1>a. PICK t : t = created.track + 1
  OBVIOUS
<1>b. PICK b : b = IF q.single THEN created.album + 1 ELSE q.album
  OBVIOUS
<1>n. PICK n : n = IF q.single THEN b ELSE created.album
  OBVIOUS
<1>1. q.name \in Names /\ q.user \in Users /\ q.global \in BOOLEAN
  BY ActiveTypes DEF CreateTrackWithAlbum, WellAsked, NamingOps, Request
<1>2. created \in [Kinds \union {"track"} -> Nat] /\ t \in Ids
  BY <1>a DEF RowsOK, Room
<1>3. UNCHANGED <<artists, listed>>
  BY DEF CreateTrackWithAlbum
<1>4. created.artist \in Nat /\ created.album \in Nat /\ created.track \in Nat
  BY DEF Room
<1>5. CASE UNCHANGED <<albums, tracks, filed, created>>
  BY <1>2, <1>3, <1>5, SameRows, SameCounts DEF rows
<1>6. ASSUME NEW m \in {created.album, created.album + 1},
             created' = [created EXCEPT !.track = t, !.album = m]
      PROVE  /\ created' \in [Kinds \union {"track"} -> Nat]
             /\ created'.artist = created.artist /\ created'.album = m /\ created'.track = t
             /\ created.artist <= created'.artist /\ created.album <= created'.album
             /\ created.track <= created'.track /\ t <= created'.track
             /\ CountsUp
  <2>1. /\ created' \in [Kinds \union {"track"} -> Nat]
        /\ created'.artist = created.artist /\ created'.album = m /\ created'.track = t
    BY <1>2, <1>6, <1>a, Counted
  <2>2. /\ created.artist <= created'.artist /\ created.album <= created'.album
        /\ created.track <= created'.track /\ t <= created'.track
    BY <1>4, <1>a, <2>1
  <2>3. CountsUp
    BY <1>4, <1>a, <2>1 DEF CountsUp, Kinds
  <2>4. QED
    BY <2>1, <2>2, <2>3
<1>7. CASE /\ created' = [created EXCEPT !.track = t,
                          !.album = IF q.single /\ ArtistExists(q.artist) THEN b ELSE @]
           /\ UNCHANGED <<albums, tracks, filed>>
  <2>1. \E m \in {created.album, created.album + 1} :
           created' = [created EXCEPT !.track = t, !.album = m]
    BY <1>2, <1>7, <1>b
  <2>2. /\ created' \in [Kinds \union {"track"} -> Nat]
        /\ created.artist <= created'.artist /\ created.album <= created'.album
        /\ created.track <= created'.track /\ CountsUp
    BY <1>6, <2>1
  <2>3. QED
    BY <1>3, <1>7, <2>2, OnlyCounted
<1>8. CASE /\ ArtistExists(q.artist)
           /\ ~(q.single /\ AlbumNameTaken(q.artist, q.name, {}))
           /\ ~(~q.single /\ ~AlbumExists(q.album))
           /\ created' = [created EXCEPT !.track = t, !.album = IF q.single THEN b ELSE @]
           /\ tracks' = [tracks EXCEPT ![t] = row]
           /\ albums' = IF q.single
                        THEN [albums EXCEPT ![b] = [name |-> q.name, artist |-> q.artist]]
                        ELSE albums
           /\ filed' = filed \union {<<t, b>>}
  <2>1. n \in {created.album, created.album + 1}
    BY <1>b, <1>n
  <2>2. created' = [created EXCEPT !.track = t, !.album = n]
    BY <1>2, <1>8, <1>n
  <2>3. row \in Track /\ row.artist = q.artist
    BY <1>1, <1>8 DEF Track, ArtistExists
  <2> HIDE DEF row
  <2>4. /\ created' \in [Kinds \union {"track"} -> Nat]
        /\ created'.artist = created.artist /\ created'.album = n /\ created'.track = t
        /\ created.artist <= created'.artist /\ created.album <= created'.album
        /\ created.track <= created'.track /\ t <= created'.track
        /\ CountsUp
    BY <1>6, <2>1, <2>2
  <2>5. AlbumsOK' /\ ArtistsOK' /\ AlbumExists(b)' /\ \A i : AlbumExists(i) => AlbumExists(i)'
    <3>1. CASE q.single
      <4>1. b \in Ids /\ b = n /\ b = created.album + 1
        BY <3>1, <1>b, <1>n DEF Room
      <4>2. ~AlbumNameTaken(q.artist, q.name, {b})
        BY <1>8, <3>1 DEF AlbumNameTaken
      <4>3. albums' = [albums EXCEPT ![b] = [name |-> q.name, artist |-> q.artist]]
        BY <1>8, <3>1
      <4>4. b <= created'.album
        BY <1>4, <2>4, <4>1
      <4>5. QED
        <5>1. ArtistExists(q.artist) /\ UNCHANGED artists
          BY <1>3, <1>8
        <5>2. QED
          BY <1>1, <2>4, <4>1, <4>2, <4>3, <4>4, <5>1, AlbumWritten
    <3>2. CASE ~q.single
      <4>1. UNCHANGED <<albums, artists>> /\ b = q.album /\ AlbumExists(b)
        BY <1>3, <1>8, <1>b, <3>2
      <4>2. created'.album = created.album
        BY <2>4, <3>2, <1>n
      <4>3. AlbumsOK' /\ ArtistsOK'
        BY <2>4, <4>1, <4>2 DEF RowsOK, AlbumsOK, ArtistsOK, AlbumExists, ArtistExists
      <4>4. QED
        BY <4>1, <4>3 DEF AlbumExists
    <3>3. QED
      BY <3>1, <3>2
  <2>6. RowsOK'
    <3>1. filed \in SUBSET filed /\ UNCHANGED <<artists, listed>> /\ ArtistExists(row.artist)
      BY <1>3, <1>8, <2>3
    <3>2. tracks' = [tracks EXCEPT ![t] = row] /\ filed' = filed \union {<<t, b>>}
      BY <1>8
    <3>3. QED
      BY <1>2, <2>3, <2>4, <2>5, <3>1, <3>2, TrackWritten
  <2>7. QED
    BY <2>4, <2>6
<1>9. QED
  BY <1>5, <1>7, <1>8, <1>a, <1>b DEF CreateTrackWithAlbum

\* With a track go its filing, its places in playlists, and perhaps its album.
LEMMA DeleteTrackRows ==
    ASSUME RowsOK, NEW r, NEW q, DeleteTrack(r, q)
    PROVE  RowsOK' /\ CountsUp
<1>1. UNCHANGED <<artists, created>> /\ CountsUp
  BY SameCounts DEF DeleteTrack, RowsOK
<1>2. CASE UNCHANGED <<albums, tracks, filed, listed>>
  BY <1>1, <1>2, SameRows DEF rows
<1>g. PICK gone : gone = {b \in Ids : q.single /\ b = q.title[2]}
  OBVIOUS
<1>3. ASSUME tracks' = [tracks EXCEPT ![q.track] = NoTrack],
             listed' = listed \ {q.track},
             albums' = [b \in Ids |-> IF b \in gone THEN NoAlbum ELSE albums[b]],
             filed' = {e \in filed : e[1] # q.track /\ e[2] \notin gone}
      PROVE  RowsOK'
  <2>1. /\ artists' = [i \in Ids |-> IF i \in {} THEN Unnamed ELSE artists[i]]
        /\ albums' = [i \in Ids |-> IF i \in gone THEN NoAlbum ELSE albums[i]]
        /\ tracks' = [i \in Ids |-> IF i \in {q.track} THEN NoTrack ELSE tracks[i]]
    BY <1>1, <1>3 DEF RowsOK, ArtistsOK, TracksOK
  <2>2. /\ filed' \subseteq filed /\ (\A e \in filed' : e[1] \notin {q.track} /\ e[2] \notin gone)
        /\ listed' \subseteq listed /\ listed' \intersect {q.track} = {}
    BY <1>3
  <2>3. /\ UNCHANGED created
        /\ \A i \in Ids : AlbumExists(i) /\ albums[i].artist \in {} => i \in gone
        /\ \A i \in Ids : TrackExists(i) /\ tracks[i].artist \in {} => i \in {q.track}
    BY <1>1
  <2>4. QED
    BY <2>1, <2>2, <2>3, RowsDeleted
<1>4. QED
  BY <1>1, <1>2, <1>3, <1>g DEF DeleteTrack

\* A track's row with what a client may change of it.
Retitled(x, n, a, g) == [x EXCEPT !.name = n, !.artist = a, !.global = g]

\* Field by field it is a row.
LEMMA TrackChanged ==
    ASSUME NEW x \in Track, NEW n \in Names, NEW a \in Ids, NEW g \in BOOLEAN
    PROVE  Retitled(x, n, a, g) = [name |-> n, artist |-> a, by |-> x.by, global |-> g]
<1> DEFINE y == [x EXCEPT !.name = n]
           z == [y EXCEPT !.artist = a]
<1>1. y \in Track /\ y.name = n /\ y.by = x.by
  BY DEF Track
<1> HIDE DEF y
<1>2. z \in Track /\ z.name = n /\ z.artist = a /\ z.by = x.by
  BY <1>1 DEF Track
<1> HIDE DEF z
<1>3. [z EXCEPT !.global = g] = [name |-> n, artist |-> a, by |-> x.by, global |-> g]
  BY <1>2 DEF Track
<1>4. QED
  BY <1>3 DEF y, z, Retitled

\* What an update makes of the track's row.
LEMMA TrackUpdated ==
    ASSUME RowsOK, NEW q, Active(q), q.op = "updateTrack",
           TrackExists(q.track), ArtistExists(q.artist),
           tracks' = [tracks EXCEPT ![q.track].name = q.name, ![q.track].artist = q.artist,
                                    ![q.track].global = q.global]
    PROVE  \E row \in Track :
              /\ row = [name |-> q.name, artist |-> q.artist, by |-> tracks[q.track].by,
                        global |-> q.global]
              /\ row.name = q.name /\ row.artist = q.artist /\ row.global = q.global
              /\ tracks' = [tracks EXCEPT ![q.track] = row]
<1>1. q.name \in Names /\ q.global \in BOOLEAN
  BY ActiveTypes DEF WellAsked, NamingOps, Request
<1>2. q.track \in Ids /\ tracks[q.track] \in Track /\ q.artist \in Ids
  BY DEF RowsOK, TracksOK, TrackExists, ArtistExists
<1>r. PICK row : row = [name |-> q.name, artist |-> q.artist, by |-> tracks[q.track].by,
                        global |-> q.global]
  OBVIOUS
<1>3. tracks' = [tracks EXCEPT ![q.track] = row]
  <2>1. DOMAIN tracks = Ids
    BY DEF RowsOK, TracksOK
  <2>2. tracks' = [tracks EXCEPT ![q.track] = Retitled(tracks[q.track], q.name, q.artist, q.global)]
    BY <1>2, <2>1 DEF Retitled
  <2>3. Retitled(tracks[q.track], q.name, q.artist, q.global) = row
    BY <1>1, <1>2, <1>r, TrackChanged
  <2>4. QED
    BY <2>2, <2>3
<1>4. row \in Track /\ row.name = q.name /\ row.artist = q.artist /\ row.global = q.global
  BY <1>1, <1>2, <1>r DEF Track
<1>5. QED
  BY <1>r, <1>3, <1>4

\* An updated track has an artist and an album that are there.
LEMMA UpdateTrackRows ==
    ASSUME RowsOK, NEW r, NEW q, Active(q), UpdateTrack(r, q)
    PROVE  RowsOK' /\ CountsUp
<1>1. UNCHANGED <<artists, albums, created, listed>> /\ CountsUp
  BY SameCounts DEF UpdateTrack, RowsOK
<1>2. CASE UNCHANGED <<tracks, filed>>
  BY <1>1, <1>2, SameRows DEF rows
<1>t. PICK t : t = q.track
  OBVIOUS
<1>3. CASE /\ TrackExists(t) /\ ArtistExists(q.artist) /\ AlbumExists(q.album)
           /\ tracks' = [tracks EXCEPT ![t].name = q.name, ![t].artist = q.artist,
                                       ![t].global = q.global]
           /\ filed' = {e \in filed : e[1] # t} \union {<<t, q.album>>}
  <2>1. t \in Ids
    BY <1>3 DEF TrackExists
  <2>2. PICK row \in Track : tracks' = [tracks EXCEPT ![t] = row] /\ row.artist = q.artist
    BY <1>3, <1>t, TrackUpdated DEF UpdateTrack
  <2>3. tracks' = [tracks EXCEPT ![t] = row]
    BY <2>2
  <2>4. ArtistExists(row.artist)
    BY <1>3, <2>2
  <2>f. PICK F : F = {e \in filed : e[1] # t}
    OBVIOUS
  <2>5. F \in SUBSET filed /\ filed' = F \union {<<t, q.album>>}
    BY <1>3, <2>f
  <2>6. ArtistsOK' /\ AlbumsOK' /\ AlbumExists(q.album)'
        /\ \A i : AlbumExists(i) => AlbumExists(i)'
    BY <1>1, <1>3 DEF RowsOK, ArtistsOK, AlbumsOK, ArtistExists, AlbumExists
  <2>7. /\ created' \in [Kinds \union {"track"} -> Nat] /\ UNCHANGED <<artists, listed>>
        /\ t <= created'.track /\ created.track <= created'.track
    <3>1. created.track \in Nat
      BY DEF RowsOK, Kinds
    <3>2. QED
      BY <1>1, <1>3, <2>1, <3>1 DEF RowsOK, TracksOK
  <2>8. RowsOK'
    BY <2>1, <2>3, <2>4, <2>5, <2>6, <2>7, TrackWritten
  <2>9. QED
    BY <1>1, <2>8
<1>4. QED
  BY <1>2, <1>3, <1>t DEF UpdateTrack

\* Every step of a request keeps the rows in order.
LEMMA ServesRows ==
    ASSUME RowsOK, NEW r, NEW q, Active(q), At(q, "insert") => Room, Serves(r, q)
    PROVE  RowsOK' /\ CountsUp
<1>1. ASSUME UNCHANGED rows
      PROVE  RowsOK' /\ CountsUp
  <2>1. UNCHANGED created
    BY <1>1 DEF rows
  <2>2. QED
    BY <1>1, <2>1, SameRows, SameCounts DEF RowsOK
<1>2. CASE CreateArtist(r, q) \/ CreateAlbum(r, q) \/ CreateTrackWithAlbum(r, q)
  <2>1. Room
    BY <1>2 DEF CreateArtist, CreateAlbum, CreateTrackWithAlbum
  <2>2. QED
    BY <1>2, <2>1, CreateArtistRows, CreateAlbumRows, CreateTrackRows
<1>3. CASE UpdateArtist(r, q) \/ UpdateAlbum(r, q) \/ UpdateTrack(r, q)
  BY <1>3, UpdateArtistRows, UpdateAlbumRows, UpdateTrackRows
<1>4. CASE DeleteArtist(r, q) \/ DeleteAlbum(r, q) \/ DeleteTrack(r, q)
  BY <1>4, DeleteArtistRows, DeleteAlbumRows, DeleteTrackRows
<1>5. CASE AddTrackToAlbum(r, q) \/ DeleteTrackFromAlbum(r, q)
  BY <1>5, FilingRows
<1>6. CASE \/ LoadArtworkOwner(r, q) \/ PutImage(r, q) \/ RemoveImage(r, q) \/ GetImage(r, q)
           \/ CheckSuperuser(r, q) \/ LookUp(r, q) \/ ReadArtist(r, q) \/ ReadArtists(r, q)
           \/ ReadAlbum(r, q) \/ PutTrack(r, q) \/ AddToTranscodingQueue(r, q)
           \/ RemoveTrackFiles(r, q) \/ CheckAccess(r, q) \/ ListTracks(r, q)
           \/ FileTracks(r, q) \/ Search(r, q) \/ ReadDeletedTrack(r, q)
  <2>1. UNCHANGED rows
    BY <1>6 DEF data, LoadArtworkOwner, PutImage, RemoveImage, GetImage, CheckSuperuser, LookUp,
      ReadArtist, ReadArtists, ReadAlbum, PutTrack, AddToTranscodingQueue, RemoveTrackFiles,
      CheckAccess, ListTracks, FileTracks, Search, ReadDeletedTrack
  <2>2. QED
    BY <1>1, <2>1
<1>7. QED
  BY <1>2, <1>3, <1>4, <1>5, <1>6 DEF Serves

-------------------------------------------------------------------------------
(* The bucket and the faults.                                              *)

\* A request that handles an image has its key, and one that stores files a track.
LEMMA StoresTypes ==
    ASSUME NEW q, Active(q)
    PROVE  /\ At(q, "put") \/ At(q, "remove") \/ At(q, "get") =>
                 /\ q.key \in Key /\ q.key.kind = q.kind /\ q.key.id = OwnerId(q)
                 /\ OwnerId(q) \in Ids /\ TheOwner(q) \in Owner
           /\ At(q, "putFile") => q.op = "uploadTrack" /\ q.track \in Ids
<1>1. /\ q \in Request /\ \A at : At(q, at) => OpAt(q, at)
  BY ActiveTypes
<1>2. At(q, "put") \/ At(q, "remove") \/ At(q, "get") \/ At(q, "putFile") => q.step # 1
  BY <1>1 DEF OpAt, On, Creates
<1>3. At(q, "put") \/ At(q, "remove") \/ At(q, "get") \/ At(q, "putFile") => Underway(q)
  BY <1>2 DEF Active, Fresh
<1>4. At(q, "putFile") => q.op = "uploadTrack"
  BY <1>1 DEF OpAt, On
<1>5. At(q, "put") \/ At(q, "remove") \/ At(q, "get") =>
         /\ q.key \in Key /\ q.key.kind = q.kind /\ q.key.id = OwnerId(q)
         /\ OwnerId(q) \in Ids /\ q.kind \in Kinds
  BY <1>3 DEF Underway, Key
<1>6. QED
  BY <1>3, <1>4, <1>5 DEF Underway, TheOwner, Owner, Kinds

BucketOK == files \subseteq Ids /\ images \subseteq Key /\ strayed \subseteq Owner

\* The steps that change what is in the bucket.
LEMMA StoringBucket ==
    ASSUME BucketOK, NEW r, NEW q, Active(q),
           PutImage(r, q) \/ RemoveImage(r, q) \/ PutTrack(r, q) \/ RemoveTrackFiles(r, q)
    PROVE  BucketOK'
<1>1. At(q, "put") => q.key \in Key /\ TheOwner(q) \in Owner
  BY StoresTypes
<1>2. At(q, "putFile") => q.track \in Ids /\ [kind |-> "track", id |-> q.track] \in Owner
  BY StoresTypes DEF Owner
<1>3. CASE PutImage(r, q)
  BY <1>1, <1>3 DEF PutImage, BucketOK
<1>4. CASE RemoveImage(r, q)
  BY <1>4 DEF RemoveImage, BucketOK
<1>5. CASE PutTrack(r, q)
  <2>1. UNCHANGED images /\ files' \subseteq files \union {q.track}
    BY <1>5 DEF PutTrack
  <2>2. strayed' \subseteq strayed \union {[kind |-> "track", id |-> q.track]}
    BY <1>5 DEF PutTrack
  <2>3. QED
    BY <1>2, <1>5, <2>1, <2>2 DEF BucketOK, PutTrack
<1>6. CASE RemoveTrackFiles(r, q)
  BY <1>6 DEF RemoveTrackFiles, BucketOK
<1>7. QED
  BY <1>3, <1>4, <1>5, <1>6

\* The steps that change the owners of what is in the bucket.
LEMMA OwnersBucket ==
    ASSUME BucketOK, RowsOK, NEW r, NEW q, Active(q),
           \/ UpdateArtist(r, q) \/ DeleteArtist(r, q)
           \/ UpdateAlbum(r, q) \/ DeleteAlbum(r, q) \/ DeleteTrack(r, q)
    PROVE  BucketOK'
<1>1. WellAsked(q)
  BY ActiveTypes
<1>2. UNCHANGED <<files, images>>
  BY DEF UpdateArtist, DeleteArtist, UpdateAlbum, DeleteAlbum, DeleteTrack
<1>3. ASSUME NEW kind \in {"artist", "album", "track"}, NEW is \in SUBSET Ids
      PROVE  [kind : {kind}, id : is] \subseteq Owner
  BY DEF Owner
<1>4. ASSUME NEW os \in SUBSET Owner
      PROVE  Left(os) \subseteq Owner
  BY DEF Left
<1>5. \A i \in Ids : [kind |-> "artist", id |-> i] \in Owner /\ [kind |-> "album", id |-> i] \in Owner
  BY DEF Owner
<1>6. CASE UpdateArtist(r, q)
  <2>1. CASE UNCHANGED strayed
    BY <1>2, <2>1 DEF BucketOK
  <2>2. CASE /\ ArtistExists(q.artist)
             /\ strayed' = strayed \union (IF artists[q.artist] = q.name THEN {}
                                           ELSE Left({[kind |-> "artist", id |-> q.artist]}))
    <3>1. Left({[kind |-> "artist", id |-> q.artist]}) \subseteq Owner
      BY <1>4, <1>5, <2>2 DEF ArtistExists
    <3>2. QED
      BY <1>2, <2>2, <3>1 DEF BucketOK
  <2>3. QED
    BY <1>6, <2>1, <2>2 DEF UpdateArtist
<1>7. CASE UpdateAlbum(r, q)
  <2>1. CASE UNCHANGED strayed
    BY <1>2, <2>1 DEF BucketOK
  <2>2. CASE /\ AlbumExists(q.album)
             /\ strayed' = strayed \union (IF albums[q.album].name = q.name THEN {}
                                           ELSE Left({[kind |-> "album", id |-> q.album]}))
    <3>1. Left({[kind |-> "album", id |-> q.album]}) \subseteq Owner
      BY <1>4, <1>5, <2>2 DEF AlbumExists
    <3>2. QED
      BY <1>2, <2>2, <3>1 DEF BucketOK
  <2>3. QED
    BY <1>7, <2>1, <2>2 DEF UpdateAlbum
<1>8. CASE DeleteArtist(r, q)
  <2>1. q.artist \in Ids
    BY <1>1, <1>8 DEF WellAsked, DeleteArtist, OwnerId
  <2>2. CASE UNCHANGED strayed
    BY <1>2, <2>2 DEF BucketOK
  <2>3. CASE strayed' = strayed
                \union (IF Holders([kind |-> "artist", id |-> q.artist]) = {} THEN {}
                        ELSE {[kind |-> "artist", id |-> q.artist]})
                \union Left([kind : {"album"}, id : GetArtistWithAlbums(q.artist)])
                \union [kind : {"track"}, id : {t \in GetAllTracks : tracks[t].artist = q.artist}]
    <3>1. Left([kind : {"album"}, id : GetArtistWithAlbums(q.artist)]) \subseteq Owner
      BY <1>3, <1>4 DEF GetArtistWithAlbums
    <3>2. [kind : {"track"}, id : {t \in GetAllTracks : tracks[t].artist = q.artist}] \subseteq Owner
      BY <1>3 DEF GetAllTracks
    <3>3. [kind |-> "artist", id |-> q.artist] \in Owner
      BY <1>5, <2>1
    <3>4. QED
      BY <1>2, <2>3, <3>1, <3>2, <3>3 DEF BucketOK
  <2>4. QED
    BY <1>8, <2>2, <2>3 DEF DeleteArtist
<1>9. CASE DeleteAlbum(r, q)
  <2>1. [kind |-> "album", id |-> q.album] \in Owner
    BY <1>1, <1>5, <1>9 DEF WellAsked, DeleteAlbum, OwnerId
  <2>2. strayed' \subseteq strayed \union {[kind |-> "album", id |-> q.album]}
    BY <1>9 DEF DeleteAlbum
  <2>3. QED
    BY <1>2, <2>1, <2>2 DEF BucketOK
<1>10. CASE DeleteTrack(r, q)
  <2>1. CASE UNCHANGED strayed
    BY <1>2, <2>1 DEF BucketOK
  <2>2. ASSUME NEW gone \in SUBSET Ids, strayed' = strayed \union Left([kind : {"album"}, id : gone])
        PROVE  BucketOK'
    <3>1. Left([kind : {"album"}, id : gone]) \subseteq Owner
      BY <1>3, <1>4
    <3>2. QED
      BY <1>2, <2>2, <3>1 DEF BucketOK
  <2>3. QED
    BY <1>10, <2>1, <2>2 DEF DeleteTrack
<1>11. QED
  BY <1>6, <1>7, <1>8, <1>9, <1>10

\* Every step of a request keeps the bucket's types.
LEMMA ServesBucket ==
    ASSUME BucketOK, RowsOK, NEW r, NEW q, Active(q), Serves(r, q)
    PROVE  BucketOK'
<1>1. CASE UNCHANGED <<files, images, strayed>>
  BY <1>1 DEF BucketOK
<1>2. CASE PutImage(r, q) \/ RemoveImage(r, q) \/ PutTrack(r, q) \/ RemoveTrackFiles(r, q)
  BY <1>2, StoringBucket
<1>3. CASE \/ UpdateArtist(r, q) \/ DeleteArtist(r, q)
           \/ UpdateAlbum(r, q) \/ DeleteAlbum(r, q) \/ DeleteTrack(r, q)
  BY <1>3, OwnersBucket
<1>4. CASE \/ CreateArtist(r, q) \/ CreateAlbum(r, q) \/ CreateTrackWithAlbum(r, q)
           \/ AddTrackToAlbum(r, q) \/ DeleteTrackFromAlbum(r, q) \/ UpdateTrack(r, q)
  BY <1>1, <1>4 DEF CreateArtist, CreateAlbum, CreateTrackWithAlbum, AddTrackToAlbum,
    DeleteTrackFromAlbum, UpdateTrack
<1>5. CASE \/ LoadArtworkOwner(r, q) \/ GetImage(r, q) \/ CheckSuperuser(r, q) \/ LookUp(r, q)
           \/ ReadArtist(r, q) \/ ReadArtists(r, q) \/ ReadAlbum(r, q)
           \/ AddToTranscodingQueue(r, q) \/ CheckAccess(r, q) \/ ListTracks(r, q)
           \/ FileTracks(r, q) \/ Search(r, q) \/ ReadDeletedTrack(r, q)
  BY <1>1, <1>5 DEF data, LoadArtworkOwner, GetImage, CheckSuperuser, LookUp, ReadArtist,
    ReadArtists, ReadAlbum, AddToTranscodingQueue, CheckAccess, ListTracks, FileTracks, Search, ReadDeletedTrack
<1>6. QED
  BY <1>2, <1>3, <1>4, <1>5 DEF Serves

\* A step takes one fault or none.
LEMMA ServesFaults ==
    ASSUME faults \in 0..MaxFaults, NEW r, NEW q, Serves(r, q)
    PROVE  faults' \in 0..MaxFaults
<1>1. Fault \/ NoFault => faults' \in 0..MaxFaults
  BY ConstantsAssumption DEF Fault, NoFault
<1>2. /\ \A v : Proceeds(r, v) \/ Fails(r, v) \/ Done(r, v) => Fault \/ NoFault
      /\ \A v, err : Ends(r, v, err) => Fault \/ NoFault
  BY DEF Proceeds, Fails, Done, Ends
<1>3. PlainStep(r, q) => Fault \/ NoFault
  BY <1>2, PlainEnds
<1>4. CreateArtist(r, q) \/ CreateAlbum(r, q) \/ CreateTrackWithAlbum(r, q) => Fault \/ NoFault
  BY <1>2 DEF CreateArtist, CreateAlbum, CreateTrackWithAlbum
<1>5. LoadArtworkOwner(r, q) \/ CheckSuperuser(r, q) => Fault \/ NoFault
  BY <1>2 DEF LoadArtworkOwner, CheckSuperuser, RequireSuperuser, AuthorizeTrackChange
<1>6. ListTracks(r, q) \/ Search(r, q) \/ FileTracks(r, q) => Fault \/ NoFault
  BY <1>2 DEF ListTracks, Search, FileTracks
<1>7. ReadDeletedTrack(r, q) => Fault \/ NoFault
  BY <1>2 DEF ReadDeletedTrack
<1>8. QED
  BY <1>1, <1>3, <1>4, <1>5, <1>6, <1>7 DEF Serves, PlainStep

-------------------------------------------------------------------------------
(* The invariant.                                                          *)

\* A request that is served is at a place.
LEMMA ServesAt ==
    ASSUME NEW r, NEW q, Serves(r, q)
    PROVE  \E at : At(q, at)
<1>1. CASE PlainStep(r, q)
  BY <1>1, PlainEnds
<1>2. CASE \/ LoadArtworkOwner(r, q) \/ CheckSuperuser(r, q) \/ CreateArtist(r, q)
           \/ CreateAlbum(r, q) \/ CreateTrackWithAlbum(r, q) \/ ListTracks(r, q)
           \/ FileTracks(r, q) \/ Search(r, q) \/ ReadDeletedTrack(r, q)
  BY <1>2 DEF LoadArtworkOwner, CheckSuperuser, CreateArtist, CreateAlbum, CreateTrackWithAlbum,
    ListTracks, FileTracks, Search, ReadDeletedTrack
<1>3. QED
  BY <1>1, <1>2 DEF Serves, PlainStep

\* Only an insertion moves a sequence.
LEMMA ServesCounts ==
    ASSUME NEW r, NEW q, Serves(r, q), ~At(q, "insert")
    PROVE  UNCHANGED created
<1>1. CASE \/ UpdateArtist(r, q) \/ DeleteArtist(r, q) \/ UpdateAlbum(r, q) \/ DeleteAlbum(r, q)
           \/ AddTrackToAlbum(r, q) \/ DeleteTrackFromAlbum(r, q) \/ DeleteTrack(r, q)
           \/ UpdateTrack(r, q)
  BY <1>1 DEF rows, UpdateArtist, DeleteArtist, UpdateAlbum, DeleteAlbum, AddTrackToAlbum,
    DeleteTrackFromAlbum, DeleteTrack, UpdateTrack
<1>2. CASE \/ LoadArtworkOwner(r, q) \/ PutImage(r, q) \/ RemoveImage(r, q) \/ GetImage(r, q)
           \/ CheckSuperuser(r, q) \/ LookUp(r, q) \/ ReadArtist(r, q) \/ ReadArtists(r, q)
           \/ ReadAlbum(r, q) \/ PutTrack(r, q) \/ AddToTranscodingQueue(r, q)
           \/ RemoveTrackFiles(r, q) \/ CheckAccess(r, q) \/ ListTracks(r, q)
           \/ FileTracks(r, q) \/ Search(r, q) \/ ReadDeletedTrack(r, q)
  BY <1>2 DEF rows, data, LoadArtworkOwner, PutImage, RemoveImage, GetImage, CheckSuperuser,
    LookUp, ReadArtist, ReadArtists, ReadAlbum, PutTrack, AddToTranscodingQueue,
    RemoveTrackFiles, CheckAccess, ListTracks, FileTracks, Search, ReadDeletedTrack
<1>3. QED
  BY <1>1, <1>2 DEF Serves, CreateArtist, CreateAlbum, CreateTrackWithAlbum

\* The parts of the invariant.
LEMMA TypedParts ==
    Typed <=> /\ RowsOK /\ BucketOK /\ PlaceInv
              /\ begun \in 0..MaxRequests /\ faults \in 0..MaxFaults
              /\ \A k \in Kinds \union {"track"} : created[k] <= begun + MaxFounded
<1>1. TypeOK <=>
         /\ artists \in [Ids -> Names \union {Unnamed}]
         /\ albums \in [Ids -> Album \union {NoAlbum}]
         /\ tracks \in [Ids -> Track \union {NoTrack}]
         /\ created \in [Kinds \union {"track"} -> Nat]
         /\ BucketOK
         /\ begun \in 0..MaxRequests /\ faults \in 0..MaxFaults
         /\ \A a1, a2 \in Ids : a1 # a2 /\ ArtistExists(a1) => artists[a1] # artists[a2]
         /\ \A b1, b2 \in Ids : b1 # b2 /\ AlbumExists(b1) => albums[b1] # albums[b2]
         /\ \A b \in Ids : AlbumExists(b) => ArtistExists(albums[b].artist)
         /\ \A t \in Ids : TrackExists(t) => ArtistExists(tracks[t].artist)
         /\ \A e \in filed : TrackExists(e[1]) /\ AlbumExists(e[2])
         /\ \A t \in listed : TrackExists(t)
  BY DEF TypeOK, BucketOK
<1>2. QED
  BY <1>1 DEF Typed, CountInv, RowsOK, ArtistsOK, AlbumsOK, TracksOK, FiledOK

\* A request that begins finds room, and none that goes on inserts.
LEMMA BeginsTyped ==
    ASSUME Typed, begun < MaxRequests
    PROVE  Room /\ \A ask \in Asks : Fresh(Asked(ask))
<1>1. /\ created.artist \in Nat /\ created.album \in Nat /\ created.track \in Nat
      /\ created.artist <= begun + MaxFounded /\ created.album <= begun + MaxFounded /\ created.track <= begun + MaxFounded
      /\ begun \in Nat
  BY TypedParts DEF RowsOK, Kinds
<1>2. \A n \in Nat : n <= begun + MaxFounded => n + 1 \in Ids
  <2>1. ASSUME NEW n \in Nat, n <= begun + MaxFounded
        PROVE  n + 1 \in Nat \ {0} /\ n + 1 <= MaxRequests + MaxFounded
    BY <1>1, <2>1, ConstantsAssumption
  <2>2. QED
    BY <2>1, Numbers
<1>3. \A ask \in Asks : Fresh(Asked(ask))
  BY Opening DEF Typed
<1>4. QED
  BY <1>1, <1>2, <1>3 DEF Room

\* A request that goes on is under way, and inserts no more.
LEMMA GoesOn ==
    ASSUME PlaceInv, NEW r \in Requests, Serves(r, req[r])
    PROVE  Underway(req[r]) /\ Active(req[r]) /\ ~At(req[r], "insert")
<1>1. Underway(req[r])
  BY ServesAt, IdleTypes DEF PlaceInv
<1>2. req[r].step # 1 /\ Active(req[r])
  BY <1>1 DEF Underway, Active
<1>3. ~At(req[r], "insert")
  BY <1>2, ActiveTypes DEF OpAt, On
<1>4. QED
  BY <1>1, <1>2, <1>3

\* Where a step leads, each request is idle or under way.
LEMMA LeadsPlace ==
    ASSUME PlaceInv, NEW r \in Requests, NEW q, Leads(r, q)
    PROVE  PlaceInv'
<1>1. PICK m : req' = [req EXCEPT ![r] = m] /\ (m = Idle \/ Follows(q, m))
  BY DEF Leads
<1>2. m \in Request /\ (m = Idle \/ Underway(m))
  BY <1>1, IdleTypes DEF Follows, Keeps
<1>3. QED
  BY <1>1, <1>2 DEF PlaceInv

\* What a step of a request makes of the invariant.
LEMMA ServedTyped ==
    ASSUME Typed, NEW r \in Requests, NEW q, Active(q), At(q, "insert") => Room, Serves(r, q),
           begun' \in 0..MaxRequests,
           \A k \in Kinds \union {"track"} : created'[k] <= begun' + MaxFounded
    PROVE  Typed'
<1>1. TypeOK /\ RowsOK /\ BucketOK /\ PlaceInv /\ faults \in 0..MaxFaults
  BY TypedParts DEF Typed
<1>2. RowsOK'
  BY <1>1, ServesRows
<1>3. BucketOK'
  BY <1>1, ServesBucket
<1>4. faults' \in 0..MaxFaults
  BY <1>1, ServesFaults
<1>5. PlaceInv'
  BY <1>1, ServesLeads, LeadsPlace
<1>6. /\ (begun \in 0..MaxRequests)' /\ (faults \in 0..MaxFaults)'
      /\ (\A k \in Kinds \union {"track"} : created[k] <= begun + MaxFounded)'
  BY <1>4
<1>7. QED
  BY <1>2, <1>3, <1>5, <1>6, TypedParts, PTL

\* The invariant is kept by every step.
LEMMA TypedStep ==
    ASSUME Typed, [Next]_vars
    PROVE  Typed'
<1>1. CASE UNCHANGED vars
  <2>1. UNCHANGED <<artists, albums, tracks, created, filed, listed, files, images, req, begun,
                    faults, strayed>>
    BY <1>1 DEF vars, data, rows
  <2>2. TypeOK'
    BY <2>1 DEF Typed, TypeOK, ArtistExists, AlbumExists, TrackExists
  <2>3. PlaceInv' /\ CountInv' /\ (filed \subseteq Ids \X Ids)'
    BY <2>1 DEF Typed, PlaceInv, CountInv, ArtistExists, AlbumExists, TrackExists
  <2>4. QED
    BY <2>2, <2>3 DEF Typed
<1>2. /\ begun \in Nat /\ begun \in 0..MaxRequests
      /\ \A k \in Kinds \union {"track"} : created[k] \in Nat /\ created[k] <= begun + MaxFounded
  BY TypedParts DEF RowsOK
<1>3. ASSUME NEW r \in Requests, Begins(r)
      PROVE  Typed'
  <2>1. PICK ask \in Asks : Serves(r, Asked(ask))
    BY <1>3 DEF Begins
  <2>q. PICK q : q = Asked(ask)
    OBVIOUS
  <2>2. Room /\ Active(q) /\ Serves(r, q)
    BY <1>3, <2>1, <2>q, BeginsTyped DEF Begins, Active
  <2>3. begun' \in 0..MaxRequests /\ begun' = begun + 1
    BY <1>2, <1>3, ConstantsAssumption DEF Begins
  <2>4. CountsUp
    BY <2>2, ServesRows, TypedParts
  <2>5. \A k \in Kinds \union {"track"} : created'[k] <= begun' + MaxFounded
    BY <1>2, <2>3, <2>4, ConstantsAssumption DEF CountsUp
  <2>6. QED
    BY <2>2, <2>3, <2>5, ServedTyped
<1>4. ASSUME NEW r \in Requests, Continues(r)
      PROVE  Typed'
  <2>1. Active(req[r]) /\ ~At(req[r], "insert") /\ Serves(r, req[r]) /\ UNCHANGED begun
    BY <1>4, GoesOn DEF Continues, Typed
  <2>2. UNCHANGED created
    BY <2>1, ServesCounts
  <2>3. begun' \in 0..MaxRequests /\ \A k \in Kinds \union {"track"} : created'[k] <= begun' + MaxFounded
    BY <1>2, <2>1, <2>2
  <2>4. QED
    BY <2>1, <2>3, ServedTyped
<1>5. QED
  BY <1>1, <1>3, <1>4 DEF Next

\* The library at the start is in order.
LEMMA TypedInit ==
    ASSUME Init
    PROVE  Typed
<1>A. PICK As : As = Founded.artists
  OBVIOUS
<1>B. PICK Bs : Bs = Founded.albums
  OBVIOUS
<1>T. PICK Ts : Ts = Founded.tracks
  OBVIOUS
<1>1. /\ As \in Seq(Names) /\ Bs \in Seq(Album) /\ Ts \in Seq(Track)
      /\ (1..Len(As)) \union (1..Len(Bs)) \union (1..Len(Ts)) \subseteq 1..MaxFounded
      /\ \A a1, a2 \in 1..Len(As) : a1 # a2 => As[a1] # As[a2]
      /\ \A b1, b2 \in 1..Len(Bs) : b1 # b2 => Bs[b1] # Bs[b2]
      /\ \A b \in 1..Len(Bs) : Bs[b].artist \in 1..Len(As)
      /\ \A t \in 1..Len(Ts) : Ts[t].artist \in 1..Len(As)
      /\ Founded.filed \subseteq SUBSET ((1..Len(Ts)) \X (1..Len(Bs)))
      /\ Founded.listed \subseteq SUBSET (1..Len(Ts))
  BY <1>A, <1>B, <1>T, ConstantsAssumption DEF WellFounded
<1>2. /\ DOMAIN As = 1..Len(As) /\ DOMAIN Bs = 1..Len(Bs) /\ DOMAIN Ts = 1..Len(Ts)
      /\ Len(As) \in Nat /\ Len(Bs) \in Nat /\ Len(Ts) \in Nat
      /\ \A a \in 1..Len(As) : As[a] \in Names
      /\ \A b \in 1..Len(Bs) : Bs[b] \in Album
      /\ \A t \in 1..Len(Ts) : Ts[t] \in Track
  BY <1>1
<1>3. /\ (1..Len(As)) \subseteq Ids /\ (1..Len(Bs)) \subseteq Ids /\ (1..Len(Ts)) \subseteq Ids
      /\ Len(As) <= MaxFounded /\ Len(Bs) <= MaxFounded /\ Len(Ts) <= MaxFounded
  <2>1. 1..MaxFounded \subseteq Ids
    BY ConstantsAssumption DEF Ids
  <2>2. \A n \in Nat : 1..n \subseteq 1..MaxFounded => n <= MaxFounded
    <3>1. ASSUME NEW n \in Nat, 1..n \subseteq 1..MaxFounded, ~(n <= MaxFounded)
          PROVE  FALSE
      <4>1. MaxFounded + 1 \in 1..n
        BY <3>1, ConstantsAssumption
      <4>2. QED
        BY <3>1, <4>1, ConstantsAssumption
    <3>2. QED
      BY <3>1
  <2>3. (1..Len(As)) \subseteq 1..MaxFounded /\ (1..Len(Bs)) \subseteq 1..MaxFounded /\ (1..Len(Ts)) \subseteq 1..MaxFounded
    BY <1>1
  <2>4. QED
    BY <1>2, <2>1, <2>2, <2>3
<1>4. /\ artists = [a \in Ids |-> IF a \in 1..Len(As) THEN As[a] ELSE Unnamed]
      /\ albums = [b \in Ids |-> IF b \in 1..Len(Bs) THEN Bs[b] ELSE NoAlbum]
      /\ tracks = [t \in Ids |-> IF t \in 1..Len(Ts) THEN Ts[t] ELSE NoTrack]
      /\ created = [artist |-> Len(As), album |-> Len(Bs), track |-> Len(Ts)]
      /\ filed \in Founded.filed /\ listed \in Founded.listed /\ files = 1..Len(Ts)
  BY <1>A, <1>B, <1>T, <1>2 DEF Init
<1>5. /\ \A i : ArtistExists(i) <=> i \in 1..Len(As)
      /\ \A i : AlbumExists(i) <=> i \in 1..Len(Bs)
      /\ \A i : TrackExists(i) <=> i \in 1..Len(Ts)
  BY <1>2, <1>3, <1>4, NoRows DEF ArtistExists, AlbumExists, TrackExists
<1>6. /\ created \in [Kinds \union {"track"} -> Nat]
      /\ created.artist = Len(As) /\ created.album = Len(Bs) /\ created.track = Len(Ts)
  BY <1>2, <1>4 DEF Kinds
<1>7. ArtistsOK
  <2>1. artists \in [Ids -> Names \union {Unnamed}]
    BY <1>2, <1>4
  <2>2. \A a1, a2 \in Ids : a1 # a2 /\ ArtistExists(a1) => artists[a1] # artists[a2]
    BY <1>1, <1>2, <1>3, <1>4, <1>5, NoRows
  <2>3. \A a \in Ids : ArtistExists(a) => a <= created.artist
    BY <1>2, <1>5, <1>6
  <2>4. QED
    BY <2>1, <2>2, <2>3 DEF ArtistsOK
<1>8. AlbumsOK
  <2>1. albums \in [Ids -> Album \union {NoAlbum}]
    BY <1>2, <1>4
  <2>2. \A b1, b2 \in Ids : b1 # b2 /\ AlbumExists(b1) => albums[b1] # albums[b2]
    BY <1>1, <1>2, <1>3, <1>4, <1>5, NoRows
  <2>3. \A b \in Ids : AlbumExists(b) => ArtistExists(albums[b].artist) /\ b <= created.album
    BY <1>1, <1>2, <1>4, <1>5, <1>6
  <2>4. QED
    BY <2>1, <2>2, <2>3 DEF AlbumsOK
<1>9. TracksOK
  <2>1. tracks \in [Ids -> Track \union {NoTrack}]
    BY <1>2, <1>4
  <2>2. \A t \in Ids : TrackExists(t) => ArtistExists(tracks[t].artist) /\ t <= created.track
    BY <1>1, <1>2, <1>4, <1>5, <1>6
  <2>3. QED
    BY <2>1, <2>2 DEF TracksOK
<1>10. FiledOK
  <2>1. filed \subseteq (1..Len(Ts)) \X (1..Len(Bs)) /\ listed \subseteq 1..Len(Ts)
    BY <1>1, <1>4
  <2>2. QED
    BY <1>3, <1>5, <2>1 DEF FiledOK
<1>11. BucketOK
  BY <1>3, <1>4 DEF Init, BucketOK
<1>12. PlaceInv
  BY IdleTypes DEF Init, PlaceInv
<1>13. /\ begun \in 0..MaxRequests /\ faults \in 0..MaxFaults
       /\ \A k \in Kinds \union {"track"} : created[k] <= begun + MaxFounded
  BY <1>3, <1>6, ConstantsAssumption DEF Init, Kinds
<1>14. QED
  BY <1>6, <1>7, <1>8, <1>9, <1>10, <1>11, <1>12, <1>13, TypedParts DEF RowsOK

\* So it always holds.
LEMMA TypedAlways == Spec => []Typed
<1>1. Init => Typed
  BY TypedInit
<1>2. Typed /\ [Next]_vars => Typed'
  BY TypedStep
<1>3. QED
  BY <1>1, <1>2, PTL DEF Spec

\* Names stay unique, and no row refers to one that is gone, whatever requests
\* create, rename, file and delete at once (the keys and references of the schema
\* under the transactions of ArtistService, AlbumService and TrackService).
THEOREM TypeCorrect == Spec => []TypeOK
<1>1. Typed => TypeOK
  BY DEF Typed
<1>2. QED
  BY <1>1, TypedAlways, PTL

-------------------------------------------------------------------------------
(* A step of the system is a step of one request.                          *)

\* It begins or it goes on.
Served(r, q) ==
    /\ Serves(r, q)
    /\ \/ req[r] = Idle /\ Fresh(q) /\ Room
       \/ req[r] = q /\ Underway(q) /\ ~At(q, "insert")

\* Every step of the system is one of a request that begins or goes on.
LEMMA NextServed ==
    ASSUME Typed, Next
    PROVE  \E r \in Requests : \E q : Served(r, q) /\ Active(q)
<1>1. ASSUME NEW r \in Requests, Begins(r)
      PROVE  \E q : Served(r, q) /\ Active(q)
  <2>1. PICK ask \in Asks : Serves(r, Asked(ask))
    BY <1>1 DEF Begins
  <2>2. Room /\ Fresh(Asked(ask)) /\ req[r] = Idle
    BY <1>1, <2>1, BeginsTyped DEF Begins
  <2>3. QED
    BY <2>1, <2>2 DEF Served, Active
<1>2. ASSUME NEW r \in Requests, Continues(r)
      PROVE  \E q : Served(r, q) /\ Active(q)
  <2>1. Serves(r, req[r])
    BY <1>2 DEF Continues
  <2>2. Underway(req[r]) /\ Active(req[r]) /\ ~At(req[r], "insert")
    BY <2>1, GoesOn DEF Typed
  <2>3. QED
    BY <2>1, <2>2 DEF Served
<1>3. QED
  BY <1>1, <1>2 DEF Next

\* Only this request changes, and not to itself unless a list goes on.
LEMMA ServedLeads ==
    ASSUME Typed, NEW r \in Requests, NEW q, Served(r, q), Active(q)
    PROVE  \E m : /\ req' = [req EXCEPT ![r] = m]
                  /\ req'[r] = m /\ \A s \in Requests \ {r} : req'[s] = req[s]
                  /\ m = Idle \/ Follows(q, m)
                  /\ At(q, "albumOfEach") \/ m # q
<1>1. TypeOK /\ (At(q, "insert") => Room) /\ Serves(r, q) /\ req \in [Requests -> Request]
  BY DEF Served, Typed, PlaceInv
<1>2. PICK m : req' = [req EXCEPT ![r] = m] /\ (m = Idle \/ Follows(q, m))
  BY <1>1, ServesLeads DEF Leads
<1>3. q.op # "none" /\ q.step \in Nat
  BY ActiveTypes DEF Request
<1>4. At(q, "albumOfEach") \/ m # q
  BY <1>2, <1>3, IdleTypes DEF Follows
<1>5. QED
  BY <1>1, <1>2, <1>4

-------------------------------------------------------------------------------
(* Who may change what.                                                    *)

\* At a check a request is checked.
LEMMA Checked ==
    ASSUME NEW r, NEW q, Serves(r, q), At(q, "super")
    PROVE  CheckSuperuser(r, q)
<1>1. ~PlainStep(r, q)
  BY PlainEnds, OnePlace
<1>2. ~LoadArtworkOwner(r, q) /\ ~FileTracks(r, q)
  BY OnePlace DEF LoadArtworkOwner, FileTracks
<1>3. ~CreateArtist(r, q) /\ ~CreateAlbum(r, q) /\ ~CreateTrackWithAlbum(r, q)
  BY OnePlace DEF CreateArtist, CreateAlbum, CreateTrackWithAlbum
<1>4. ~ListTracks(r, q) /\ ~Search(r, q) /\ ~ReadDeletedTrack(r, q)
  BY OnePlace DEF ListTracks, Search, ReadDeletedTrack
<1>5. QED
  BY <1>1, <1>2, <1>3, <1>4 DEF Serves, PlainStep

\* A change begins with the check.
LEMMA ChecksFirst ==
    ASSUME NEW q, Active(q), q.op \in ChangeOps
    PROVE  At(q, "super") <=> q.step = 1
<1>1. q.op # "none" /\ q.step \in 1..Len(Steps(q)) /\ \A at : At(q, at) => OpAt(q, at)
  BY ActiveTypes
<1>2. OpAt(q, Steps(q)[q.step])
  BY <1>1 DEF At
<1>3. q.step = 1 => Steps(q)[q.step] = "super"
  BY <1>2 DEF OpAt, On, ChangeOps, Creates, ImageOps
<1>4. At(q, "super") => q.step = 1
  BY <1>1 DEF OpAt, On
<1>5. QED
  BY <1>1, <1>3, <1>4 DEF At

\* What has passed the check stays one that has.
LEMMA PassedStep ==
    ASSUME Typed, PassedInv, [Next]_vars
    PROVE  PassedInv'
<1>1. CASE UNCHANGED vars
  BY <1>1 DEF vars, PassedInv
<1>2. CASE Next
  <2>a. PICK r \in Requests : \E q : Served(r, q) /\ Active(q)
    BY <1>2, NextServed
  <2>1. PICK q : Served(r, q) /\ Active(q)
    BY <2>a
  <2>2. PICK m : /\ req'[r] = m /\ \A s \in Requests \ {r} : req'[s] = req[s]
                 /\ m = Idle \/ Follows(q, m)
    BY <2>1, ServedLeads
  <2>3. m.op \in ChangeOps =>
           m.user \in Superusers \/ (m.unchecked /\ m.op \notin {"deleteTrack", "updateTrack"})
    <3>1. CASE m = Idle
      BY <3>1, IdleTypes DEF ChangeOps
    <3>2. CASE Follows(q, m) /\ m.op \in ChangeOps
      <4>1. m.op = q.op /\ m.user = q.user /\ q.op \in ChangeOps
        BY <3>2 DEF Follows, Keeps
      <4>2. CASE At(q, "super")
        <5>1. CheckSuperuser(r, q)
          BY <2>1, <4>2, Checked DEF Served
        <5>2. PICK n : req' = [req EXCEPT ![r] = n] /\ (n = Idle \/ Passes(q, n))
          BY <2>1, <5>1, SuperLeads
        <5>3. n = m
          BY <2>2, <5>2 DEF Typed, PlaceInv
        <5>4. QED
          BY <3>2, <4>1, <5>2, <5>3, IdleTypes DEF Passes, ChangeOps
      <4>3. CASE ~At(q, "super")
        <5>1. q.step # 1
          BY <2>1, <4>1, <4>3, ChecksFirst
        <5>2. req[r] = q
          BY <2>1, <5>1 DEF Served, Fresh
        <5>3. m.unchecked = q.unchecked
          BY <3>2, <4>3 DEF Follows, KeepsMost
        <5>4. QED
          BY <4>1, <5>2, <5>3 DEF PassedInv, ChangeOps
      <4>4. QED
        BY <4>2, <4>3
    <3>3. QED
      BY <2>2, <3>1, <3>2
  <2>4. QED
    BY <2>2, <2>3 DEF PassedInv, ChangeOps
<1>3. QED
  BY <1>1, <1>2

\* What is there stays as it is.
KeepsTracks == \A t \in GetAllTracks : tracks'[t] = tracks[t]
KeepsRest ==
    /\ filed \subseteq filed' /\ \A e \in filed' \ filed : ~TrackExists(e[1])
    /\ \A b \in Ids : AlbumExists(b) => albums'[b] = albums[b]
    /\ \A a \in Ids : ArtistExists(a) => artists'[a] = artists[a]

\* An id that has not been given out has no row.
LEMMA NewIds ==
    ASSUME RowsOK
    PROVE  /\ ~ArtistExists(created.artist + 1) /\ ~AlbumExists(created.album + 1)
           /\ ~TrackExists(created.track + 1)
<1>1. created.artist \in Nat /\ created.album \in Nat /\ created.track \in Nat
  BY DEF RowsOK, Kinds
<1>2. /\ ~(created.artist + 1 <= created.artist) /\ ~(created.album + 1 <= created.album)
      /\ ~(created.track + 1 <= created.track)
  BY <1>1
<1>3. QED
  BY <1>2 DEF RowsOK, ArtistsOK, AlbumsOK, TracksOK, ArtistExists, AlbumExists, TrackExists

\* An insertion changes nothing that is there.
LEMMA InsertKeeps ==
    ASSUME RowsOK, NEW r, NEW q,
           CreateArtist(r, q) \/ CreateAlbum(r, q) \/ CreateTrackWithAlbum(r, q)
    PROVE  KeepsTracks /\ KeepsRest
<1>a. PICK a : a = created.artist + 1
  OBVIOUS
<1>b. PICK b : b = created.album + 1
  OBVIOUS
<1>t. PICK t : t = created.track + 1
  OBVIOUS
<1>1. ~ArtistExists(a) /\ ~AlbumExists(b) /\ ~TrackExists(t)
  BY <1>a, <1>b, <1>t, NewIds
<1>2. /\ artists \in [Ids -> Names \union {Unnamed}]
      /\ albums \in [Ids -> Album \union {NoAlbum}] /\ tracks \in [Ids -> Track \union {NoTrack}]
  BY DEF RowsOK, ArtistsOK, AlbumsOK, TracksOK
<1>3. CASE CreateArtist(r, q)
  <2>1. \/ UNCHANGED artists
        \/ artists' = [artists EXCEPT ![a] = q.name]
    BY <1>3, <1>a DEF CreateArtist
  <2>2. UNCHANGED <<albums, tracks, filed>>
    BY <1>3 DEF CreateArtist
  <2>3. \A i \in Ids : ArtistExists(i) => artists'[i] = artists[i]
    BY <1>1, <1>2, <2>1
  <2>4. QED
    BY <2>2, <2>3 DEF KeepsTracks, KeepsRest
<1>4. CASE CreateAlbum(r, q)
  <2>1. \/ UNCHANGED albums
        \/ albums' = [albums EXCEPT ![b] = [name |-> q.name, artist |-> q.artist]]
    BY <1>4, <1>b DEF CreateAlbum
  <2>2. UNCHANGED <<artists, tracks, filed>>
    BY <1>4 DEF CreateAlbum
  <2>3. \A i \in Ids : AlbumExists(i) => albums'[i] = albums[i]
    BY <1>1, <1>2, <2>1
  <2>4. QED
    BY <2>2, <2>3 DEF KeepsTracks, KeepsRest
<1>5. CASE CreateTrackWithAlbum(r, q)
  <2>1. UNCHANGED artists
    BY <1>5 DEF CreateTrackWithAlbum
  <2>2. \/ UNCHANGED <<albums, tracks, filed>>
        \/ /\ \E row : tracks' = [tracks EXCEPT ![t] = row]
           /\ UNCHANGED albums \/ \E row : albums' = [albums EXCEPT ![b] = row]
           /\ \E i : filed' = filed \union {<<t, i>>}
    BY <1>5, <1>b, <1>t DEF CreateTrackWithAlbum
  <2>3. \A i \in Ids : AlbumExists(i) => albums'[i] = albums[i]
    BY <1>1, <1>2, <2>2
  <2>4. \A i \in Ids : TrackExists(i) => tracks'[i] = tracks[i]
    BY <1>1, <1>2, <2>2
  <2>5. filed \subseteq filed' /\ \A e \in filed' \ filed : ~TrackExists(e[1])
    BY <1>1, <2>2
  <2>6. QED
    BY <2>1, <2>3, <2>4, <2>5 DEF KeepsTracks, KeepsRest, GetAllTracks
<1>6. QED
  BY <1>3, <1>4, <1>5

\* Behind its first step, only a request whose operation is checked, and the
\* deletion of an artist, changes what is there.
LEMMA ChangesChecked ==
    ASSUME RowsOK, NEW r, NEW q, Active(q), Serves(r, q)
    PROVE  /\ KeepsTracks \/ q.op \in {"deleteTrack", "updateTrack", "deleteArtist"}
           /\ (KeepsTracks /\ KeepsRest) \/ q.op \in ChangeOps \union {"deleteArtist"}
           /\ q.step = 1 => KeepsTracks /\ KeepsRest
<1>1. \A at : At(q, at) => OpAt(q, at)
  BY ActiveTypes
<1>2. ASSUME UNCHANGED <<artists, albums, tracks, filed>>
      PROVE  KeepsTracks /\ KeepsRest
  BY <1>2 DEF KeepsTracks, KeepsRest
<1>3. CASE CreateArtist(r, q) \/ CreateAlbum(r, q) \/ CreateTrackWithAlbum(r, q)
  BY <1>3, InsertKeeps
<1>4. CASE UpdateArtist(r, q) \/ UpdateAlbum(r, q) \/ DeleteAlbum(r, q)
  <2>1. KeepsTracks /\ q.op \in {"updateArtist", "updateAlbum", "deleteAlbum"}
    BY <1>4 DEF UpdateArtist, UpdateAlbum, DeleteAlbum, KeepsTracks
  <2>2. q.step # 1
    BY <1>1, <1>4 DEF OpAt, On, UpdateArtist, UpdateAlbum, DeleteAlbum
  <2>3. QED
    BY <2>1, <2>2 DEF ChangeOps
<1>5. CASE AddTrackToAlbum(r, q) \/ DeleteTrackFromAlbum(r, q)
  <2>1. KeepsTracks
    BY <1>5 DEF AddTrackToAlbum, DeleteTrackFromAlbum, KeepsTracks
  <2>2. q.step # 1 /\ q.op \in {"putTrack", "takeTrack"}
    BY <1>1, <1>5 DEF OpAt, On, AddTrackToAlbum, DeleteTrackFromAlbum
  <2>3. QED
    BY <2>1, <2>2 DEF ChangeOps
<1>6. CASE DeleteTrack(r, q) \/ UpdateTrack(r, q) \/ DeleteArtist(r, q)
  <2>1. q.op \in {"deleteTrack", "updateTrack", "deleteArtist"}
    BY <1>6 DEF DeleteTrack, UpdateTrack, DeleteArtist
  <2>2. q.step # 1
    BY <1>1, <1>6 DEF OpAt, On, DeleteTrack, UpdateTrack, DeleteArtist
  <2>3. QED
    BY <2>1, <2>2 DEF ChangeOps
<1>7. CASE \/ LoadArtworkOwner(r, q) \/ PutImage(r, q) \/ RemoveImage(r, q) \/ GetImage(r, q)
           \/ CheckSuperuser(r, q) \/ LookUp(r, q) \/ ReadArtist(r, q) \/ ReadArtists(r, q)
           \/ ReadAlbum(r, q) \/ PutTrack(r, q) \/ AddToTranscodingQueue(r, q)
           \/ RemoveTrackFiles(r, q) \/ CheckAccess(r, q) \/ ListTracks(r, q)
           \/ FileTracks(r, q) \/ Search(r, q) \/ ReadDeletedTrack(r, q)
  <2>1. UNCHANGED rows
    BY <1>7 DEF data, LoadArtworkOwner, PutImage, RemoveImage, GetImage, CheckSuperuser, LookUp,
      ReadArtist, ReadArtists, ReadAlbum, PutTrack, AddToTranscodingQueue, RemoveTrackFiles,
      CheckAccess, ListTracks, FileTracks, Search, ReadDeletedTrack
  <2>2. QED
    BY <1>2, <2>1 DEF rows
<1>8. QED
  BY <1>3, <1>4, <1>5, <1>6, <1>7 DEF Serves

\* What a step of the request changes, it may change.
Permitted(q) ==
    LET super == q.user \in Superusers IN
    /\ \A t \in GetAllTracks : tracks'[t] # tracks[t] => super \/ q.op = "deleteArtist"
    /\ \/ super \/ q.unchecked \/ q.op = "deleteArtist"
       \/ KeepsRest

\* A step of a request changes only what it may.
LEMMA PermittedStep ==
    ASSUME Typed, PassedInv, Next, NEW s \in Requests, req'[s] # req[s]
    PROVE  Permitted(req[s])
<1>a. PICK r \in Requests : \E q : Served(r, q) /\ Active(q)
  BY NextServed
<1>1. PICK q : Served(r, q) /\ Active(q)
  BY <1>a
<1>2. s = r
  BY <1>1, ServedLeads
<1>3. RowsOK /\ Serves(r, q)
  BY <1>1, TypedParts DEF Served
<1>4. CASE q.step = 1
  BY <1>1, <1>3, <1>4, ChangesChecked DEF Permitted, KeepsTracks
<1>5. CASE q.step # 1
  <2>1. req[s] = q
    BY <1>1, <1>2, <1>5 DEF Served, Fresh
  <2>2. q.op \in ChangeOps =>
           q.user \in Superusers \/ (q.unchecked /\ q.op \notin {"deleteTrack", "updateTrack"})
    BY <2>1 DEF PassedInv, ChangeOps
  <2>3. /\ KeepsTracks \/ q.op \in {"deleteTrack", "updateTrack", "deleteArtist"}
        /\ (KeepsTracks /\ KeepsRest) \/ q.op \in ChangeOps \union {"deleteArtist"}
    BY <1>1, <1>3, ChangesChecked
  <2>4. \A t \in GetAllTracks : tracks'[t] # tracks[t] => q.user \in Superusers \/ q.op = "deleteArtist"
    BY <2>2, <2>3 DEF KeepsTracks, ChangeOps
  <2>5. q.user \in Superusers \/ q.unchecked \/ q.op = "deleteArtist" \/ KeepsRest
    BY <2>2, <2>3
  <2>6. QED
    BY <2>1, <2>4, <2>5 DEF Permitted
<1>6. QED
  BY <1>4, <1>5

\* Whatever the interleaving, what exists is changed or deleted only for superusers,
\* but for what the property names: the check that is passed by when its own read
\* fails (requireSuperuser), and the deletion of an artist by anyone.
THEOREM ChangesAreForSuperusers == Spec => OnlySuperusersChange
<1>1. Init => PassedInv
  BY IdleTypes DEF Init, PassedInv
<1>2. Typed /\ PassedInv /\ [Next]_vars => PassedInv'
  BY PassedStep
<1>3. Typed /\ PassedInv /\ [Next]_vars => [\A r \in Requests : req'[r] # req[r] => Permitted(req[r])]_vars
  BY PermittedStep
<1>4. Spec => [][\A r \in Requests : req'[r] # req[r] => Permitted(req[r])]_vars
  BY <1>1, <1>2, <1>3, TypedAlways, PTL DEF Spec
<1>5. QED
  BY <1>4 DEF OnlySuperusersChange, Permitted, KeepsRest

-------------------------------------------------------------------------------
(* How a track comes to be in no album.                                    *)

\* Why a request takes a track out of an album.
TakesOut(r, q, t, b) ==
    \/ q.op = "takeTrack" /\ q.track = t /\ q.album = b
    \/ q.op = "deleteAlbum" /\ q.album = b
    \/ q.op = "deleteArtist" /\ q.artist = albums[b].artist
    \/ /\ q.op = "deleteTrack" /\ q.track # t
       /\ \E title \in met[r].filings \intersect met[r].titles : title[2] = b

\* What a deletion of a track may have read is recorded, and it goes by what it has.
TitleInv ==
    \A r \in Requests :
       LET q == req[r] IN
       q.op = "deleteTrack" =>
          /\ Filings(q.track) \subseteq met[r].filings /\ Titles \subseteq met[r].titles
          /\ q.step \in {5, 6} => q.title \in met[r].filings
          /\ q.step = 6 /\ q.single => q.title \in met[r].titles

\* The record of a deletion of a track after a step.
LEMMA NamesRecorded ==
    ASSUME RecordNames, NEW s \in Requests, NEW m, req'[s] = m, m.op = "deleteTrack"
    PROVE  /\ met'[s].filings = (IF req[s] = Idle THEN Filings(m.track) ELSE met[s].filings)
                                    \union Filings(m.track)'
           /\ met'[s].titles = (IF req[s] = Idle THEN Titles ELSE met[s].titles) \union Titles'
<1>1. met'[s] = LET before == IF req[s] = Idle THEN [filings |-> Filings(m.track), titles |-> Titles]
                              ELSE met[s]
                    after == [filings |-> Filings(m.track)', titles |-> Titles']
                IN [filings |-> before.filings \union after.filings,
                    titles |-> before.titles \union after.titles]
  BY DEF RecordNames
<1>2. QED
  BY <1>1

\* At the two reads of the transaction a request reads.
LEMMA TitleRead ==
    ASSUME NEW r, NEW q, Serves(r, q), At(q, "readTrack") \/ At(q, "readAlbum")
    PROVE  ReadDeletedTrack(r, q)
<1>1. ~PlainStep(r, q)
  BY PlainEnds, OnePlace
<1>2. ~LoadArtworkOwner(r, q) /\ ~FileTracks(r, q) /\ ~CheckSuperuser(r, q)
  BY OnePlace DEF LoadArtworkOwner, FileTracks, CheckSuperuser
<1>3. ~CreateArtist(r, q) /\ ~CreateAlbum(r, q) /\ ~CreateTrackWithAlbum(r, q)
  BY OnePlace DEF CreateArtist, CreateAlbum, CreateTrackWithAlbum
<1>4. ~ListTracks(r, q) /\ ~Search(r, q)
  BY OnePlace DEF ListTracks, Search
<1>5. QED
  BY <1>1, <1>2, <1>3, <1>4 DEF Serves, PlainStep

\* What has been read stays among what is recorded.
LEMMA TitleStep ==
    ASSUME Typed, TitleInv, [Next]_vars
    PROVE  TitleInv'
<1>1. CASE UNCHANGED vars
  BY <1>1 DEF TitleInv, vars, data, rows, Filings, Titles, AlbumsOf, AlbumExists
<1>2. CASE Next
  <2>a. PICK r \in Requests : \E q : Served(r, q) /\ Active(q)
    BY <1>2, NextServed
  <2>1. PICK q : Served(r, q) /\ Active(q)
    BY <2>a
  <2>2. PICK m : /\ req'[r] = m /\ \A s \in Requests \ {r} : req'[s] = req[s]
                 /\ req' = [req EXCEPT ![r] = m]
                 /\ m = Idle \/ Follows(q, m)
    BY <2>1, ServedLeads
  <2>3. RecordNames
    BY <1>2 DEF Next
  <2>4. ASSUME NEW s \in Requests, NEW d, req'[s] = d, d.op = "deleteTrack"
        PROVE  /\ Filings(d.track)' \subseteq met'[s].filings /\ Titles' \subseteq met'[s].titles
               /\ d.step \in {5, 6} => d.title \in met'[s].filings
               /\ d.step = 6 /\ d.single => d.title \in met'[s].titles
    <3>1. /\ met'[s].filings = (IF req[s] = Idle THEN Filings(d.track) ELSE met[s].filings)
                                  \union Filings(d.track)'
          /\ met'[s].titles = (IF req[s] = Idle THEN Titles ELSE met[s].titles) \union Titles'
      BY <2>3, <2>4, NamesRecorded
    <3>2. CASE s # r
      <4>1. req[s] = d /\ d # Idle
        BY <2>2, <2>4, <3>2, IdleTypes
      <4>2. /\ d.step \in {5, 6} => d.title \in met[s].filings
            /\ d.step = 6 /\ d.single => d.title \in met[s].titles
        BY <2>4, <4>1 DEF TitleInv
      <4>3. QED
        BY <3>1, <4>1, <4>2
    <3>3. CASE s = r /\ d.step \in {5, 6}
      <4>1. d = m /\ Follows(q, d) /\ q.op = "deleteTrack"
        BY <2>2, <2>4, <3>3, IdleTypes DEF Follows, Keeps
      <4>2. /\ q \in Request /\ q.step \in 1..Len(Steps(q)) /\ \A at : At(q, at) => OpAt(q, at)
        BY <2>1, ActiveTypes
      <4>3. q.step \in Nat /\ d.step = q.step + 1
        <5>1. ~OpAt(q, "load") /\ ~OpAt(q, "albumOfEach")
          BY <4>1 DEF OpAt, On, Creates, ImageOps
        <5>2. QED
          BY <4>1, <4>2, <5>1 DEF Follows, Request
      <4>4. At(q, Steps(q)[q.step])
        BY <4>1 DEF At
      <4>5. OpAt(q, Steps(q)[q.step])
        BY <4>2, <4>4
      <4>6. /\ d.step = 5 => Steps(q)[q.step] = "readTrack"
            /\ d.step = 6 => Steps(q)[q.step] = "readAlbum"
        BY <4>1, <4>3, <4>5 DEF OpAt, On, Creates, ImageOps, ChangeOps
      <4>7. req[r] = q /\ q # Idle /\ q.step # 1
        BY <2>1, <3>3, <4>1, <4>3, IdleTypes DEF Served, Fresh
      <4>8. ReadDeletedTrack(r, q) /\ TypeOK
        BY <2>1, <3>3, <4>4, <4>6, TitleRead DEF Served, Typed
      <4>9. PICK n : req' = [req EXCEPT ![r] = n] /\ (n = Idle \/ (Follows(q, n) /\ Titled(q, n)))
        BY <2>1, <4>8, TitleLeads
      <4>10. n = d /\ Titled(q, d)
        BY <2>2, <2>4, <3>3, <4>1, <4>9, IdleTypes DEF Typed, PlaceInv
      <4>11. /\ Filings(q.track) \subseteq met[r].filings /\ Titles \subseteq met[r].titles
             /\ q.step = 5 => q.title \in met[r].filings
        BY <4>1, <4>7 DEF TitleInv
      <4>12. /\ d.step = 5 => d.title \in Filings(q.track)
             /\ d.step = 6 => d.title = q.title /\ (d.single => q.title \in Titles)
        BY <4>4, <4>6, <4>10, OnePlace DEF Titled
      <4>13. req[s] # Idle /\ met[r].filings \subseteq met'[s].filings
             /\ met[r].titles \subseteq met'[s].titles
        BY <3>1, <3>3, <4>7
      <4>14. QED
        BY <3>1, <3>3, <4>3, <4>11, <4>12, <4>13
    <3>4. QED
      BY <3>1, <3>2, <3>3
  <2>5. ASSUME NEW s \in Requests, req'[s].op = "deleteTrack"
        PROVE  /\ Filings(req[s].track)' \subseteq met'[s].filings /\ Titles' \subseteq met'[s].titles
               /\ req'[s].step \in {5, 6} => req'[s].title \in met'[s].filings
               /\ req'[s].step = 6 /\ req'[s].single => req'[s].title \in met'[s].titles
    <3>d. PICK d : d = req'[s]
      OBVIOUS
    <3>1. QED
      BY <2>4, <2>5, <3>d
  <2>6. QED
    BY <2>5 DEF TitleInv
<1>3. QED
  BY <1>1, <1>2

\* So it always holds.
LEMMA TitleAlways == Spec => []TitleInv
<1>1. Init => TitleInv
  BY IdleTypes DEF Init, TitleInv
<1>2. Typed /\ TitleInv /\ [Next]_vars => TitleInv'
  BY TitleStep
<1>3. QED
  BY <1>1, <1>2, TypedAlways, PTL DEF Spec

\* Filing as a relation of ids.
LEMMA Filing ==
    ASSUME filed \subseteq Ids \X Ids
    PROVE  \A t \in Ids : GetTrack(t) <=> \E b \in Ids : <<t, b>> \in filed
BY DEF GetTrack, FiledTracks, TracksIn, AlbumsOf

\* A step takes a track that stays out of an album only for one of these reasons,
\* unless it files it anew; a new track is filed.
FiledOn(r, q) ==
    /\ \A t \in Ids : TrackExists(t)' /\ ~TrackExists(t) => \E b \in Ids : <<t, b>> \in filed'
    /\ \A t \in Ids : TrackExists(t)' =>
          \/ \E b \in Ids : <<t, b>> \in filed'
          \/ \A b \in Ids : <<t, b>> \in filed /\ <<t, b>> \notin filed' =>
                q.step # 1 /\ TakesOut(r, q, t, b)

\* Where nothing is refiled, no track leaves an album.
LEMMA SameFiling ==
    ASSUME NEW r, NEW q, filed \subseteq filed', UNCHANGED tracks
    PROVE  FiledOn(r, q)
BY DEF FiledOn, TrackExists

\* Insertions take no track out of an album.
LEMMA CreateFiling ==
    ASSUME Typed, Typed', NEW r, NEW q, Room, CreateTrackWithAlbum(r, q)
    PROVE  FiledOn(r, q)
<1>1. CASE UNCHANGED <<tracks, filed>>
  BY <1>1, SameFiling
<1>2. CASE \E t, b : /\ filed' = filed \union {<<t, b>>}
                     /\ \E row : tracks' = [tracks EXCEPT ![t] = row]
  <2>1. PICK t, b : /\ filed' = filed \union {<<t, b>>}
                    /\ \E row : tracks' = [tracks EXCEPT ![t] = row]
    BY <1>2
  <2>2. \A i \in Ids : TrackExists(i)' /\ ~TrackExists(i) => i = t
    BY <2>1 DEF Typed, TypeOK, TrackExists
  <2>3. b \in Ids
    BY <2>1 DEF Typed
  <2>4. QED
    BY <2>1, <2>2, <2>3 DEF FiledOn
<1>3. QED
  BY <1>1, <1>2 DEF CreateTrackWithAlbum

\* The deletion of an artist takes tracks out of his albums.
LEMMA DeleteArtistFiling ==
    ASSUME Typed, NEW r, NEW q, Active(q), DeleteArtist(r, q)
    PROVE  FiledOn(r, q)
<1>1. q.op = "deleteArtist" /\ q.step # 1
  BY ActiveTypes DEF DeleteArtist, OpAt, On
<1>2. CASE UNCHANGED rows
  BY <1>2, SameFiling DEF rows
<1>t. PICK ts : ts = {t \in GetAllTracks : tracks[t].artist = q.artist}
  OBVIOUS
<1>3. CASE /\ tracks' = [t \in Ids |-> IF t \in ts THEN NoTrack ELSE tracks[t]]
           /\ filed' = {e \in filed : e[1] \notin ts /\ e[2] \notin GetArtistWithAlbums(q.artist)}
  <2>1. \A t \in Ids : TrackExists(t)' => TrackExists(t) /\ t \notin ts
    BY <1>3 DEF TrackExists
  <2>2. \A t \in Ids, b \in Ids :
           TrackExists(t)' /\ <<t, b>> \in filed /\ <<t, b>> \notin filed' =>
              b \in GetArtistWithAlbums(q.artist)
    BY <1>3, <2>1
  <2>3. QED
    BY <1>1, <2>1, <2>2 DEF FiledOn, TakesOut, GetArtistWithAlbums
<1>4. QED
  BY <1>2, <1>3, <1>t DEF DeleteArtist

\* The names that a deletion of a track has found the same are among the recorded.
TitleMet(r, q) ==
    At(q, "delete") /\ q.op = "deleteTrack" /\ q.single =>
       q.title \in met[r].filings \intersect met[r].titles

\* The deletion of a track takes others out of the album that had its name.
LEMMA DeleteTrackFiling ==
    ASSUME Typed, NEW r, NEW q, Active(q), TitleMet(r, q), DeleteTrack(r, q)
    PROVE  FiledOn(r, q)
<1>1. q.op = "deleteTrack" /\ At(q, "delete") /\ q.step # 1
  BY ActiveTypes DEF DeleteTrack, OpAt, On
<1>2. CASE UNCHANGED <<tracks, filed>>
  BY <1>2, SameFiling
<1>g. PICK gone : gone = {b \in Ids : q.single /\ b = q.title[2]}
  OBVIOUS
<1>3. CASE /\ tracks' = [tracks EXCEPT ![q.track] = NoTrack]
           /\ filed' = {e \in filed : e[1] # q.track /\ e[2] \notin gone}
  <2>1. \A t \in Ids : TrackExists(t)' => TrackExists(t) /\ t # q.track
    BY <1>3 DEF TrackExists, Typed, TypeOK
  <2>2. \A t \in Ids, b \in Ids :
           TrackExists(t)' /\ <<t, b>> \in filed /\ <<t, b>> \notin filed' => b \in gone
    BY <1>3, <2>1
  <2>3. \A b \in gone : \E title \in met[r].filings \intersect met[r].titles : title[2] = b
    BY <1>1, <1>g DEF TitleMet
  <2>4. QED
    BY <1>1, <2>1, <2>2, <2>3 DEF FiledOn, TakesOut
<1>4. QED
  BY <1>2, <1>3, <1>g DEF DeleteTrack

\* An update leaves the track in the album that it names.
LEMMA UpdateTrackFiling ==
    ASSUME Typed, NEW r, NEW q, UpdateTrack(r, q)
    PROVE  FiledOn(r, q)
<1>1. CASE UNCHANGED <<tracks, filed>>
  BY <1>1, SameFiling
<1>2. CASE /\ TrackExists(q.track) /\ AlbumExists(q.album)
           /\ \E row : tracks' = [tracks EXCEPT ![q.track] = row]
           /\ filed' = {e \in filed : e[1] # q.track} \union {<<q.track, q.album>>}
  <2>1. \A t \in Ids : TrackExists(t)' => TrackExists(t)
    BY <1>2 DEF TrackExists, Typed, TypeOK
  <2>2. <<q.track, q.album>> \in filed' /\ q.album \in Ids
    BY <1>2 DEF AlbumExists
  <2>3. \A t \in Ids, b \in Ids : <<t, b>> \in filed /\ <<t, b>> \notin filed' => t = q.track
    BY <1>2
  <2>4. QED
    BY <2>1, <2>2, <2>3 DEF FiledOn
<1>3. QED
  BY <1>1, <1>2 DEF UpdateTrack

\* Every step of a request files so.
LEMMA ServesFiling ==
    ASSUME Typed, Typed', NEW r, NEW q, Active(q), At(q, "insert") => Room, TitleMet(r, q), Serves(r, q)
    PROVE  FiledOn(r, q)
<1>1. CASE CreateTrackWithAlbum(r, q)
  <2>1. Room
    BY <1>1 DEF CreateTrackWithAlbum
  <2>2. QED
    BY <1>1, <2>1, CreateFiling
<1>2. CASE DeleteArtist(r, q) \/ DeleteTrack(r, q) \/ UpdateTrack(r, q)
  BY <1>2, DeleteArtistFiling, DeleteTrackFiling, UpdateTrackFiling
<1>3. CASE DeleteAlbum(r, q)
  <2>1. q.op = "deleteAlbum" /\ q.step # 1
    BY <1>3, ActiveTypes DEF DeleteAlbum, OpAt, On
  <2>2. UNCHANGED tracks /\ \A e \in filed : e \notin filed' => e[2] = q.album
    BY <1>3 DEF DeleteAlbum
  <2>3. QED
    BY <2>1, <2>2 DEF FiledOn, TakesOut, TrackExists
<1>4. CASE DeleteTrackFromAlbum(r, q)
  <2>1. q.op = "takeTrack" /\ q.step # 1
    BY <1>4, ActiveTypes DEF DeleteTrackFromAlbum, OpAt, On
  <2>2. UNCHANGED tracks /\ \A e \in filed : e \notin filed' => e = <<q.track, q.album>>
    BY <1>4 DEF DeleteTrackFromAlbum
  <2>3. QED
    BY <2>1, <2>2 DEF FiledOn, TakesOut, TrackExists
<1>5. CASE \/ CreateArtist(r, q) \/ CreateAlbum(r, q) \/ UpdateArtist(r, q) \/ UpdateAlbum(r, q)
           \/ AddTrackToAlbum(r, q)
  <2>1. UNCHANGED tracks /\ filed \subseteq filed'
    BY <1>5 DEF CreateArtist, CreateAlbum, UpdateArtist, UpdateAlbum, AddTrackToAlbum
  <2>2. QED
    BY <2>1, SameFiling
<1>6. CASE \/ LoadArtworkOwner(r, q) \/ PutImage(r, q) \/ RemoveImage(r, q) \/ GetImage(r, q)
           \/ CheckSuperuser(r, q) \/ LookUp(r, q) \/ ReadArtist(r, q) \/ ReadArtists(r, q)
           \/ ReadAlbum(r, q) \/ PutTrack(r, q) \/ AddToTranscodingQueue(r, q)
           \/ RemoveTrackFiles(r, q) \/ CheckAccess(r, q) \/ ListTracks(r, q)
           \/ FileTracks(r, q) \/ Search(r, q) \/ ReadDeletedTrack(r, q)
  <2>1. UNCHANGED tracks /\ filed \subseteq filed'
    BY <1>6 DEF rows, data, LoadArtworkOwner, PutImage, RemoveImage, GetImage, CheckSuperuser,
      LookUp, ReadArtist, ReadArtists, ReadAlbum, PutTrack, AddToTranscodingQueue,
      RemoveTrackFiles, CheckAccess, ListTracks, FileTracks, Search, ReadDeletedTrack
  <2>2. QED
    BY <2>1, SameFiling
<1>7. QED
  BY <1>1, <1>2, <1>3, <1>4, <1>5, <1>6 DEF Serves

\* What the property says of one track.
LeftKnowingly(t) ==
    TrackExists(t)' /\ ~(GetTrack(t)') =>
       \/ TrackExists(t) /\ ~GetTrack(t)
       \/ \E r \in Requests :
             /\ req'[r] # req[r] /\ TrackExists(t) /\ AlbumsOf(t) # {}
             /\ \A b \in AlbumsOf(t) : TakesOut(r, req[r], t, b)

\* A track leaves its last album only by such a step.
LEMMA LeftKnowinglyStep ==
    ASSUME Typed, Typed', TitleInv, Next, NEW t \in Ids
    PROVE  LeftKnowingly(t)
<1> SUFFICES ASSUME TrackExists(t)', ~(GetTrack(t)'), ~(TrackExists(t) /\ ~GetTrack(t))
             PROVE  \E r \in Requests :
                       /\ req'[r] # req[r] /\ TrackExists(t) /\ AlbumsOf(t) # {}
                       /\ \A b \in AlbumsOf(t) : TakesOut(r, req[r], t, b)
  BY DEF LeftKnowingly
<1>a. PICK r \in Requests : \E q : Served(r, q) /\ Active(q)
  BY NextServed
<1>1. PICK q : Served(r, q) /\ Active(q)
  BY <1>a
<1>2. FiledOn(r, q)
  <2>1. ASSUME At(q, "delete"), q.op = "deleteTrack"
        PROVE  req[r] = q /\ q.step = 6
    BY <1>1, <2>1, ActiveTypes DEF Served, Fresh, OpAt, On
  <2>2. TitleMet(r, q)
    BY <2>1 DEF TitleInv, TitleMet
  <2>3. QED
    BY <1>1, <2>2, ServesFiling DEF Served
<1>3. \A b \in Ids : <<t, b>> \notin filed'
  BY DEF Typed, GetTrack, FiledTracks, TracksIn, AlbumsOf
<1>4. TrackExists(t) /\ \A b \in Ids : <<t, b>> \in filed => q.step # 1 /\ TakesOut(r, q, t, b)
  BY <1>2, <1>3 DEF FiledOn
<1>5. \E b \in Ids : <<t, b>> \in filed
  BY <1>4, Filing DEF Typed
<1>6. AlbumsOf(t) # {} /\ q.step # 1 /\ \A b \in AlbumsOf(t) : TakesOut(r, q, t, b)
  BY <1>4, <1>5 DEF AlbumsOf
<1>7. req[r] = q
  BY <1>1, <1>6 DEF Served, Fresh
<1>8. req'[r] # q
  <2>1. ~At(q, "albumOfEach")
    <3>1. q.op # "getTracks"
      BY <1>4, <1>5 DEF TakesOut
    <3>2. QED
      BY <1>1, <3>1, ActiveTypes DEF OpAt, On
  <2>2. QED
    BY <1>1, <2>1, ServedLeads
<1>9. QED
  BY <1>4, <1>6, <1>7, <1>8

\* A track is left in no album only by a request to take it out or to delete the
\* album or its artist, or by the deletion of another track that was in the album
\* and had its name, each at some time since that deletion began: the transaction
\* of DeleteTrack locks nothing of what it reads before it deletes the album.
\* Between the statements of an upload or of an update no track is left so.
THEOREM AlbumsLeftKnowingly == Spec => AlbumsAreLeftKnowingly
<1>1. Typed /\ [Next]_vars => Typed'
  BY TypedStep
<1>2. Typed /\ Typed' /\ TitleInv /\ [Next]_vars => [\A t \in Ids : LeftKnowingly(t)]_vars
  BY LeftKnowinglyStep
<1>3. Spec => [][\A t \in Ids : LeftKnowingly(t)]_vars
  BY <1>1, <1>2, TypedAlways, TitleAlways, PTL DEF Spec
<1>4. QED
  BY <1>3 DEF AlbumsAreLeftKnowingly, LeftKnowingly, TakesOut

-------------------------------------------------------------------------------
(* What is in the bucket has an owner.                                     *)

\* A name that changes or goes strays its owner, if anything has a key with it.
Strays(o) ==
    \/ NameOf(o.kind, o.id) = Unnamed
    \/ NameOf(o.kind, o.id)' = NameOf(o.kind, o.id)
    \/ o \in strayed'
    \/ ImagesOf(o) \union Holders(o) = {}
NamesStray == \A kind \in Kinds, i \in Ids : Strays([kind |-> kind, id |-> i])

\* A track that goes while a file of it is there is strayed.
FilesStray ==
    /\ strayed \subseteq strayed'
    /\ \A t \in files : TrackExists(t) => TrackExists(t)' \/ [kind |-> "track", id |-> t] \in strayed'

\* The name of an artist changes.
LEMMA ArtistStrays ==
    ASSUME UNCHANGED albums, NEW a,
           \A i \in Ids : artists[i] # Unnamed /\ i # a => artists'[i] = artists[i],
           a \in Ids => Strays([kind |-> "artist", id |-> a])
    PROVE  NamesStray
<1> SUFFICES ASSUME NEW kind \in Kinds, NEW i \in Ids
             PROVE  Strays([kind |-> kind, id |-> i])
  BY DEF NamesStray
<1>1. CASE kind = "artist"
  BY <1>1 DEF Strays, NameOf
<1>2. CASE kind = "album"
  BY <1>2 DEF Strays, NameOf
<1>3. QED
  BY <1>1, <1>2 DEF Kinds

\* The names of some albums change.
LEMMA AlbumsStray ==
    ASSUME UNCHANGED artists, NEW B,
           \A i \in Ids : albums[i] # NoAlbum /\ i \notin B => albums'[i].name = albums[i].name,
           \A b \in B \intersect Ids : Strays([kind |-> "album", id |-> b])
    PROVE  NamesStray
<1> SUFFICES ASSUME NEW kind \in Kinds, NEW i \in Ids
             PROVE  Strays([kind |-> kind, id |-> i])
  BY DEF NamesStray
<1>1. CASE kind = "artist"
  BY <1>1 DEF Strays, NameOf
<1>2. CASE kind = "album"
  BY <1>2 DEF Strays, NameOf, NoAlbum
<1>3. QED
  BY <1>1, <1>2 DEF Kinds

\* Insertions change no name.
LEMMA CreateStrays ==
    ASSUME RowsOK, NEW r, NEW q,
           CreateArtist(r, q) \/ CreateAlbum(r, q) \/ CreateTrackWithAlbum(r, q)
    PROVE  NamesStray /\ FilesStray
<1>1. KeepsTracks /\ KeepsRest
  BY InsertKeeps
<1>2. UNCHANGED strayed
  BY DEF CreateArtist, CreateAlbum, CreateTrackWithAlbum
<1>3. FilesStray
  BY <1>1, <1>2 DEF KeepsTracks, GetAllTracks, FilesStray, TrackExists
<1>4. NamesStray
  <2>1. \A kind \in Kinds, i \in Ids :
           NameOf(kind, i) # Unnamed => NameOf(kind, i)' = NameOf(kind, i)
    BY <1>1 DEF KeepsRest, NameOf, Kinds, ArtistExists, AlbumExists, NoAlbum
  <2>2. QED
    BY <2>1 DEF NamesStray, Strays
<1>5. QED
  BY <1>3, <1>4

\* A change of name strays the owner, if he has something under the old one.
LEMMA UpdateStrays ==
    ASSUME RowsOK, NEW r, NEW q, Active(q),
           UpdateArtist(r, q) \/ UpdateAlbum(r, q) \/ UpdateTrack(r, q)
    PROVE  NamesStray /\ FilesStray
<1>1. /\ artists \in [Ids -> Names \union {Unnamed}]
      /\ albums \in [Ids -> Album \union {NoAlbum}] /\ tracks \in [Ids -> Track \union {NoTrack}]
  BY DEF RowsOK, ArtistsOK, AlbumsOK, TracksOK
<1>2. CASE UpdateArtist(r, q)
  <2>1. FilesStray /\ UNCHANGED albums
    BY <1>2 DEF UpdateArtist, FilesStray, TrackExists
  <2>2. \A i \in Ids : i # q.artist => artists'[i] = artists[i]
    BY <1>1, <1>2 DEF UpdateArtist
  <2>3. q.artist \in Ids => Strays([kind |-> "artist", id |-> q.artist])
    <3>1. CASE UNCHANGED artists
      BY <3>1 DEF Strays, NameOf
    <3>2. CASE /\ ArtistExists(q.artist)
               /\ artists' = [artists EXCEPT ![q.artist] = q.name]
               /\ strayed' = strayed \union (IF artists[q.artist] = q.name THEN {}
                                             ELSE Left({[kind |-> "artist", id |-> q.artist]}))
      BY <1>1, <3>2 DEF Strays, NameOf, Left
    <3>3. QED
      BY <1>2, <3>1, <3>2 DEF UpdateArtist
  <2>4. QED
    BY <2>1, <2>2, <2>3, ArtistStrays
<1>3. CASE UpdateAlbum(r, q)
  <2>1. FilesStray /\ UNCHANGED artists
    BY <1>3 DEF UpdateAlbum, FilesStray, TrackExists
  <2>2. \A i \in Ids : i \notin {q.album} => albums'[i].name = albums[i].name
    BY <1>1, <1>3 DEF UpdateAlbum
  <2>3. q.album \in Ids => Strays([kind |-> "album", id |-> q.album])
    <3>1. CASE UNCHANGED albums
      BY <3>1 DEF Strays, NameOf
    <3>2. CASE /\ AlbumExists(q.album)
               /\ albums' = [albums EXCEPT ![q.album] = [name |-> q.name, artist |-> q.artist]]
               /\ strayed' = strayed \union (IF albums[q.album].name = q.name THEN {}
                                             ELSE Left({[kind |-> "album", id |-> q.album]}))
      BY <1>1, <3>2 DEF Strays, NameOf, Left
    <3>3. QED
      BY <1>3, <3>1, <3>2 DEF UpdateAlbum
  <2>4. /\ \A i \in Ids : albums[i] # NoAlbum /\ i \notin {q.album} =>
              albums'[i].name = albums[i].name
        /\ \A b \in {q.album} \intersect Ids : Strays([kind |-> "album", id |-> b])
    BY <2>2, <2>3
  <2>5. QED
    BY <2>1, <2>4, AlbumsStray
<1>4. CASE UpdateTrack(r, q)
  <2>1. UNCHANGED <<artists, albums, strayed>>
    BY <1>4 DEF UpdateTrack
  <2>2. \A t \in Ids : TrackExists(t) => TrackExists(t)'
    <3>1. CASE UNCHANGED tracks
      BY <3>1 DEF TrackExists
    <3>2. CASE \E row \in Track : tracks' = [tracks EXCEPT ![q.track] = row]
      BY <1>1, <3>2, NoRows DEF TrackExists
    <3>3. QED
      BY <1>4, <3>1, <3>2, TrackUpdated DEF UpdateTrack
  <2>3. FilesStray
    BY <2>1, <2>2 DEF FilesStray, TrackExists
  <2>4. NamesStray
    BY <2>1 DEF NamesStray, Strays, NameOf
  <2>5. QED
    BY <2>3, <2>4
<1>5. QED
  BY <1>2, <1>3, <1>4

\* The deletion of an artist strays what it leaves in the bucket.
LEMMA DeleteArtistStrays ==
    ASSUME RowsOK, NEW r, NEW q, Active(q), Cleared(q), DeleteArtist(r, q)
    PROVE  NamesStray /\ FilesStray
<1>1. CASE UNCHANGED <<rows, strayed>>
  BY <1>1 DEF rows, NamesStray, Strays, NameOf, FilesStray, TrackExists
<1>o. PICK owner : owner = [kind |-> "artist", id |-> q.artist]
  OBVIOUS
<1>b. PICK bs : bs = GetArtistWithAlbums(q.artist)
  OBVIOUS
<1>t. PICK ts : ts = {t \in GetAllTracks : tracks[t].artist = q.artist}
  OBVIOUS
<1>2. CASE /\ artists' = [artists EXCEPT ![q.artist] = Unnamed]
           /\ albums' = [b \in Ids |-> IF b \in bs THEN NoAlbum ELSE albums[b]]
           /\ tracks' = [t \in Ids |-> IF t \in ts THEN NoTrack ELSE tracks[t]]
           /\ strayed' = strayed \union (IF Holders(owner) = {} THEN {} ELSE {owner})
                \union Left([kind : {"album"}, id : bs]) \union [kind : {"track"}, id : ts]
  <2>1. TheOwner(q) = owner /\ q.op # "deleteTrack"
    BY <1>o, ActiveTypes DEF DeleteArtist, WellAsked, TheOwner, OwnerId
  <2>2. ImagesOf(owner) # {} => owner \in strayed
    BY <2>1 DEF Cleared
  <2>3. Strays(owner)
    BY <1>2, <2>2 DEF Strays
  <2>4. \A i \in Ids : i # q.artist => artists'[i] = artists[i]
    BY <1>2 DEF RowsOK, ArtistsOK
  <2>5. \A i \in Ids : i \notin bs => albums'[i] = albums[i]
    BY <1>2
  <2>6. \A b \in bs : Strays([kind |-> "album", id |-> b])
    <3>1. ASSUME NEW b \in bs
          PROVE  Strays([kind |-> "album", id |-> b])
      <4>1. [kind |-> "album", id |-> b] \in [kind : {"album"}, id : bs]
        OBVIOUS
      <4>2. QED
        BY <1>2, <4>1 DEF Strays, Left
    <3>2. QED
      BY <3>1
  <2>7. ASSUME NEW kind \in Kinds, NEW i \in Ids
        PROVE  Strays([kind |-> kind, id |-> i])
    <3>1. CASE kind = "artist" /\ i = q.artist
      BY <1>o, <2>3, <3>1
    <3>2. CASE kind = "album" /\ i \in bs
      BY <2>6, <3>2
    <3>3. CASE kind = "artist" /\ i # q.artist
      BY <2>4, <3>3 DEF Strays, NameOf
    <3>4. CASE kind = "album" /\ i \notin bs
      BY <2>5, <3>4 DEF Strays, NameOf
    <3>5. QED
      BY <3>1, <3>2, <3>3, <3>4 DEF Kinds
  <2>8. FilesStray
    <3>1. \A t \in Ids : TrackExists(t) /\ t \notin ts => TrackExists(t)'
      BY <1>2 DEF TrackExists
    <3>2. \A t \in ts : [kind |-> "track", id |-> t] \in strayed'
      BY <1>2
    <3>3. QED
      BY <1>2, <3>1, <3>2 DEF FilesStray, TrackExists
  <2>9. QED
    BY <2>7, <2>8 DEF NamesStray
<1>3. QED
  BY <1>1, <1>2, <1>o, <1>b, <1>t DEF DeleteArtist

\* So does the deletion of an album.
LEMMA DeleteAlbumStrays ==
    ASSUME RowsOK, NEW r, NEW q, Active(q), Cleared(q), DeleteAlbum(r, q)
    PROVE  NamesStray /\ FilesStray
<1>1. UNCHANGED <<artists, tracks>> /\ strayed \subseteq strayed'
  BY DEF DeleteAlbum
<1>2. FilesStray
  BY <1>1 DEF FilesStray, TrackExists
<1>o. PICK owner : owner = [kind |-> "album", id |-> q.album]
  OBVIOUS
<1>3. TheOwner(q) = owner /\ q.op # "deleteTrack"
  BY <1>o, ActiveTypes DEF DeleteAlbum, WellAsked, TheOwner, OwnerId
<1>4. ImagesOf(owner) # {} => owner \in strayed
  BY <1>3 DEF Cleared
<1>5. CASE UNCHANGED albums
  BY <1>1, <1>2, <1>5 DEF NamesStray, Strays, NameOf
<1>6. CASE /\ albums' = [albums EXCEPT ![q.album] = NoAlbum]
           /\ strayed' = IF Holders(owner) = {} THEN strayed ELSE strayed \union {owner}
  <2>1. Strays(owner)
    BY <1>4, <1>6 DEF Strays
  <2>2. /\ \A i \in Ids : albums[i] # NoAlbum /\ i \notin {q.album} =>
              albums'[i].name = albums[i].name
        /\ \A b \in {q.album} \intersect Ids : Strays([kind |-> "album", id |-> b])
    BY <1>o, <1>6, <2>1 DEF RowsOK, AlbumsOK
  <2>3. UNCHANGED artists
    BY <1>1
  <2>4. QED
    BY <1>2, <2>2, <2>3, AlbumsStray
<1>7. QED
  BY <1>5, <1>6, <1>o DEF DeleteAlbum

\* And that of a track.
LEMMA DeleteTrackStrays ==
    ASSUME RowsOK, NEW r, NEW q, Cleared(q), DeleteTrack(r, q)
    PROVE  NamesStray /\ FilesStray
<1>1. UNCHANGED <<artists, files>> /\ strayed \subseteq strayed' /\ q.op = "deleteTrack"
  BY DEF DeleteTrack
<1>2. q.track \in files => [kind |-> "track", id |-> q.track] \in strayed
  BY <1>1 DEF Cleared
<1>3. CASE UNCHANGED <<albums, tracks>>
  BY <1>1, <1>3 DEF NamesStray, Strays, NameOf, FilesStray, TrackExists
<1>4. ASSUME NEW gone \in SUBSET Ids,
             tracks' = [tracks EXCEPT ![q.track] = NoTrack],
             albums' = [b \in Ids |-> IF b \in gone THEN NoAlbum ELSE albums[b]],
             strayed' = strayed \union Left([kind : {"album"}, id : gone])
      PROVE  NamesStray /\ FilesStray
  <2>1. \A t \in Ids : TrackExists(t) /\ t # q.track => TrackExists(t)'
    BY <1>4 DEF TrackExists, RowsOK, TracksOK
  <2>2. FilesStray
    BY <1>1, <1>2, <2>1 DEF FilesStray, TrackExists
  <2>3. \A i \in Ids : albums[i] # NoAlbum /\ i \notin gone => albums'[i].name = albums[i].name
    BY <1>4 DEF RowsOK, AlbumsOK
  <2>4. \A i \in gone \intersect Ids : Strays([kind |-> "album", id |-> i])
    <3>1. ASSUME NEW i \in gone
          PROVE  Strays([kind |-> "album", id |-> i])
      <4>1. [kind |-> "album", id |-> i] \in [kind : {"album"}, id : gone]
        OBVIOUS
      <4>2. QED
        BY <1>4, <4>1 DEF Strays, Left
    <3>2. QED
      BY <3>1
  <2>5. UNCHANGED artists
    BY <1>1
  <2>6. NamesStray
    BY <2>3, <2>4, <2>5, AlbumsStray
  <2>7. QED
    BY <2>2, <2>6
<1>g. PICK gone \in SUBSET Ids : gone = {b \in Ids : q.single /\ b = q.title[2]}
  OBVIOUS
<1>5. QED
  BY <1>3, <1>4, <1>g DEF DeleteTrack

\* Every step of a request strays what it renames or deletes.
LEMMA ServesStrays ==
    ASSUME RowsOK, NEW r, NEW q, Active(q), At(q, "delete") => Cleared(q), Serves(r, q)
    PROVE  NamesStray /\ FilesStray
<1>1. CASE CreateArtist(r, q) \/ CreateAlbum(r, q) \/ CreateTrackWithAlbum(r, q)
  BY <1>1, CreateStrays
<1>2. CASE UpdateArtist(r, q) \/ UpdateAlbum(r, q) \/ UpdateTrack(r, q)
  BY <1>2, UpdateStrays
<1>3. CASE DeleteArtist(r, q) \/ DeleteAlbum(r, q) \/ DeleteTrack(r, q)
  <2>1. Cleared(q)
    BY <1>3 DEF DeleteArtist, DeleteAlbum, DeleteTrack
  <2>2. QED
    BY <1>3, <2>1, DeleteArtistStrays, DeleteAlbumStrays, DeleteTrackStrays
<1>4. CASE UNCHANGED <<artists, albums, tracks>> /\ strayed \subseteq strayed'
  BY <1>4 DEF NamesStray, Strays, NameOf, FilesStray, TrackExists
<1>5. CASE AddTrackToAlbum(r, q) \/ DeleteTrackFromAlbum(r, q)
  BY <1>4, <1>5 DEF AddTrackToAlbum, DeleteTrackFromAlbum
<1>6. CASE \/ LoadArtworkOwner(r, q) \/ PutImage(r, q) \/ RemoveImage(r, q) \/ GetImage(r, q)
           \/ CheckSuperuser(r, q) \/ LookUp(r, q) \/ ReadArtist(r, q) \/ ReadArtists(r, q)
           \/ ReadAlbum(r, q) \/ PutTrack(r, q) \/ AddToTranscodingQueue(r, q)
           \/ RemoveTrackFiles(r, q) \/ CheckAccess(r, q) \/ ListTracks(r, q)
           \/ FileTracks(r, q) \/ Search(r, q) \/ ReadDeletedTrack(r, q)
  BY <1>4, <1>6 DEF rows, data, LoadArtworkOwner, PutImage, RemoveImage, GetImage,
    CheckSuperuser, LookUp, ReadArtist, ReadArtists, ReadAlbum, PutTrack, AddToTranscodingQueue,
    RemoveTrackFiles, CheckAccess, ListTracks, FileTracks, Search, ReadDeletedTrack
<1>7. QED
  BY <1>1, <1>2, <1>3, <1>5, <1>6 DEF Serves

\* At these places a request does this and nothing else.
LEMMA Handled ==
    ASSUME NEW r, NEW q, Serves(r, q)
    PROVE  /\ At(q, "load") => LoadArtworkOwner(r, q)
           /\ At(q, "put") <=> PutImage(r, q)
           /\ At(q, "remove") => RemoveImage(r, q)
           /\ At(q, "putFile") <=> PutTrack(r, q)
           /\ At(q, "removeFiles") => RemoveTrackFiles(r, q)
<1> DEFINE Places == {"load", "put", "remove", "putFile", "removeFiles"}
<1>1. CASE \/ CreateArtist(r, q) \/ CreateAlbum(r, q) \/ CreateTrackWithAlbum(r, q)
           \/ UpdateArtist(r, q) \/ UpdateAlbum(r, q) \/ UpdateTrack(r, q)
           \/ DeleteArtist(r, q) \/ DeleteAlbum(r, q) \/ DeleteTrack(r, q)
           \/ AddTrackToAlbum(r, q) \/ DeleteTrackFromAlbum(r, q)
  <2>1. \E at : at \notin Places /\ At(q, at)
    BY <1>1 DEF CreateArtist, CreateAlbum, CreateTrackWithAlbum, UpdateArtist, UpdateAlbum,
      UpdateTrack, DeleteArtist, DeleteAlbum, DeleteTrack, AddTrackToAlbum, DeleteTrackFromAlbum
  <2>2. \A at \in Places : ~At(q, at)
    BY <2>1, OnePlace
  <2>3. QED
    BY <2>2 DEF PutImage, PutTrack
<1>2. CASE \/ GetImage(r, q) \/ CheckSuperuser(r, q) \/ LookUp(r, q) \/ ReadArtist(r, q)
           \/ ReadArtists(r, q) \/ ReadAlbum(r, q) \/ AddToTranscodingQueue(r, q)
           \/ CheckAccess(r, q) \/ ListTracks(r, q) \/ FileTracks(r, q) \/ Search(r, q)
           \/ ReadDeletedTrack(r, q)
  <2>1. \E at : at \notin Places /\ At(q, at)
    BY <1>2 DEF GetImage, CheckSuperuser, LookUp, ReadArtist, ReadArtists, ReadAlbum,
      AddToTranscodingQueue, CheckAccess, ListTracks, FileTracks, Search, ReadDeletedTrack
  <2>2. \A at \in Places : ~At(q, at)
    BY <2>1, OnePlace
  <2>3. QED
    BY <2>2 DEF PutImage, PutTrack
<1>3. CASE \/ LoadArtworkOwner(r, q) \/ PutImage(r, q) \/ RemoveImage(r, q) \/ PutTrack(r, q)
           \/ RemoveTrackFiles(r, q)
  BY <1>3, OnePlace DEF LoadArtworkOwner, PutImage, RemoveImage, PutTrack, RemoveTrackFiles
<1>4. QED
  BY <1>1, <1>2, <1>3 DEF Serves

\* Only these steps add to the bucket.
LEMMA ServesStores ==
    ASSUME NEW r, NEW q, Serves(r, q)
    PROVE  /\ ~At(q, "put") => images' \subseteq images
           /\ ~At(q, "putFile") => files' \subseteq files
<1>1. CASE UNCHANGED <<files, images>>
  BY <1>1
<1>2. CASE RemoveImage(r, q) \/ RemoveTrackFiles(r, q)
  BY <1>2 DEF RemoveImage, RemoveTrackFiles
<1>3. CASE PutImage(r, q) \/ PutTrack(r, q)
  BY <1>3 DEF PutImage, PutTrack
<1>4. CASE \/ CreateArtist(r, q) \/ CreateAlbum(r, q) \/ CreateTrackWithAlbum(r, q)
           \/ UpdateArtist(r, q) \/ UpdateAlbum(r, q) \/ UpdateTrack(r, q)
           \/ DeleteArtist(r, q) \/ DeleteAlbum(r, q) \/ DeleteTrack(r, q)
           \/ AddTrackToAlbum(r, q) \/ DeleteTrackFromAlbum(r, q)
  BY <1>1, <1>4 DEF CreateArtist, CreateAlbum, CreateTrackWithAlbum, UpdateArtist, UpdateAlbum,
    UpdateTrack, DeleteArtist, DeleteAlbum, DeleteTrack, AddTrackToAlbum, DeleteTrackFromAlbum
<1>5. CASE \/ LoadArtworkOwner(r, q) \/ GetImage(r, q) \/ CheckSuperuser(r, q) \/ LookUp(r, q)
           \/ ReadArtist(r, q) \/ ReadArtists(r, q) \/ ReadAlbum(r, q)
           \/ AddToTranscodingQueue(r, q) \/ CheckAccess(r, q) \/ ListTracks(r, q)
           \/ FileTracks(r, q) \/ Search(r, q) \/ ReadDeletedTrack(r, q)
  BY <1>1, <1>5 DEF data, LoadArtworkOwner, GetImage, CheckSuperuser, LookUp, ReadArtist,
    ReadArtists, ReadAlbum, AddToTranscodingQueue, CheckAccess, ListTracks, FileTracks, Search, ReadDeletedTrack
<1>6. QED
  BY <1>2, <1>3, <1>4, <1>5 DEF Serves

\* What keeps its name or has strayed stays accounted for.
LEMMA StaysAccounted ==
    ASSUME NamesStray, FilesStray, NEW k \in Key, Accounted(k),
           ImagesOf(OwnerOf(k)) \union Holders(OwnerOf(k)) # {}
    PROVE  Accounted(k)'
<1>1. k.kind \in Kinds /\ k.id \in Ids /\ k.name # Unnamed
  BY NoRows DEF Key
<1>2. OwnerOf(k).kind = k.kind /\ OwnerOf(k).id = k.id /\ Strays(OwnerOf(k))
  BY <1>1 DEF OwnerOf, NamesStray
<1>3. CASE OwnerOf(k) \in strayed \/ OwnerOf(k) \in strayed'
  BY <1>3 DEF FilesStray, Accounted
<1>4. CASE OwnerOf(k) \notin strayed /\ OwnerOf(k) \notin strayed'
  <2>1. NameOf(k.kind, k.id) = k.name
    BY <1>4 DEF Accounted
  <2>2. NameOf(k.kind, k.id)' = NameOf(k.kind, k.id)
    BY <1>1, <1>2, <1>4, <2>1 DEF Strays
  <2>3. QED
    BY <2>1, <2>2 DEF Accounted
<1>5. QED
  BY <1>3, <1>4

\* The places before those where images are stored or removed, and rows deleted.
LEMMA Before ==
    ASSUME NEW q, Active(q), NEW m, Follows(q, m)
    PROVE  /\ At(m, "put") \/ At(m, "remove") => At(q, "load") /\ m.step = q.step + 1
           /\ At(m, "delete") /\ m.op # "deleteTrack" =>
                 At(q, "remove") \/ (At(q, "load") /\ m.step = q.step + 2)
           /\ Deletes(m) /\ m.op # "deleteTrack" => At(m, "delete")
           /\ Deletes(m) /\ m.op = "deleteTrack" => At(q, "removeFiles") \/ Deletes(q)
<1>1. /\ q \in Request /\ q.op # "none" /\ q.step \in 1..Len(Steps(q))
      /\ \A at : At(q, at) => OpAt(q, at)
  BY ActiveTypes
<1>2. Active(m) /\ m.op = q.op /\ m.step \in Nat
  BY DEF Follows, Keeps, Active, Request
<1>3. \A at : At(m, at) => OpAt(m, at)
  BY <1>2, ActiveTypes
<1>p. PICK p : p = Steps(q)[q.step]
  OBVIOUS
<1>4. At(q, p) /\ OpAt(q, p) /\ \A at : At(q, at) => at = p
  BY <1>1, <1>p DEF At
<1>5. /\ q.step \in Nat
      /\ \/ m.step = q.step + 1
         \/ p = "load" /\ m.step = q.step + 2
         \/ p = "albumOfEach" /\ m.step = q.step
  BY <1>1, <1>4 DEF Follows
<1>6. ASSUME At(m, "put") \/ At(m, "remove")
      PROVE  p = "load" /\ m.step = q.step + 1
  <2>1. OpAt(m, "put") \/ OpAt(m, "remove")
    BY <1>3, <1>6
  <2>2. p # "albumOfEach"
    BY <1>2, <1>4, <2>1 DEF OpAt, On, Creates
  <2>3. ~(p = "load" /\ m.step = q.step + 2)
    BY <1>2, <1>4, <1>5, <2>1 DEF OpAt, On, Creates, ImageOps
  <2>4. m.step = q.step + 1
    BY <1>5, <2>2, <2>3
  <2>5. p = "load"
    BY <1>2, <1>4, <1>5, <2>1, <2>4, NoKeyNext
  <2>6. QED
    BY <2>4, <2>5
<1>7. ASSUME At(m, "delete"), m.op # "deleteTrack"
      PROVE  p = "remove" \/ (p = "load" /\ m.step = q.step + 2)
  <2>1. On(m, 3, {"deleteArtist"}) \/ On(m, 4, {"deleteAlbum"})
    BY <1>3, <1>7 DEF OpAt, On
  <2>2. \/ q.op = "deleteArtist" /\ q.step \in {1, 2}
        \/ q.op = "deleteAlbum" /\ q.step \in {2, 3}
    <3>1. p # "albumOfEach"
      BY <1>2, <1>4, <2>1 DEF OpAt, On
    <3>2. QED
      BY <1>2, <1>5, <2>1, <3>1 DEF On
  <2>3. p \in {"load", "remove"}
    BY <1>4, <2>2 DEF OpAt, On, Creates, ImageOps, ChangeOps
  <2>4. p = "load" => m.step # q.step + 1
    BY <1>2, <1>4, <1>5, <2>1, <2>2 DEF OpAt, On, Creates, ImageOps
  <2>5. QED
    BY <1>5, <2>3, <2>4
<1>8. ASSUME Deletes(m), m.op = "deleteTrack"
      PROVE  p \in {"removeFiles", "readTrack", "readAlbum"}
  <2>1. m.step \in {4, 5, 6} /\ q.op = "deleteTrack"
    BY <1>2, <1>3, <1>8 DEF Deletes, OpAt, On
  <2>2. p # "load" /\ p # "albumOfEach"
    BY <1>4, <2>1 DEF OpAt, On, Creates, ImageOps
  <2>3. q.step \in {3, 4, 5}
    BY <1>5, <2>1, <2>2
  <2>4. QED
    BY <1>4, <2>1, <2>3 DEF OpAt, On, Creates, ImageOps, ChangeOps
<1>9. ASSUME Deletes(m), m.op # "deleteTrack"
      PROVE  At(m, "delete")
  <2>1. ~OpAt(m, "readTrack") /\ ~OpAt(m, "readAlbum")
    BY <1>9 DEF OpAt, On
  <2>2. QED
    BY <1>3, <1>9, <2>1 DEF Deletes
<1>10. QED
  BY <1>4, <1>6, <1>7, <1>8, <1>9 DEF Deletes

\* What a request at these places holds or has removed is accounted for.
LEMMA ServedOwn ==
    ASSUME Typed, OwnInv, NEW r \in Requests, NEW q, Served(r, q), Active(q)
    PROVE  /\ At(q, "put") \/ At(q, "remove") =>
                 /\ req[r] = q /\ Accounted(q.key) /\ q.key \in Key /\ r \in Holders(OwnerOf(q.key))
                 /\ OwnerOf(q.key) = TheOwner(q)
           /\ Deletes(q) => Cleared(q)
           /\ NamesStray /\ FilesStray
<1>1. \A at : At(q, at) => OpAt(q, at)
  BY ActiveTypes
<1>2. At(q, "put") \/ At(q, "remove") \/ Deletes(q) => req[r] = q
  BY <1>1 DEF Served, Fresh, OpAt, On, Creates, Deletes
<1>3. At(q, "put") \/ At(q, "remove") =>
         /\ Accounted(q.key) /\ q.key \in Key /\ q.key.kind = q.kind /\ q.key.id = OwnerId(q)
  BY <1>2, StoresTypes DEF OwnInv, HeldInv
<1>4. Deletes(q) => Cleared(q)
  BY <1>2 DEF OwnInv, LeftInv
<1>5. RowsOK /\ Serves(r, q)
  BY TypedParts DEF Served
<1>6. NamesStray /\ FilesStray
  BY <1>4, <1>5, ServesStrays DEF Deletes
<1>7. At(q, "put") \/ At(q, "remove") => r \in Holders(OwnerOf(q.key)) /\ OwnerOf(q.key) = TheOwner(q)
  BY <1>2, <1>3 DEF Holders, OwnerOf, TheOwner
<1>8. QED
  BY <1>2, <1>3, <1>4, <1>6, <1>7

\* After a step what is in the bucket is still accounted for.
LEMMA ObjectsStep ==
    ASSUME Typed, OwnInv, NEW r \in Requests, NEW q, Served(r, q), Active(q)
    PROVE  ObjectsAreOwned'
<1>1. NamesStray /\ FilesStray /\ Serves(r, q)
  BY ServedOwn DEF Served
<1>2. images \subseteq Key /\ files \subseteq Ids
  BY DEF Typed, TypeOK
<1>3. ASSUME NEW k \in images
      PROVE  Accounted(k)'
  <2>1. Accounted(k) /\ k \in ImagesOf(OwnerOf(k))
    BY DEF OwnInv, ObjectsAreOwned, Accounted, OwnerOf, ImagesOf
  <2>2. QED
    BY <1>1, <1>2, <2>1, StaysAccounted
<1>4. \A k \in images' : Accounted(k)'
  <2>1. CASE At(q, "put")
    <3>1. Accounted(q.key)'
      BY <1>1, <2>1, ServedOwn, StaysAccounted
    <3>2. images' \subseteq images \union {q.key}
      BY <1>1, <2>1, Handled DEF PutImage
    <3>3. QED
      BY <1>3, <3>1, <3>2
  <2>2. CASE ~At(q, "put")
    BY <1>1, <1>3, <2>2, ServesStores
  <2>3. QED
    BY <2>1, <2>2
<1>5. \A t \in files : TrackExists(t)' \/ [kind |-> "track", id |-> t] \in strayed'
  BY <1>1 DEF OwnInv, ObjectsAreOwned, FilesStray
<1>6. \A t \in files' : TrackExists(t)' \/ [kind |-> "track", id |-> t] \in strayed'
  <2>1. CASE At(q, "putFile")
    <3>1. PutTrack(r, q)
      BY <1>1, <2>1, Handled
    <3>2. UNCHANGED tracks
      BY <3>1 DEF PutTrack, rows
    <3>3. files' \subseteq files \/ TrackExists(q.track) \/ [kind |-> "track", id |-> q.track] \in strayed'
      BY <3>1 DEF PutTrack
    <3>4. files' \subseteq files \union {q.track}
      BY <3>1 DEF PutTrack
    <3>5. QED
      BY <1>5, <3>2, <3>3, <3>4 DEF TrackExists
  <2>2. CASE ~At(q, "putFile")
    BY <1>1, <1>5, <2>2, ServesStores
  <2>3. QED
    BY <2>1, <2>2
<1>7. QED
  BY <1>4, <1>6 DEF ObjectsAreOwned, Accounted, OwnerOf

\* So is what a request will store or remove.
LEMMA HeldStep ==
    ASSUME Typed, OwnInv, NEW r \in Requests, NEW q, Served(r, q), Active(q)
    PROVE  HeldInv'
<1>1. NamesStray /\ FilesStray /\ Serves(r, q)
  BY ServedOwn DEF Served
<1>2. PICK m : /\ req'[r] = m /\ \A s \in Requests \ {r} : req'[s] = req[s]
               /\ m = Idle \/ Follows(q, m)
  BY ServedLeads
<1>3. ASSUME NEW s \in Requests \ {r}, At(req[s], "put") \/ At(req[s], "remove")
      PROVE  Accounted(req[s].key)'
  <2>1. Underway(req[s])
    BY <1>3, IdleTypes DEF Typed, PlaceInv
  <2>2. req[s].key \in Key /\ req[s].key.kind = req[s].kind
    BY <1>3, <2>1 DEF Underway
  <2>3. Accounted(req[s].key)
    BY <1>3 DEF OwnInv, HeldInv
  <2>4. s \in Holders(OwnerOf(req[s].key))
    BY <1>3, <2>2 DEF Holders, OwnerOf
  <2>k. PICK k : k = req[s].key
    OBVIOUS
  <2>5. Accounted(k)'
    BY <1>1, <2>2, <2>3, <2>4, <2>k, StaysAccounted
  <2>6. req'[s].key = k
    BY <1>2, <2>k
  <2>7. QED
    BY <2>5, <2>6 DEF Accounted, OwnerOf
<1>4. ASSUME At(m, "put") \/ At(m, "remove")
      PROVE  Accounted(m.key)'
  <2>1. Follows(q, m)
    BY <1>2, <1>4, IdleTypes
  <2>2. At(q, "load") /\ m.step = q.step + 1
    BY <1>4, <2>1, Before
  <2>3. LoadArtworkOwner(r, q) /\ TypeOK
    BY <1>1, <2>2, Handled DEF Typed
  <2>4. PICK n : req' = [req EXCEPT ![r] = n] /\ (n = Idle \/ Loads(q, n))
    BY <2>3, LoadLeads
  <2>5. n = m
    BY <1>2, <2>4 DEF Typed, PlaceInv
  <2>6. Loads(q, m) /\ q.step \in Nat
    BY <1>4, <2>4, <2>5, IdleTypes, ActiveTypes DEF Request
  <2>7. m.key = KeyOf(q)
    BY <2>2, <2>6 DEF Loads
  <2>8. UNCHANGED <<artists, albums>>
    BY <2>3 DEF LoadArtworkOwner, data, rows
  <2>9. QED
    BY <2>7, <2>8 DEF Accounted, KeyOf, NameOf
<1>5. QED
  BY <1>2, <1>3, <1>4 DEF HeldInv

\* A request that waits to delete a row is told of what comes into the bucket.
LEMMA ClearedStays ==
    ASSUME Typed, NEW r \in Requests, NEW q, Served(r, q), Active(q), FilesStray,
           NEW s \in Requests, NEW d, d = req[s], Deletes(d), Cleared(d)
    PROVE  Cleared(d)'
<1>1. Serves(r, q)
  BY DEF Served
<1>2. strayed \subseteq strayed'
  BY DEF FilesStray
<1>3. CASE d.op = "deleteTrack"
  <2>1. CASE At(q, "putFile") /\ q.track = d.track
    <3>1. s \in Deleters([kind |-> "track", id |-> q.track])
      BY <1>3, <2>1 DEF Deleters
    <3>2. PutTrack(r, q)
      BY <1>1, <2>1, Handled
    <3>3. \/ files' = files
          \/ [kind |-> "track", id |-> q.track] \in strayed'
      BY <3>1, <3>2 DEF PutTrack
    <3>4. QED
      BY <1>2, <1>3, <2>1, <3>3 DEF Cleared
  <2>2. CASE ~(At(q, "putFile") /\ q.track = d.track)
    <3>1. d.track \in files' => d.track \in files
      <4>1. CASE At(q, "putFile")
        <5>1. PutTrack(r, q)
          BY <1>1, <4>1, Handled
        <5>2. files' \subseteq files \union {q.track}
          BY <5>1 DEF PutTrack
        <5>3. QED
          BY <2>2, <4>1, <5>2
      <4>2. CASE ~At(q, "putFile")
        BY <1>1, <4>2, ServesStores
      <4>3. QED
        BY <4>1, <4>2
    <3>2. QED
      BY <1>2, <1>3, <3>1 DEF Cleared
  <2>3. QED
    BY <2>1, <2>2
<1>4. CASE d.op # "deleteTrack"
  <2>o. PICK o : o = TheOwner(d)
    OBVIOUS
  <2>1. CASE At(q, "put") /\ TheOwner(q) = o
    <3>1. s \in Deleters(TheOwner(q))
      <4>1. o.kind # "track"
        <5>1. Active(d)
          BY IdleTypes DEF Typed, PlaceInv, Active, Deletes
        <5>2. QED
          BY <2>o, <5>1, ActiveTypes DEF TheOwner, Request, Kinds
      <4>2. QED
        BY <1>4, <2>1, <2>o, <4>1 DEF Deleters
    <3>2. PutImage(r, q)
      BY <1>1, <2>1, Handled
    <3>3. \/ images' = images
          \/ o \in strayed'
      BY <2>1, <3>1, <3>2 DEF PutImage
    <3>4. (ImagesOf(o) # {})' => o \in strayed'
      BY <1>2, <1>4, <2>o, <3>3 DEF Cleared, ImagesOf
    <3>5. QED
      BY <1>4, <2>o, <3>4 DEF Cleared, TheOwner, OwnerId
  <2>2. CASE ~(At(q, "put") /\ TheOwner(q) = o)
    <3>1. (ImagesOf(o) # {})' => ImagesOf(o) # {}
      <4>1. CASE At(q, "put")
        <5>1. PutImage(r, q)
          BY <1>1, <4>1, Handled
        <5>2. images' \subseteq images \union {q.key}
          BY <5>1 DEF PutImage
        <5>3. q.key.kind = q.kind /\ q.key.id = OwnerId(q)
          BY <4>1, StoresTypes
        <5>4. ~(q.key.kind = o.kind /\ q.key.id = o.id)
          BY <2>2, <2>o, <4>1, <5>3 DEF TheOwner
        <5>5. QED
          BY <5>2, <5>4 DEF ImagesOf
      <4>2. CASE ~At(q, "put")
        <5>1. images' \subseteq images
          BY <1>1, <4>2, ServesStores
        <5>2. QED
          BY <5>1 DEF ImagesOf
      <4>3. QED
        BY <4>1, <4>2
    <3>2. (ImagesOf(o) # {})' => o \in strayed'
      BY <1>2, <1>4, <2>o, <3>1 DEF Cleared
    <3>3. QED
      BY <1>4, <2>o, <3>2 DEF Cleared, TheOwner, OwnerId
  <2>3. QED
    BY <2>1, <2>2
<1>5. QED
  BY <1>3, <1>4

\* A request comes to the deletion of an artist or album without its image.
LEMMA ImageCleared ==
    ASSUME Typed, OwnInv, NEW r \in Requests, NEW q, Served(r, q), Active(q),
           NEW m, Follows(q, m), req' = [req EXCEPT ![r] = m],
           At(m, "delete"), m.op # "deleteTrack", NamesStray, FilesStray
    PROVE  Cleared(m)'
<1>1. Serves(r, q) /\ TypeOK /\ req'[r] = m /\ m.op # "none"
  BY DEF Served, Typed, PlaceInv, At
<1>2. m.kind = q.kind /\ OwnerId(m) = OwnerId(q) /\ TheOwner(m) = TheOwner(q)
  <2>1. ~At(q, "insert")
    BY Before, OnePlace
  <2>2. QED
    BY <2>1 DEF Follows, Keeps, KeepsMost, TheOwner, OwnerId
<1>o. PICK o : o = TheOwner(q)
  OBVIOUS
<1>3. o.kind = q.kind /\ o.id = OwnerId(q)
  BY <1>o DEF TheOwner
<1>4. ASSUME NEW k \in images, k.kind = o.kind, k.id = o.id, o \notin strayed
      PROVE  k.name = NameOf(q.kind, OwnerId(q)) /\ k.name # Unnamed
  <2>1. OwnerOf(k) = o
    BY <1>4, <1>o DEF OwnerOf, TheOwner
  <2>2. NameOf(k.kind, k.id) = k.name
    BY <1>4, <2>1 DEF OwnInv, ObjectsAreOwned, OwnerOf
  <2>3. k.name # Unnamed
    BY NoRows DEF Typed, TypeOK, Key
  <2>4. QED
    BY <1>3, <1>4, <2>2, <2>3
<1>5. (ImagesOf(o) # {})' => o \in strayed
  <2>1. CASE At(q, "remove")
    <3>1. RemoveImage(r, q)
      BY <1>1, <2>1, Handled
    <3>2. images' = images \ {q.key}
      BY <1>1, <3>1, IdleTypes DEF RemoveImage, Fails, Answer, Typed, PlaceInv
    <3>3. Accounted(q.key) /\ q.key \in Key /\ OwnerOf(q.key) = o
      BY <1>o, <2>1, ServedOwn
    <3>4. ASSUME NEW k \in images', k.kind = o.kind, k.id = o.id, o \notin strayed
          PROVE  FALSE
      <4>1. k \in images /\ k # q.key
        BY <3>2, <3>4
      <4>2. k.name = NameOf(q.kind, OwnerId(q))
        BY <1>4, <3>4, <4>1
      <4>3. q.key.kind = o.kind /\ q.key.id = o.id /\ q.key.name = NameOf(q.kind, OwnerId(q))
        BY <1>3, <3>3, <3>4 DEF Accounted, OwnerOf
      <4>4. k \in Key
        BY <4>1 DEF Typed, TypeOK
      <4>5. k = q.key
        BY <3>3, <3>4, <4>2, <4>3, <4>4 DEF Key
      <4>6. QED
        BY <4>1, <4>5
    <3>5. QED
      BY <3>4 DEF ImagesOf
  <2>2. CASE At(q, "load") /\ m.step = q.step + 2
    <3>1. LoadArtworkOwner(r, q)
      BY <1>1, <2>2, Handled
    <3>2. PICK n : req' = [req EXCEPT ![r] = n] /\ (n = Idle \/ Loads(q, n))
      BY <1>1, <3>1, LoadLeads
    <3>3. n = m /\ q.step \in Nat
      BY <1>1, <3>2, ActiveTypes DEF Typed, PlaceInv, Request
    <3>4. Loads(q, m)
      BY <1>1, <3>2, <3>3, IdleTypes
    <3>5. NameOf(q.kind, OwnerId(q)) = Unnamed
      BY <2>2, <3>3, <3>4 DEF Loads
    <3>6. UNCHANGED images
      BY <3>1 DEF LoadArtworkOwner, data
    <3>7. QED
      BY <1>4, <3>5, <3>6 DEF ImagesOf
  <2>3. QED
    BY <2>1, <2>2, Before
<1>6. QED
  BY <1>2, <1>o, <1>5 DEF Cleared, FilesStray, TheOwner, OwnerId

\* And what is there of rows that will be deleted.
LEMMA LeftStep ==
    ASSUME Typed, OwnInv, NEW r \in Requests, NEW q, Served(r, q), Active(q)
    PROVE  LeftInv'
<1>1. NamesStray /\ FilesStray /\ Serves(r, q)
  BY ServedOwn DEF Served
<1>2. PICK m : /\ req' = [req EXCEPT ![r] = m]
               /\ req'[r] = m /\ \A s \in Requests \ {r} : req'[s] = req[s]
               /\ m = Idle \/ Follows(q, m)
  BY ServedLeads
<1>3. ASSUME NEW s \in Requests \ {r}, Deletes(req[s])'
      PROVE  Cleared(req[s])'
  <2>d. PICK d : d = req[s]
    OBVIOUS
  <2>1. Deletes(d) /\ Cleared(d)
    BY <1>2, <1>3, <2>d DEF OwnInv, LeftInv, Deletes, At, Steps, CreateSteps
  <2>2. Cleared(d)'
    BY <1>1, <2>d, <2>1, ClearedStays
  <2>3. req'[s] = d
    BY <1>2, <2>d
  <2>4. QED
    BY <2>2, <2>3 DEF Cleared, TheOwner, OwnerId
<1>4. ASSUME Deletes(m)
      PROVE  Cleared(m)'
  <2>1. Follows(q, m)
    BY <1>2, <1>4, IdleTypes DEF Deletes
  <2>2. CASE m.op # "deleteTrack"
    BY <1>1, <1>2, <1>4, <2>1, <2>2, Before, ImageCleared
  <2>3. CASE m.op = "deleteTrack"
    <3>1. m.track = q.track /\ q.op = "deleteTrack"
      <4>1. ~At(q, "insert")
        BY <1>4, <2>1, <2>3, Before, OnePlace DEF Deletes
      <4>2. QED
        BY <2>1, <2>3, <4>1 DEF Follows, Keeps, KeepsMost
    <3>2. CASE At(q, "removeFiles")
      <4>1. RemoveTrackFiles(r, q)
        BY <1>1, <3>2, Handled
      <4>2. files' = files \ {q.track}
        BY <1>2, <1>4, <4>1, IdleTypes DEF RemoveTrackFiles, Fails, Answer, Typed, PlaceInv, Deletes
      <4>3. QED
        BY <2>3, <3>1, <4>2 DEF Cleared
    <3>3. CASE Deletes(q)
      <4>1. q.track \in files => [kind |-> "track", id |-> q.track] \in strayed
        BY <3>1, <3>3, ServedOwn DEF Cleared
      <4>2. ~At(q, "putFile")
        BY <3>3, OnePlace DEF Deletes
      <4>3. files' \subseteq files /\ strayed \subseteq strayed'
        BY <1>1, <4>2, ServesStores DEF FilesStray
      <4>4. QED
        BY <2>3, <3>1, <4>1, <4>3 DEF Cleared
    <3>4. QED
      BY <1>4, <2>1, <2>3, <3>2, <3>3, Before
  <2>4. QED
    BY <2>2, <2>3
<1>5. Cleared(req[r])' <=> Cleared(m)'
  BY <1>2 DEF Cleared, TheOwner, OwnerId
<1>6. QED
  BY <1>2, <1>3, <1>4, <1>5 DEF LeftInv

\* The three together are kept by every step.
LEMMA OwnStep ==
    ASSUME Typed, OwnInv, [Next]_vars
    PROVE  OwnInv'
<1>1. CASE UNCHANGED vars
  <2>1. UNCHANGED <<artists, albums, tracks, files, images, req, strayed>>
    BY <1>1 DEF vars, data, rows
  <2>2. ObjectsAreOwned'
    BY <2>1 DEF OwnInv, ObjectsAreOwned, NameOf, TrackExists
  <2>3. HeldInv'
    BY <2>1 DEF OwnInv, HeldInv, Accounted, OwnerOf, NameOf, At, Steps
  <2>4. LeftInv'
    <3>1. ASSUME NEW s \in Requests, Deletes(req[s])'
          PROVE  Deletes(req[s])
      BY <2>1, <3>1
    <3>2. ASSUME NEW s \in Requests, Cleared(req[s])
          PROVE  Cleared(req[s])'
      BY <2>1, <3>2 DEF Cleared, ImagesOf, TheOwner, OwnerId
    <3>3. QED
      BY <3>1, <3>2 DEF OwnInv, LeftInv
  <2>5. QED
    BY <2>2, <2>3, <2>4 DEF OwnInv
<1>2. CASE Next
  <2>a. PICK r \in Requests : \E q : Served(r, q) /\ Active(q)
    BY <1>2, NextServed
  <2>1. PICK q : Served(r, q) /\ Active(q)
    BY <2>a
  <2>2. QED
    BY <2>1, ObjectsStep, HeldStep, LeftStep DEF OwnInv
<1>3. QED
  BY <1>1, <1>2

\* At the start everything in the bucket has its owner, and no request holds anything.
LEMMA OwnInit ==
    ASSUME Init
    PROVE  OwnInv
<1>1. Typed
  BY TypedInit
<1>2. \A t \in files : TrackExists(t)
  <2>1. files = DOMAIN Founded.tracks
    BY DEF Init
  <2>2. Founded.tracks \in Seq(Track) /\ files \subseteq Ids
    BY <1>1, ConstantsAssumption DEF WellFounded, Typed, TypeOK
  <2>3. \A t \in files : tracks[t] = Founded.tracks[t] /\ tracks[t] \in Track
    <3>1. \A t \in DOMAIN Founded.tracks : Founded.tracks[t] \in Track
      BY <2>2
    <3>2. tracks = [t \in Ids |-> IF t \in DOMAIN Founded.tracks THEN Founded.tracks[t] ELSE NoTrack]
      BY DEF Init
    <3>3. QED
      BY <2>1, <2>2, <3>1, <3>2
  <2>4. QED
    BY <2>2, <2>3, NoRows DEF TrackExists
<1>3. \A k \in images : NameOf(k.kind, k.id) = k.name
  BY DEF Init
<1>4. \A s \in Requests : \A at : ~At(req[s], at)
  BY IdleTypes DEF Init
<1>5. QED
  BY <1>2, <1>3, <1>4 DEF OwnInv, ObjectsAreOwned, HeldInv, LeftInv, Deletes

\* So they always hold.
LEMMA OwnAlways == Spec => []OwnInv
<1>1. Init => OwnInv
  BY OwnInit
<1>2. Typed /\ OwnInv /\ [Next]_vars => OwnInv'
  BY OwnStep
<1>3. QED
  BY <1>1, <1>2, TypedAlways, PTL DEF Spec

\* An image in the bucket has the key that its owner's row leads to, and a file
\* belongs to a track, but for the owners that strayed: renamed with an image, gone
\* with their artist or title track, or changed while something of theirs was being
\* stored (ArtworkManager's keys, the deletions of AlbumService and TrackService).
THEOREM ObjectsHaveOwners == Spec => []ObjectsAreOwned
<1>1. OwnInv => ObjectsAreOwned
  BY DEF OwnInv
<1>2. QED
  BY <1>1, OwnAlways, PTL

-------------------------------------------------------------------------------
(* What is reported done is so.                                            *)

Success == reply'.status \in {200, 201, 202}

\* The changes that report something of the rows or the bucket.
Claims == {"deleteArtist", "deleteAlbum", "putTrack", "takeTrack", "uploadTrack", "deleteTrack",
           "updateTrack", "uploadImage", "deleteImage", "updateArtist"}

\* No handler answers an error with success.
LEMMA SuccessStatus ==
    ASSUME NEW q \in Request, q.op \in Claims, NEW err, Status(q, err) \in {200, 201, 202}
    PROVE  err = "ok"
<1>1. CASE q.op \in {"deleteArtist", "deleteAlbum", "putTrack", "takeTrack"}
  BY <1>1 DEF Status, DeleteArtistStatus, DeleteAlbumStatus, PutTrackToAlbumStatus,
    DeleteTrackFromAlbumStatus
<1>2. CASE q.op \in {"uploadTrack", "deleteTrack", "updateTrack"}
  BY <1>2 DEF Status, UploadTrackStatus, DeleteTrackStatus, UpdateTrackStatus
<1>3. CASE q.op \in {"uploadImage", "deleteImage"}
  <2>1. q.kind = "artist" \/ q.kind = "album"
    BY DEF Request, Kinds
  <2>2. QED
    BY <1>3, <2>1 DEF Status, UploadArtistImageStatus, UploadAlbumCoverStatus,
      DeleteArtistImageStatus, DeleteAlbumCoverStatus
<1>4. CASE q.op = "updateArtist"
  BY <1>4 DEF Status, UpdateArtistStatus
<1>5. QED
  BY <1>1, <1>2, <1>3, <1>4 DEF Claims

\* No claim is that of an insertion by itself.
LEMMA ClaimSteps ==
    ASSUME NEW q, q.op \in Claims \ {"uploadTrack"}
    PROVE  Steps(q)[1] # "insert"
<1>1. CASE q.op \in {"deleteArtist", "deleteAlbum", "uploadImage"}
  BY <1>1 DEF Steps, DeleteArtistSteps, DeleteAlbumSteps, UploadImageSteps
<1>2. CASE q.op \in {"putTrack", "takeTrack"}
  BY <1>2 DEF Steps, EnsureTrackSteps, DeleteTrackFromAlbumSteps
<1>3. CASE q.op \in {"deleteTrack", "updateTrack"}
  BY <1>3 DEF Steps, DeleteTrackSteps, UpdateTrackSteps
<1>4. CASE q.op \in {"deleteImage", "updateArtist"}
  BY <1>4 DEF Steps, DeleteImageSteps, UpdateArtistSteps
<1>5. QED
  BY <1>1, <1>2, <1>3, <1>4 DEF Claims

\* An answer of success is to a change that met no error.
LEMMA AnswerSucceeds ==
    ASSUME NEW r, NEW q \in Request, q.op \in Claims, NEW err, Answer(r, q, err)
    PROVE  reply'.request = q /\ (Success => err = "ok")
<1>1. ~(Steps(q)[1] = "insert" /\ q.op # "uploadTrack" /\ q.step > 1)
  BY ClaimSteps
<1>2. reply' = [request |-> q, status |-> Status(q, err)]
  BY <1>1 DEF Answer
<1>3. QED
  BY <1>2, SuccessStatus DEF Success

\* A change succeeds at its last step only.
LEMMA Succeeds ==
    ASSUME NEW r, NEW q \in Request, q.op \in Claims, Success
    PROVE  /\ ~Fails(r, q)
           /\ \A err : Ends(r, q, err) => err = "ok" /\ reply'.request = q
           /\ Proceeds(r, q) \/ Done(r, q) => q.step = Length(q) /\ reply'.request = q
           /\ \A m : ~Go(r, m)
<1>1. ~Fails(r, q)
  BY AnswerSucceeds DEF Fails
<1>2. \A err : Ends(r, q, err) => err = "ok" /\ reply'.request = q
  BY AnswerSucceeds DEF Ends
<1>3. \A m : ~Go(r, m)
  BY DEF Go, NoReply, Success
<1>4. Len(Steps(q)) = Length(q)
  BY Layout DEF Claims
<1>5. Proceeds(r, q) => q.step = Length(q) /\ reply'.request = q
  BY <1>3, <1>4, AnswerSucceeds DEF Proceeds
<1>6. QED
  BY <1>1, <1>2, <1>3, <1>5 DEF Done

\* What the two reads of a deletion make of it.
LEMMA TitleVariants ==
    ASSUME TypeOK, NEW r, NEW q \in Request, ReadDeletedTrack(r, q)
    PROVE  \/ Fails(r, q) \/ Ends(r, q, "notfound")
           \/ \E v : /\ v \in Request /\ v.op = q.op /\ v.step = q.step /\ v.cover = q.cover
                    /\ Proceeds(r, v)
<1>1. ASSUME NEW x \in Filings(q.track), Proceeds(r, [q EXCEPT !.title = x])
      PROVE  \E v : /\ v \in Request /\ v.op = q.op /\ v.step = q.step /\ v.cover = q.cover
                   /\ Proceeds(r, v)
  <2>1. x \in (Names \union {Unnamed}) \X Nat
    BY <1>1, TitleTypes, Numbers
  <2>2. Variant(q, [q EXCEPT !.title = x])
    BY <2>1, TitleTaken
  <2>3. QED
    BY <1>1, <2>2 DEF Variant, Keeps
<1>2. ASSUME Proceeds(r, [q EXCEPT !.single = (q.title \in Titles)])
      PROVE  \E v : /\ v \in Request /\ v.op = q.op /\ v.step = q.step /\ v.cover = q.cover
                   /\ Proceeds(r, v)
  <2>0. (q.title \in Titles) \in BOOLEAN
    OBVIOUS
  <2>1. PICK e \in BOOLEAN : e = (q.title \in Titles)
    BY <2>0
  <2>2. <<Unnamed, 0>> \in (Names \union {Unnamed}) \X Nat
    OBVIOUS
  <2>3. Variant(q, [q EXCEPT !.single = e])
    BY <2>2, TitleTaken
  <2>4. QED
    BY <1>2, <2>1, <2>3 DEF Variant, Keeps
<1>3. QED
  BY <1>1, <1>2 DEF ReadDeletedTrack

\* Before that a request is refused, or it goes on; an artist who has albums is
\* found with them.
LEMMA EarlySteps ==
    ASSUME TypeOK, NEW r, NEW q, Active(q), q.op \in Claims, Serves(r, q), Success
    PROVE  q.step = Length(q) \/ (At(q, "albums") /\ q.op = "updateArtist")
<1>1. /\ q \in Request /\ q.op # "none" /\ q.step \in 1..Length(q) /\ Len(Steps(q)) = Length(q)
      /\ \A at : At(q, at) => OpAt(q, at)
  BY ActiveTypes
<1>2. CASE PlainStep(r, q)
  <2>1. PICK at : /\ At(q, at)
                  /\ Done(r, q) \/ Proceeds(r, q) \/ Fails(r, q)
                     \/ (\E err : Ends(r, q, err) /\ (err = "ok" => at \in {"albums", "file"}))
    BY <1>2, PlainEnds
  <2>2. CASE \E err : Ends(r, q, err) /\ (err = "ok" => at \in {"albums", "file"})
    <3>1. at \in {"albums", "file"}
      BY <1>1, <2>2, Succeeds
    <3>2. (At(q, "albums") /\ OpAt(q, "albums")) \/ OpAt(q, "file")
      BY <1>1, <2>1, <3>1
    <3>3. QED
      BY <3>2 DEF OpAt, On, Claims, Length, Creates, ImageOps
  <2>3. QED
    BY <1>1, <2>1, <2>2, Succeeds
<1>3. ASSUME NEW v \in Request, v.op = q.op, Done(r, v) \/ Proceeds(r, v)
      PROVE  v.step = Length(q)
  <2>1. Length(v) = Length(q)
    BY <1>3 DEF Length, Claims, Creates, ImageOps
  <2>2. QED
    BY <1>3, <2>1, Succeeds
<1>4. CASE LoadArtworkOwner(r, q)
  <2>1. OpAt(q, "load")
    BY <1>1, <1>4 DEF LoadArtworkOwner
  <2>2. CASE q.op \in {"deleteArtist", "deleteAlbum"} /\ Proceeds(r, Stepped(q))
    <3>1. Stepped(q) \in Request /\ Stepped(q).op = q.op /\ Stepped(q).step = q.step + 1
      BY <1>1, SteppedTypes DEF Keeps
    <3>2. q.step + 1 = Length(q)
      BY <1>3, <2>2, <3>1
    <3>3. QED
      BY <2>1, <2>2, <3>2 DEF OpAt, On, Length, Creates, ImageOps
  <2>3. CASE NameOf(q.kind, OwnerId(q)) # Unnamed /\ Proceeds(r, [q EXCEPT !.key = KeyOf(q)])
    <3>1. KeyOf(q) \in Key /\ At(q, "load")
      BY <1>4, <2>3, KeyType DEF LoadArtworkOwner
    <3>k. PICK k \in Key : k = KeyOf(q)
      BY <3>1
    <3>2. [q EXCEPT !.key = k] \in Request /\ [q EXCEPT !.key = k].op = q.op
          /\ [q EXCEPT !.key = k].step = q.step
      BY <1>1 DEF Request
    <3>3. QED
      BY <1>3, <2>3, <3>k, <3>2
  <2>4. ~Fails(r, q) /\ ~Ends(r, q, "notfound")
    BY <1>1, Succeeds
  <2>5. QED
    BY <1>4, <2>2, <2>3, <2>4 DEF LoadArtworkOwner, Stepped, KeyOf
<1>5. CASE CheckSuperuser(r, q)
  <2>1. ~Fails(r, q) /\ ~Ends(r, q, "forbidden") /\ \A m : ~Go(r, m)
    BY <1>1, Succeeds
  <2>2. Proceeds(r, q)
    BY <1>5, <2>1 DEF CheckSuperuser, RequireSuperuser, AuthorizeTrackChange
  <2>3. QED
    BY <1>1, <1>3, <2>2
<1>6. CASE CreateTrackWithAlbum(r, q)
  <2> DEFINE t == created.track + 1
             b == IF q.single THEN created.album + 1 ELSE q.album
  <2>1. t \in Nat /\ b \in Nat
    BY <1>1 DEF TypeOK, Kinds, Request
  <2>2. ASSUME Done(r, WithTrack(q, t, b))
        PROVE  q.step = Length(q)
    <3>v. PICK v : v = WithTrack(q, t, b)
      OBVIOUS
    <3>1. Keeps(q, v) /\ v.step = q.step
      <4> HIDE DEF t, b
      <4>1. QED
        BY <1>1, <2>1, <3>v, IdsTaken
    <3>2. QED
      BY <1>3, <2>2, <3>v, <3>1 DEF Keeps
  <2>3. ~Fails(r, q) /\ \A err : Ends(r, q, err) => err = "ok"
    BY <1>1, Succeeds
  <2>4. QED
    BY <1>6, <2>2, <2>3 DEF CreateTrackWithAlbum, WithTrack
<1>7. CASE CreateArtist(r, q) \/ CreateAlbum(r, q)
  BY <1>7 DEF CreateArtist, CreateAlbum, Claims
<1>8. CASE ListTracks(r, q) \/ FileTracks(r, q) \/ Search(r, q)
  <2>1. PICK at \in {"user", "tracks", "albumOfEach", "searchTracks", "searchArtists", "searchAlbums"} :
           At(q, at)
    BY <1>8 DEF ListTracks, FileTracks, Search
  <2>2. OpAt(q, at)
    BY <1>1, <2>1
  <2>3. QED
    BY <2>1, <2>2 DEF OpAt, On, Claims
<1>9. CASE ReadDeletedTrack(r, q)
  <2>1. ~Fails(r, q) /\ ~Ends(r, q, "notfound")
    BY <1>1, Succeeds
  <2>2. PICK v : /\ v \in Request /\ v.op = q.op /\ v.step = q.step
                 /\ Proceeds(r, v)
    BY <1>1, <1>9, <2>1, TitleVariants
  <2>3. QED
    BY <1>3, <2>2
<1>10. QED
  BY <1>2, <1>4, <1>5, <1>6, <1>7, <1>8, <1>9 DEF Serves, PlainStep

\* What a change does in its last step.
LEMMA LastSteps ==
    ASSUME NEW r, NEW q, Active(q), q.op \in Claims, Serves(r, q),
           q.step = Length(q) \/ (At(q, "albums") /\ q.op = "updateArtist")
    PROVE  CASE q.op = "deleteArtist" -> DeleteArtist(r, q)
             [] q.op = "deleteAlbum" -> DeleteAlbum(r, q)
             [] q.op = "putTrack" -> AddTrackToAlbum(r, q)
             [] q.op = "takeTrack" -> DeleteTrackFromAlbum(r, q)
             [] q.op = "uploadTrack" -> AddToTranscodingQueue(r, q)
             [] q.op = "deleteTrack" -> DeleteTrack(r, q)
             [] q.op = "updateTrack" -> UpdateTrack(r, q)
             [] q.op = "uploadImage" -> PutImage(r, q)
             [] q.op = "deleteImage" -> RemoveImage(r, q)
             [] q.op = "updateArtist" -> ReadArtist(r, q)
<1> DEFINE Place ==
             CASE q.op \in {"deleteArtist", "deleteAlbum", "deleteTrack"} -> "delete"
               [] q.op = "putTrack" -> "file"
               [] q.op = "takeTrack" -> "unfile"
               [] q.op = "uploadTrack" -> "enqueue"
               [] q.op = "updateTrack" -> "update"
               [] q.op = "uploadImage" -> "put"
               [] q.op = "deleteImage" -> "remove"
               [] q.op = "updateArtist" -> IF At(q, "albums") THEN "albums" ELSE "row"
<1>1. \A at : At(q, at) => at = Place
  <2>0. CASE At(q, "albums") /\ q.op = "updateArtist"
    BY <2>0, OnePlace
  <2>1. \A at : At(q, at) => OpAt(q, at)
    BY ActiveTypes
  <2>2. ASSUME ~(At(q, "albums") /\ q.op = "updateArtist"), NEW at, OpAt(q, at)
        PROVE  at = Place
    BY <2>2 DEF OpAt, On, Length, Claims, Creates, ImageOps, ChangeOps
  <2>3. QED
    BY <2>0, <2>1, <2>2
<1> DEFINE Places == {"delete", "file", "unfile", "enqueue", "update", "put", "remove", "albums", "row"}
<1>p. Place \in Places
  BY DEF Claims
<1> HIDE DEF Place
<1>2. CASE \/ CreateArtist(r, q) \/ CreateAlbum(r, q) \/ CreateTrackWithAlbum(r, q)
           \/ LoadArtworkOwner(r, q) \/ GetImage(r, q)
           \/ CheckSuperuser(r, q) \/ LookUp(r, q)
  <2>1. \E at : at \notin Places /\ At(q, at)
    BY <1>2 DEF CreateArtist, CreateAlbum, CreateTrackWithAlbum, LoadArtworkOwner,
      GetImage, CheckSuperuser, LookUp
  <2>2. QED
    BY <1>1, <1>p, <2>1
<1>r. CASE \/ ReadArtists(r, q) \/ PutTrack(r, q)
           \/ RemoveTrackFiles(r, q) \/ CheckAccess(r, q) \/ ListTracks(r, q)
           \/ FileTracks(r, q) \/ Search(r, q) \/ ReadDeletedTrack(r, q)
  <2>1. \E at : at \notin Places /\ At(q, at)
    BY <1>r DEF ReadArtists, PutTrack, RemoveTrackFiles, CheckAccess,
      ListTracks, FileTracks, Search, ReadDeletedTrack
  <2>2. QED
    BY <1>1, <1>p, <2>1
<1>3. ~UpdateArtist(r, q)
  BY <1>1 DEF UpdateArtist, Place
<1>4. (UpdateAlbum(r, q) => q.op = "updateAlbum") /\ (ReadAlbum(r, q) => q.op \in {"getAlbum", "updateAlbum"})
  BY DEF UpdateAlbum, ReadAlbum
<1>5. /\ DeleteArtist(r, q) => q.op = "deleteArtist"
      /\ DeleteAlbum(r, q) => q.op = "deleteAlbum"
      /\ DeleteTrack(r, q) => q.op = "deleteTrack"
      /\ UpdateTrack(r, q) => q.op = "updateTrack"
  BY DEF DeleteArtist, DeleteAlbum, DeleteTrack, UpdateTrack
<1>6. /\ AddTrackToAlbum(r, q) => q.op = "putTrack"
      /\ DeleteTrackFromAlbum(r, q) => q.op = "takeTrack"
      /\ AddToTranscodingQueue(r, q) => q.op = "uploadTrack"
      /\ PutImage(r, q) => q.op = "uploadImage"
      /\ RemoveImage(r, q) => q.op = "deleteImage"
      /\ ReadArtist(r, q) => q.op = "updateArtist"
  BY <1>1 DEF AddTrackToAlbum, DeleteTrackFromAlbum, AddToTranscodingQueue, PutImage, RemoveImage,
    ReadArtist, Claims, Place
<1>7. CASE \/ DeleteArtist(r, q) \/ DeleteAlbum(r, q) \/ DeleteTrack(r, q) \/ UpdateTrack(r, q)
           \/ AddTrackToAlbum(r, q) \/ DeleteTrackFromAlbum(r, q)
           \/ AddToTranscodingQueue(r, q) \/ PutImage(r, q) \/ RemoveImage(r, q) \/ ReadArtist(r, q)
  BY <1>5, <1>6, <1>7
<1>8. CASE UpdateArtist(r, q) \/ UpdateAlbum(r, q) \/ ReadAlbum(r, q)
  BY <1>3, <1>4, <1>8 DEF Claims
<1>9. QED
  BY <1>2, <1>r, <1>7, <1>8 DEF Serves

\* The rows of an artist go with everything of his.
LEMMA DeletedArtist ==
    ASSUME Typed, NEW r, NEW q, Active(q), q.op \in Claims, DeleteArtist(r, q), Success
    PROVE  DoneIsTrue(q)'
<1>1. q \in Request /\ q.op = "deleteArtist" /\ q.artist \in Ids
  BY ActiveTypes DEF DeleteArtist, WellAsked, OwnerId
<1>2. ~Fails(r, q) /\ ~Ends(r, q, "db")
  BY <1>1, Succeeds
<1>a. PICK a : a = q.artist
  OBVIOUS
<1>3. /\ artists' = [artists EXCEPT ![a] = Unnamed]
      /\ albums' = [b \in Ids |-> IF b \in GetArtistWithAlbums(a) THEN NoAlbum ELSE albums[b]]
      /\ tracks' = [t \in Ids |-> IF t \in {i \in GetAllTracks : tracks[i].artist = a}
                                  THEN NoTrack ELSE tracks[t]]
  BY <1>2, <1>a DEF DeleteArtist
<1>4. ~ArtistExists(a)'
  BY <1>1, <1>a, <1>3 DEF ArtistExists, Typed, TypeOK
<1>5. \A i \in Ids : albums'[i].artist # a
  BY <1>1, <1>a, <1>3, Numbers, NoRows DEF GetArtistWithAlbums, AlbumExists
<1>6. \A i \in Ids : tracks'[i].artist # a
  BY <1>1, <1>a, <1>3, Numbers, NoRows DEF GetAllTracks, TrackExists
<1>7. QED
  BY <1>1, <1>a, <1>4, <1>5, <1>6 DEF DoneIsTrue

\* The row of an album goes.
LEMMA DeletedAlbum ==
    ASSUME Typed, NEW r, NEW q, Active(q), q.op \in Claims, DeleteAlbum(r, q), Success
    PROVE  DoneIsTrue(q)'
<1>1. q \in Request /\ q.op = "deleteAlbum" /\ q.kind = "album" /\ q.album \in Ids
  BY ActiveTypes DEF DeleteAlbum, WellAsked, OwnerId
<1>2. ~Fails(r, q)
  BY <1>1, Succeeds
<1>3. albums' = [albums EXCEPT ![q.album] = NoAlbum]
  BY <1>2 DEF DeleteAlbum
<1>4. ~AlbumExists(q.album)'
  BY <1>1, <1>3 DEF AlbumExists, Typed, TypeOK
<1>5. QED
  BY <1>1, <1>4 DEF DoneIsTrue

\* A track is filed where it was to be, or not any more.
LEMMA Refiled ==
    ASSUME NEW r, NEW q, Active(q), q.op \in Claims,
           (AddTrackToAlbum(r, q) /\ q.op = "putTrack")
             \/ (DeleteTrackFromAlbum(r, q) /\ q.op = "takeTrack"),
           Success
    PROVE  DoneIsTrue(q)'
<1>1. q \in Request
  BY ActiveTypes
<1>2. ~Fails(r, q) /\ ~Ends(r, q, "db")
  BY <1>1, Succeeds
<1>3. CASE AddTrackToAlbum(r, q) /\ q.op = "putTrack"
  <2>1. <<q.track, q.album>> \in filed'
    BY <1>2, <1>3 DEF AddTrackToAlbum
  <2>2. QED
    BY <1>3, <2>1 DEF DoneIsTrue
<1>4. CASE DeleteTrackFromAlbum(r, q) /\ q.op = "takeTrack"
  <2>1. <<q.track, q.album>> \notin filed'
    BY <1>2, <1>4 DEF DeleteTrackFromAlbum
  <2>2. QED
    BY <1>4, <2>1 DEF DoneIsTrue
<1>5. QED
  BY <1>3, <1>4

\* An uploaded track is there when it has been queued.
LEMMA QueuedTrack ==
    ASSUME NEW r, NEW q, Active(q), q.op = "uploadTrack", AddToTranscodingQueue(r, q), Success
    PROVE  DoneIsTrue(q)'
<1>1. q \in Request /\ q.op \in Claims
  BY ActiveTypes DEF Claims
<1>2. ~Fails(r, q) /\ ~Ends(r, q, "db")
  BY <1>1, Succeeds
<1>3. TrackExists(q.track) /\ UNCHANGED tracks
  BY <1>2 DEF AddToTranscodingQueue, data, rows
<1>4. QED
  BY <1>3 DEF DoneIsTrue, TrackExists

\* A deleted track has no file, unless one was stored while it was deleted.
LEMMA DeletedTrack ==
    ASSUME Typed, NEW r, NEW q, Active(q), q.op \in Claims, DeleteTrack(r, q), Success,
           Cleared(q), strayed \subseteq strayed'
    PROVE  DoneIsTrue(q)'
<1>1. q \in Request /\ q.op = "deleteTrack"
  BY ActiveTypes DEF DeleteTrack
<1>2. ~Fails(r, q) /\ ~Ends(r, q, "notfound")
  BY <1>1, Succeeds
<1>3. /\ tracks' = [tracks EXCEPT ![q.track] = NoTrack] /\ listed' = listed \ {q.track}
      /\ UNCHANGED files
  BY <1>2 DEF DeleteTrack
<1>4. ~TrackExists(q.track)'
  BY <1>3 DEF TrackExists, Typed, TypeOK
<1>5. q.track \in files' => [kind |-> "track", id |-> q.track] \in strayed'
  BY <1>1, <1>3 DEF Cleared
<1>6. QED
  BY <1>1, <1>3, <1>4, <1>5 DEF DoneIsTrue

\* An updated track is in the album and has the row that was asked for.
LEMMA UpdatedTrack ==
    ASSUME Typed, NEW r, NEW q, Active(q), q.op \in Claims, UpdateTrack(r, q), Success
    PROVE  DoneIsTrue(q)'
<1>1. q \in Request /\ q.op = "updateTrack" /\ RowsOK
  BY ActiveTypes, TypedParts DEF UpdateTrack
<1>2. ~Fails(r, q) /\ ~Ends(r, q, "db") /\ ~Ends(r, q, "exists") /\ ~Ends(r, q, "notfound")
  BY <1>1, Succeeds
<1>t. PICK t : t = q.track
  OBVIOUS
<1>b. PICK b : b = q.album
  OBVIOUS
<1>3. /\ TrackExists(t) /\ ArtistExists(q.artist) /\ AlbumExists(b)
      /\ tracks' = [tracks EXCEPT ![t].name = q.name, ![t].artist = q.artist,
                                  ![t].global = q.global]
      /\ filed' = {e \in filed : e[1] # t} \union {<<t, b>>}
  BY <1>2, <1>t, <1>b DEF UpdateTrack
<1>4. PICK row \in Track : /\ row.name = q.name /\ row.artist = q.artist /\ row.global = q.global
                           /\ tracks' = [tracks EXCEPT ![t] = row]
  <2>1. tracks' = [tracks EXCEPT ![q.track].name = q.name, ![q.track].artist = q.artist,
                                 ![q.track].global = q.global]
    BY <1>3, <1>t
  <2>2. TrackExists(q.track) /\ ArtistExists(q.artist) /\ RowsOK /\ q.op = "updateTrack"
    BY <1>1, <1>3, <1>t
  <2>3. \E x \in Track : /\ x.name = q.name /\ x.artist = q.artist /\ x.global = q.global
                         /\ tracks' = [tracks EXCEPT ![q.track] = x]
    BY <2>1, <2>2, TrackUpdated
  <2>4. QED
    BY <1>t, <2>3
<1>5. tracks'[t] = row
  BY <1>3, <1>4 DEF TrackExists, Typed, TypeOK
<1>6. {i \in Ids : <<t, i>> \in filed'} = {b}
  <2>1. b \in Ids
    BY <1>3 DEF AlbumExists
  <2>2. \A i : <<t, i>> \in filed' <=> i = b
    BY <1>3
  <2>3. QED
    BY <2>1, <2>2
<1>7. QED
  BY <1>1, <1>t, <1>b, <1>4, <1>5, <1>6 DEF DoneIsTrue, AlbumsOf

\* The image that was stored is the one that its owner leads to.
LEMMA UploadedImage ==
    ASSUME NEW r, NEW q, Active(q), q.op = "uploadImage", PutImage(r, q), Success,
           Accounted(q.key), OwnerOf(q.key) = TheOwner(q)
    PROVE  DoneIsTrue(q)'
<1>1. UNCHANGED <<artists, albums>> /\ strayed \subseteq strayed'
  BY DEF PutImage, rows
<1>2. TheOwner(q) \in strayed \/ NameOf(q.kind, OwnerId(q)) = q.key.name
  BY DEF Accounted, OwnerOf, TheOwner
<1>3. QED
  BY <1>1, <1>2 DEF DoneIsTrue, NameOf, OwnerId, TheOwner

\* Where an image was deleted there is none, but of an owner that strayed.
LEMMA DeletedImage ==
    ASSUME Typed, NEW r, NEW q, Active(q), q.op = "deleteImage", RemoveImage(r, q), Success,
           ObjectsAreOwned, Accounted(q.key), q.key \in Key, OwnerOf(q.key) = TheOwner(q)
    PROVE  DoneIsTrue(q)'
<1>1. q \in Request /\ q.op \in Claims
  BY ActiveTypes DEF Claims
<1>2. images' = images \ {q.key} /\ UNCHANGED strayed
  BY <1>1, Succeeds DEF RemoveImage
<1>o. PICK o : o = TheOwner(q)
  OBVIOUS
<1>3. ASSUME NEW k \in images', k.kind = o.kind, k.id = o.id, o \notin strayed
      PROVE  FALSE
  <2>1. k \in images /\ k # q.key /\ k \in Key
    BY <1>2, <1>3 DEF Typed, TypeOK
  <2>2. [kind |-> k.kind, id |-> k.id] = o
    BY <1>o, <1>3 DEF TheOwner
  <2>3. k.name = NameOf(k.kind, k.id)
    BY <1>3, <2>1, <2>2 DEF ObjectsAreOwned
  <2>4. q.key.kind = o.kind /\ q.key.id = o.id /\ q.key.name = NameOf(o.kind, o.id)
    BY <1>o, <1>3 DEF Accounted, OwnerOf
  <2>5. k = q.key
    BY <1>3, <2>1, <2>3, <2>4 DEF Key
  <2>6. QED
    BY <2>1, <2>5
<1>4. o \in strayed' \/ ImagesOf(o)' = {}
  BY <1>2, <1>3 DEF ImagesOf
<1>5. QED
  BY <1>o, <1>4 DEF DoneIsTrue, TheOwner, OwnerId

\* An artist whose change is reported has been read after it.
LEMMA UpdatedArtist ==
    ASSUME Typed, NEW r, NEW q, Active(q), q.op = "updateArtist", ReadArtist(r, q), Success,
           q.step = Length(q) \/ At(q, "albums")
    PROVE  DoneIsTrue(q)' /\ reply'.request = q
<1>1. q \in Request /\ q.op \in Claims /\ \A at : At(q, at) => OpAt(q, at)
  BY ActiveTypes DEF Claims
<1>2. ~Fails(r, q) /\ ~Ends(r, q, "notfound")
  BY <1>1, Succeeds
<1>3. \/ GetArtistWithAlbums(q.artist) # {} /\ Ends(r, q, "ok")
      \/ ArtistExists(q.artist) /\ Proceeds(r, q)
  <2>1. At(q, "albums") => ~Proceeds(r, q)
    <3>1. OpAt(q, "albums") => q.step # Length(q)
      BY DEF OpAt, On, Length, Creates, ImageOps
    <3>2. QED
      BY <1>1, <3>1, Succeeds
  <2>2. QED
    BY <1>2, <2>1 DEF ReadArtist
<1>4. ArtistExists(q.artist)
  BY <1>3 DEF GetArtistWithAlbums, Typed, TypeOK
<1>5. reply'.request = q
  BY <1>1, <1>3, Succeeds
<1>6. UNCHANGED artists
  BY DEF ReadArtist, data, rows
<1>7. QED
  BY <1>4, <1>5, <1>6 DEF DoneIsTrue, ArtistExists

\* No error of an insertion by itself is answered with success.
LEMMA CreatedStatus ==
    ASSUME NEW r, NEW v, v.op \in Creates, v.step = 1, NEW err, Answer(r, v, err), Success
    PROVE  err = "ok" /\ reply'.request = v
<1>1. reply' = [request |-> v, status |-> Status(v, err)]
  BY DEF Answer
<1>2. QED
  BY <1>1 DEF Success, Status, Creates, CreateArtistStatus, CreateAlbumStatus

\* The statement that makes an artist or album, when it answers the request.
LEMMA CreatedRow ==
    ASSUME Typed, NEW r, NEW q, Active(q), Room, q.op \in Creates, At(q, "insert"), Serves(r, q), Success
    PROVE  DoneIsTrue(reply.request)'
<1>1. q \in Request /\ q.step = 1
  BY ActiveTypes DEF OpAt, On
<1>2. ~PlainStep(r, q)
  BY PlainEnds, OnePlace
<1>3. ~LoadArtworkOwner(r, q) /\ ~FileTracks(r, q) /\ ~CheckSuperuser(r, q)
      /\ ~ListTracks(r, q) /\ ~Search(r, q) /\ ~ReadDeletedTrack(r, q)
  BY OnePlace DEF LoadArtworkOwner, FileTracks, CheckSuperuser, ListTracks, Search, ReadDeletedTrack
<1>4. ~CreateTrackWithAlbum(r, q)
  BY DEF CreateTrackWithAlbum, Creates
<1>5. CreateArtist(r, q) \/ CreateAlbum(r, q)
  BY <1>2, <1>3, <1>4 DEF Serves, PlainStep
<1>6. /\ ~Fails(r, q) /\ \A err : Ends(r, q, err) => err = "ok"
      /\ \A v : v.op = q.op /\ v.step = 1 /\ Done(r, v) => reply'.request = v
  BY <1>1, CreatedStatus DEF Fails, Ends, Done, Proceeds, Go, NoReply, Success
<1>7. CASE CreateArtist(r, q)
  <2>a. PICK a \in Ids : a = created.artist + 1
    BY DEF Room
  <2>v. PICK v : v = [q EXCEPT !.artist = a]
    OBVIOUS
  <2>1. artists' = [artists EXCEPT ![a] = q.name] /\ Done(r, v)
    BY <1>6, <1>7, <2>a, <2>v DEF CreateArtist
  <2>2. v.op = "createArtist" /\ v.step = 1 /\ v.artist = a /\ v.name = q.name
    BY <1>1, <1>7, <2>v DEF CreateArtist, Request
  <2>3. reply'.request = v
    BY <1>6, <1>7, <2>1, <2>2 DEF CreateArtist
  <2>4. artists'[a] = q.name
    BY <2>1 DEF Typed, TypeOK
  <2>5. QED
    BY <2>2, <2>3, <2>4 DEF DoneIsTrue
<1>8. CASE CreateAlbum(r, q)
  <2>b. PICK b \in Ids : b = created.album + 1
    BY DEF Room
  <2>v. PICK v : v = [q EXCEPT !.album = b]
    OBVIOUS
  <2>1. albums' = [albums EXCEPT ![b] = [name |-> q.name, artist |-> q.artist]] /\ Done(r, v)
    BY <1>6, <1>8, <2>b, <2>v DEF CreateAlbum
  <2>2. /\ v.op = "createAlbum" /\ v.step = 1 /\ v.album = b /\ v.name = q.name
        /\ v.artist = q.artist
    BY <1>1, <1>8, <2>v DEF CreateAlbum, Request
  <2>3. reply'.request = v
    BY <1>6, <1>8, <2>1, <2>2 DEF CreateAlbum
  <2>4. albums'[b] = [name |-> q.name, artist |-> q.artist]
    BY <2>1 DEF Typed, TypeOK
  <2>5. QED
    BY <2>2, <2>3, <2>4 DEF DoneIsTrue
<1>9. QED
  BY <1>5, <1>7, <1>8

\* An answer is to the operation that was asked for.
LEMMA RepliesTo ==
    ASSUME Typed, NEW r \in Requests, NEW q, Active(q), Serves(r, q)
    PROVE  \/ reply' = NoReply
           \/ reply'.request.op = q.op /\ reply'.request.cover = q.cover /\ req'[r] = Idle
<1>1. q \in Request /\ \A at : At(q, at) => OpAt(q, at)
  BY ActiveTypes
<1>2. ASSUME NEW v, NEW err, Answer(r, v, err)
      PROVE  reply'.request = v /\ req'[r] = Idle
  BY <1>2 DEF Answer, Typed, PlaceInv
<1>3. \A m : Go(r, m) => reply' = NoReply
  BY DEF Go
<1>4. ASSUME NEW v, \/ Done(r, v) \/ Proceeds(r, v) \/ Fails(r, v)
                    \/ \E err : Ends(r, v, err)
      PROVE  reply' = NoReply \/ (reply'.request = v /\ req'[r] = Idle)
  BY <1>2, <1>3, <1>4 DEF Done, Proceeds, Fails, Ends
<1>5. CASE PlainStep(r, q)
  BY <1>4, <1>5, PlainEnds
<1>6. CASE LoadArtworkOwner(r, q)
  <2>1. PICK v : v.op = q.op /\ v.cover = q.cover /\ (Proceeds(r, v) \/ Fails(r, v) \/ \E err : Ends(r, v, err))
    BY <1>1, <1>6 DEF LoadArtworkOwner, Request
  <2>2. QED
    BY <1>4, <2>1
<1>7. CASE CheckSuperuser(r, q)
  BY <1>3, <1>4, <1>7 DEF CheckSuperuser, RequireSuperuser, AuthorizeTrackChange
<1>8. CASE CreateArtist(r, q) \/ CreateAlbum(r, q)
  <2>1. PICK v : v.op = q.op /\ v.cover = q.cover /\ (Done(r, v) \/ Fails(r, v) \/ \E err : Ends(r, v, err))
    BY <1>1, <1>8 DEF CreateArtist, CreateAlbum, Request
  <2>2. QED
    BY <1>4, <2>1
<1>9. CASE CreateTrackWithAlbum(r, q)
  <2> DEFINE t == created.track + 1
             b == IF q.single THEN created.album + 1 ELSE q.album
  <2>1. t \in Nat /\ b \in Nat
    BY <1>1 DEF Typed, TypeOK, Kinds, Request
  <2>2. WithTrack(q, t, b).op = q.op /\ WithTrack(q, t, b).cover = q.cover
    <3> HIDE DEF t, b
    <3>1. QED
      BY <1>1, <2>1, IdsTaken DEF Keeps
  <2>3. Done(r, WithTrack(q, t, b)) \/ Fails(r, q) \/ \E err : Ends(r, q, err)
    BY <1>9 DEF CreateTrackWithAlbum, WithTrack
  <2>4. QED
    BY <1>4, <2>2, <2>3
<1>10. CASE ListTracks(r, q)
  <2>1. PICK v : v.op = q.op /\ v.cover = q.cover /\ (\/ Done(r, v) \/ Proceeds(r, v) \/ Fails(r, v)
                                 \/ \E err : Ends(r, v, err))
    BY <1>1, <1>10 DEF ListTracks, Request
  <2>2. QED
    BY <1>4, <2>1
<1>11. CASE FileTracks(r, q)
  <2>1. ASSUME NEW L, NEW F
        PROVE  LET v == [q EXCEPT !.left = L, !.found = F] IN v.op = q.op /\ v.cover = q.cover
    BY <1>1 DEF Request
  <2>2. PICK v : v.op = q.op /\ v.cover = q.cover /\ (Proceeds(r, v) \/ Fails(r, v) \/ Go(r, v))
    BY <1>11, <2>1 DEF FileTracks
  <2>3. QED
    BY <1>3, <1>4, <2>2
<1>12. CASE Search(r, q)
  <2>1. PICK v : v.op = q.op /\ v.cover = q.cover /\ Done(r, v)
    BY <1>1, <1>12 DEF Search, Request
  <2>2. QED
    BY <1>4, <2>1
<1>13. CASE ReadDeletedTrack(r, q)
  <2>1. TypeOK
    BY DEF Typed
  <2>2. PICK v : v.op = q.op /\ v.cover = q.cover /\ (Proceeds(r, v) \/ Fails(r, v) \/ \E err : Ends(r, v, err))
    BY <1>1, <1>13, <2>1, TitleVariants
  <2>3. QED
    BY <1>4, <2>2
<1>14. QED
  BY <1>5, <1>6, <1>7, <1>8, <1>9, <1>10, <1>11, <1>12, <1>13 DEF Serves, PlainStep

\* A step that answers with success has done what it says.
LEMMA AnswersStep ==
    ASSUME Typed, OwnInv, Next, Success
    PROVE  DoneIsTrue(reply.request)'
<1>a. PICK r \in Requests : \E q : Served(r, q) /\ Active(q)
  BY NextServed
<1>1. PICK q : Served(r, q) /\ Active(q)
  BY <1>a
<1>2. TypeOK /\ Serves(r, q) /\ q \in Request
  BY <1>1, ActiveTypes DEF Typed, Served
<1>3. reply'.request.op = q.op /\ reply'.request.cover = q.cover
  BY <1>1, <1>2, RepliesTo DEF NoReply, Success
<1>4. CASE q.op \notin Claims \union Creates
  BY <1>3, <1>4 DEF DoneIsTrue, Claims, Creates
<1>c. CASE q.op \in Creates
  <2>1. CASE q.cover
    BY <1>3, <1>c, <2>1 DEF DoneIsTrue, Creates
  <2>2. CASE ~q.cover
    <3>1. /\ q.op # "none" /\ q.step \in 1..Length(q) /\ Len(Steps(q)) = Length(q)
          /\ \A at : At(q, at) => OpAt(q, at)
      BY <1>1, ActiveTypes
    <3>2. Length(q) = 1
      BY <1>c, <2>2 DEF Length, Creates, ImageOps
    <3>3. q.step = 1
      BY <3>1, <3>2
    <3>4. At(q, Steps(q)[1])
      BY <3>1, <3>3 DEF At
    <3>5. OpAt(q, Steps(q)[1])
      BY <3>1, <3>4
    <3>6. At(q, "insert")
      BY <1>c, <3>3, <3>4, <3>5 DEF OpAt, On, Creates, ImageOps, ChangeOps
    <3>7. Room
      BY <1>1, <3>6 DEF Served
    <3>8. QED
      BY <1>1, <1>2, <1>c, <3>6, <3>7, CreatedRow
  <2>3. QED
    BY <2>1, <2>2
<1>5. CASE q.op \in Claims
  <2>1. q.step = Length(q) \/ (At(q, "albums") /\ q.op = "updateArtist")
    BY <1>1, <1>2, <1>5, EarlySteps
  <2>2. (CASE q.op = "deleteArtist" -> DeleteArtist(r, q)
           [] q.op = "deleteAlbum" -> DeleteAlbum(r, q)
           [] q.op = "putTrack" -> AddTrackToAlbum(r, q)
           [] q.op = "takeTrack" -> DeleteTrackFromAlbum(r, q)
           [] q.op = "uploadTrack" -> AddToTranscodingQueue(r, q)
           [] q.op = "deleteTrack" -> DeleteTrack(r, q)
           [] q.op = "updateTrack" -> UpdateTrack(r, q)
           [] q.op = "uploadImage" -> PutImage(r, q)
           [] q.op = "deleteImage" -> RemoveImage(r, q)
           [] q.op = "updateArtist" -> ReadArtist(r, q))
    BY <1>1, <1>2, <1>5, <2>1, LastSteps
  <2>3. /\ At(q, "put") \/ At(q, "remove") =>
              Accounted(q.key) /\ q.key \in Key /\ OwnerOf(q.key) = TheOwner(q)
        /\ At(q, "delete") => Cleared(q)
        /\ strayed \subseteq strayed'
    BY <1>1, ServedOwn DEF FilesStray, Deletes
  <2>4. PlainStep(r, q)
    BY <1>5, <2>2 DEF PlainStep, Claims
  <2>5. reply'.request = q
    <3>1. CASE q.op = "updateArtist"
      BY <1>1, <2>1, <2>2, <3>1, UpdatedArtist
    <3>2. CASE q.op # "updateArtist"
      BY <1>2, <1>5, <2>4, PlainEnds, Succeeds
    <3>3. QED
      BY <3>1, <3>2
  <2>6. DoneIsTrue(q)'
    <3>1. CASE q.op \in {"deleteArtist", "deleteAlbum"}
      BY <1>1, <1>5, <2>2, <3>1, DeletedArtist, DeletedAlbum
    <3>2. CASE q.op \in {"putTrack", "takeTrack"}
      <4>1. \/ AddTrackToAlbum(r, q) /\ q.op = "putTrack"
            \/ DeleteTrackFromAlbum(r, q) /\ q.op = "takeTrack"
        BY <2>2, <3>2
      <4>2. Active(q) /\ Success
        BY <1>1
      <4>3. QED
        BY <1>5, <4>1, <4>2, Refiled, Zenon
    <3>u. CASE q.op = "uploadTrack"
      <4>1. AddToTranscodingQueue(r, q)
        BY <2>2, <3>u
      <4>2. QED
        BY <1>1, <3>u, <4>1, QueuedTrack
    <3>3. CASE q.op = "deleteTrack"
      <4>1. DeleteTrack(r, q) /\ Cleared(q)
        BY <2>2, <2>3, <3>3 DEF DeleteTrack
      <4>2. QED
        BY <1>1, <1>5, <2>3, <4>1, DeletedTrack
    <3>4. CASE q.op = "updateTrack"
      BY <1>1, <1>5, <2>2, <3>4, UpdatedTrack
    <3>5. CASE q.op = "uploadImage"
      <4>1. PutImage(r, q) /\ Accounted(q.key) /\ OwnerOf(q.key) = TheOwner(q)
        BY <2>2, <2>3, <3>5 DEF PutImage
      <4>2. QED
        BY <1>1, <3>5, <4>1, UploadedImage
    <3>6. CASE q.op = "deleteImage"
      <4>1. RemoveImage(r, q) /\ Accounted(q.key) /\ q.key \in Key /\ OwnerOf(q.key) = TheOwner(q)
        BY <2>2, <2>3, <3>6 DEF RemoveImage
      <4>2. QED
        BY <1>1, <3>6, <4>1, DeletedImage DEF OwnInv
    <3>7. CASE q.op = "updateArtist"
      BY <1>1, <2>1, <2>2, <3>7, UpdatedArtist
    <3>8. QED
      BY <1>5, <3>1, <3>2, <3>u, <3>3, <3>4, <3>5, <3>6, <3>7 DEF Claims
  <2>7. QED
    BY <2>5, <2>6 DEF DoneIsTrue, AlbumsOf, ArtistExists, AlbumExists, TrackExists, TheOwner, OwnerId,
      NameOf, ImagesOf
<1>6. QED
  BY <1>4, <1>c, <1>5

\* A client is told of a mistake of his by no reply of success, and by none that
\* reports a failed statement.
Refused == reply'.status \in 400..499

LEMMA RefusalStatus ==
    ASSUME NEW v, v.op \in Ops, v.kind \in Kinds
    PROVE  Status(v, "ok") \notin 400..499 /\ Status(v, "db") \notin 400..499
<1> SUFFICES Status(v, "ok") \in {200, 201, 202} /\ Status(v, "db") = 500
  OBVIOUS
<1>1. CASE v.op \in {"createArtist", "getArtists", "deleteArtist", "getArtist", "updateArtist"}
  <2>1. Status(v, "ok") \in {CreateArtistStatus("ok"), GetAllArtistsStatus("ok"),
        DeleteArtistStatus("ok"), GetArtistStatus("ok"), UpdateArtistStatus("ok")}
    BY <1>1 DEF Status
  <2>2. Status(v, "db") \in {CreateArtistStatus("db"), GetAllArtistsStatus("db"),
        DeleteArtistStatus("db"), GetArtistStatus("db"), UpdateArtistStatus("db")}
    BY <1>1 DEF Status
  <2>3. /\ CreateArtistStatus("ok") \in {200, 201, 202} /\ CreateArtistStatus("db") = 500
        /\ GetAllArtistsStatus("ok") \in {200, 201, 202} /\ GetAllArtistsStatus("db") = 500
        /\ DeleteArtistStatus("ok") \in {200, 201, 202} /\ DeleteArtistStatus("db") = 500
        /\ GetArtistStatus("ok") \in {200, 201, 202} /\ GetArtistStatus("db") = 500
        /\ UpdateArtistStatus("ok") \in {200, 201, 202} /\ UpdateArtistStatus("db") = 500
    BY DEF CreateArtistStatus, GetAllArtistsStatus, DeleteArtistStatus, GetArtistStatus,
      UpdateArtistStatus
  <2>4. QED
    BY <2>1, <2>2, <2>3
<1>2. CASE v.op \in {"createAlbum", "getAlbum", "updateAlbum", "deleteAlbum", "takeTrack", "putTrack"}
  <2>1. Status(v, "ok") \in {CreateAlbumStatus("ok"), GetAlbumStatus("ok"),
        UpdateAlbumStatus("ok"), DeleteAlbumStatus("ok"), DeleteTrackFromAlbumStatus("ok"),
        PutTrackToAlbumStatus("ok")}
    BY <1>2 DEF Status
  <2>2. Status(v, "db") \in {CreateAlbumStatus("db"), GetAlbumStatus("db"),
        UpdateAlbumStatus("db"), DeleteAlbumStatus("db"), DeleteTrackFromAlbumStatus("db"),
        PutTrackToAlbumStatus("db")}
    BY <1>2 DEF Status
  <2>3. /\ CreateAlbumStatus("ok") \in {200, 201, 202} /\ CreateAlbumStatus("db") = 500
        /\ GetAlbumStatus("ok") \in {200, 201, 202} /\ GetAlbumStatus("db") = 500
        /\ UpdateAlbumStatus("ok") \in {200, 201, 202} /\ UpdateAlbumStatus("db") = 500
        /\ DeleteAlbumStatus("ok") \in {200, 201, 202} /\ DeleteAlbumStatus("db") = 500
        /\ DeleteTrackFromAlbumStatus("ok") \in {200, 201, 202} /\ DeleteTrackFromAlbumStatus("db") = 500
        /\ PutTrackToAlbumStatus("ok") \in {200, 201, 202} /\ PutTrackToAlbumStatus("db") = 500
    BY DEF CreateAlbumStatus, GetAlbumStatus, UpdateAlbumStatus, DeleteAlbumStatus,
      DeleteTrackFromAlbumStatus, PutTrackToAlbumStatus
  <2>4. QED
    BY <2>1, <2>2, <2>3
<1>3. CASE v.op \in {"uploadTrack", "deleteTrack", "getTrackMeta", "updateTrack", "getTracks", "search"}
  <2>1. Status(v, "ok") \in {UploadTrackStatus("ok"), DeleteTrackStatus("ok"),
        GetTrackMetaStatus("ok"), UpdateTrackStatus("ok"), GetTracksStatus("ok"),
        SearchStatus("ok")}
    BY <1>3 DEF Status
  <2>2. Status(v, "db") \in {UploadTrackStatus("db"), DeleteTrackStatus("db"),
        GetTrackMetaStatus("db"), UpdateTrackStatus("db"), GetTracksStatus("db"),
        SearchStatus("db")}
    BY <1>3 DEF Status
  <2>3. /\ UploadTrackStatus("ok") \in {200, 201, 202} /\ UploadTrackStatus("db") = 500
        /\ DeleteTrackStatus("ok") \in {200, 201, 202} /\ DeleteTrackStatus("db") = 500
        /\ GetTrackMetaStatus("ok") \in {200, 201, 202} /\ GetTrackMetaStatus("db") = 500
        /\ UpdateTrackStatus("ok") \in {200, 201, 202} /\ UpdateTrackStatus("db") = 500
        /\ GetTracksStatus("ok") \in {200, 201, 202} /\ GetTracksStatus("db") = 500
        /\ SearchStatus("ok") \in {200, 201, 202} /\ SearchStatus("db") = 500
    BY DEF UploadTrackStatus, DeleteTrackStatus, GetTrackMetaStatus, UpdateTrackStatus,
      GetTracksStatus, SearchStatus
  <2>4. QED
    BY <2>1, <2>2, <2>3
<1>4. CASE v.op \in ImageOps
  <2>0. v.kind = "artist" \/ v.kind = "album"
    BY DEF Kinds
  <2>1. Status(v, "ok") \in {DeleteArtistImageStatus("ok"), UploadArtistImageStatus("ok"),
        GetArtistImageStatus("ok"), DeleteAlbumCoverStatus("ok"), GetAlbumCoverStatus("ok"),
        UploadAlbumCoverStatus("ok")}
    BY <1>4, <2>0 DEF Status, ImageOps
  <2>2. Status(v, "db") \in {DeleteArtistImageStatus("db"), UploadArtistImageStatus("db"),
        GetArtistImageStatus("db"), DeleteAlbumCoverStatus("db"), GetAlbumCoverStatus("db"),
        UploadAlbumCoverStatus("db")}
    BY <1>4, <2>0 DEF Status, ImageOps
  <2>3. /\ DeleteArtistImageStatus("ok") \in {200, 201, 202} /\ DeleteArtistImageStatus("db") = 500
        /\ UploadArtistImageStatus("ok") \in {200, 201, 202} /\ UploadArtistImageStatus("db") = 500
        /\ GetArtistImageStatus("ok") \in {200, 201, 202} /\ GetArtistImageStatus("db") = 500
        /\ DeleteAlbumCoverStatus("ok") \in {200, 201, 202} /\ DeleteAlbumCoverStatus("db") = 500
        /\ GetAlbumCoverStatus("ok") \in {200, 201, 202} /\ GetAlbumCoverStatus("db") = 500
        /\ UploadAlbumCoverStatus("ok") \in {200, 201, 202} /\ UploadAlbumCoverStatus("db") = 500
    BY DEF DeleteArtistImageStatus, UploadArtistImageStatus, GetArtistImageStatus,
      DeleteAlbumCoverStatus, GetAlbumCoverStatus, UploadAlbumCoverStatus
  <2>4. QED
    BY <2>1, <2>2, <2>3
<1>5. QED
  BY <1>1, <1>2, <1>3, <1>4 DEF Ops, Creates

\* So a step refuses a request only by ending it with the client's error.
LEMMA Refuses ==
    ASSUME NEW r, NEW v, v.op \in Ops, v.kind \in Kinds, Refused
    PROVE  /\ ~Fails(r, v) /\ ~Proceeds(r, v) /\ ~Done(r, v) /\ ~Ends(r, v, "db") /\ ~Ends(r, v, "ok")
           /\ \A m : ~Go(r, m)
<1>1. \A m : ~Go(r, m)
  BY DEF Go, NoReply, Refused
<1>2. ASSUME NEW err \in {"ok", "db"}, Answer(r, v, err)
      PROVE  FALSE
  <2>1. reply'.status \in {Status(v, "ok"), Status(v, "db")}
    BY <1>2 DEF Answer
  <2>2. QED
    BY <2>1, RefusalStatus DEF Refused
<1>3. QED
  BY <1>1, <1>2 DEF Fails, Proceeds, Done, Ends

Kept == UNCHANGED <<artists, albums, tracks, filed, listed, files, images>>

\* A step that refuses a request changes nothing.
LEMMA RefusedStep ==
    ASSUME Typed, Next, Refused
    PROVE  Kept
<1>a. PICK r \in Requests : \E q : Served(r, q) /\ Active(q)
  BY NextServed
<1>1. PICK q : Served(r, q) /\ Active(q)
  BY <1>a
<1>2. Serves(r, q) /\ q \in Request /\ q.op \in Ops /\ q.kind \in Kinds
  BY <1>1, ActiveTypes DEF Served, Request
<1>3. /\ ~Fails(r, q) /\ ~Proceeds(r, q) /\ ~Done(r, q) /\ ~Ends(r, q, "db") /\ ~Ends(r, q, "ok")
      /\ \A m : ~Go(r, m)
  BY <1>2, Refuses
<1>4. CASE \/ LoadArtworkOwner(r, q) \/ GetImage(r, q) \/ CheckSuperuser(r, q) \/ LookUp(r, q)
           \/ ReadArtist(r, q) \/ ReadArtists(r, q) \/ ReadAlbum(r, q)
           \/ AddToTranscodingQueue(r, q) \/ CheckAccess(r, q) \/ ListTracks(r, q)
           \/ FileTracks(r, q) \/ Search(r, q) \/ ReadDeletedTrack(r, q)
  BY <1>4 DEF Kept, data, rows, LoadArtworkOwner, GetImage, CheckSuperuser, LookUp, ReadArtist,
    ReadArtists, ReadAlbum, AddToTranscodingQueue, CheckAccess, ListTracks, FileTracks, Search,
    ReadDeletedTrack
<1>5. CASE \/ PutImage(r, q) \/ RemoveImage(r, q) \/ PutTrack(r, q) \/ RemoveTrackFiles(r, q)
  BY <1>3, <1>5 DEF Kept, rows, PutImage, RemoveImage, PutTrack, RemoveTrackFiles
<1>6. CASE \/ UpdateArtist(r, q) \/ UpdateAlbum(r, q) \/ UpdateTrack(r, q)
  BY <1>3, <1>6 DEF Kept, UpdateArtist, UpdateAlbum, UpdateTrack
<1>7. CASE \/ DeleteArtist(r, q) \/ DeleteAlbum(r, q) \/ DeleteTrack(r, q)
           \/ AddTrackToAlbum(r, q) \/ DeleteTrackFromAlbum(r, q)
  BY <1>3, <1>7 DEF Kept, rows, DeleteArtist, DeleteAlbum, DeleteTrack, AddTrackToAlbum,
    DeleteTrackFromAlbum
<1>8. CASE \/ CreateArtist(r, q) \/ CreateAlbum(r, q) \/ CreateTrackWithAlbum(r, q)
  <2> DEFINE a == created.artist + 1
             b == created.album + 1
             t == created.track + 1
  <2>1. a \in Nat /\ b \in Nat /\ t \in Nat /\ q.album \in Nat
    BY <1>2 DEF Typed, TypeOK, Kinds, Request
  <2>2. /\ ~Done(r, [q EXCEPT !.artist = a]) /\ ~Done(r, [q EXCEPT !.album = b])
        /\ ~Done(r, WithTrack(q, t, b)) /\ ~Done(r, WithTrack(q, t, q.album))
    <3> HIDE DEF a, b, t
    <3>1. ASSUME NEW v, Keeps(q, v)
          PROVE  ~Done(r, v)
      BY <1>2, <3>1, Refuses DEF Keeps
    <3>2. QED
      BY <1>2, <2>1, <3>1, IdTaken, IdsTaken
  <2>3. QED
    BY <1>3, <1>8, <2>2 DEF Kept, CreateArtist, CreateAlbum, CreateTrackWithAlbum, WithTrack
<1>9. QED
  BY <1>2, <1>4, <1>5, <1>6, <1>7, <1>8 DEF Serves

\* What deletions, filings, updates and uploads report done, and the statements that
\* make artists and albums, is so in the rows and in the bucket when they answer,
\* whatever other requests did between their steps (the transactions of
\* ArtistService, AlbumService and TrackService and the order in which they and
\* ArtworkManager touch the bucket).  The step that reports a mistake of the client's
\* changes no row and no object: transactions that meet a conflict are undone.
THEOREM AnswersTellTheTruth == Spec => AnswersAreTrue
<1>1. Typed /\ OwnInv /\ Next =>
         /\ reply'.status \in {200, 201, 202} => DoneIsTrue(reply.request)'
         /\ reply'.status \in 400..499 => Kept
  BY AnswersStep, RefusedStep DEF Success, Refused
<1>2. Typed /\ OwnInv /\ [Next]_vars =>
         [/\ reply'.status \in {200, 201, 202} => DoneIsTrue(reply.request)'
          /\ reply'.status \in 400..499 => Kept]_vars
  BY <1>1
<1>3. Spec => [][/\ reply'.status \in {200, 201, 202} => DoneIsTrue(reply.request)'
                 /\ reply'.status \in 400..499 => Kept]_vars
  BY <1>2, TypedAlways, OwnAlways, PTL DEF Spec
<1>4. QED
  BY <1>3 DEF AnswersAreTrue, Kept

-------------------------------------------------------------------------------
(* What is read is of some time since the request began.                   *)

\* What is recorded of a reading request.
LEMMA Recorded ==
    ASSUME RecordTracks, NEW s \in Requests, NEW m, req'[s] = m, m.op \in ReadOps
    PROVE  /\ seen'[s].filed = (IF req[s] = Idle THEN FiledTracks ELSE seen[s].filed)
                                  \union FiledTracks'
           /\ seen'[s].open = (IF req[s] = Idle THEN Open(m) ELSE seen[s].open) \union Open(m)'
           /\ steady'[s] = (IF req[s] = Idle THEN FiledTracks \intersect Open(m) ELSE steady[s])
                              \intersect (FiledTracks \intersect Open(m))'
<1>1. seen'[s] = LET before == IF req[s] = Idle THEN [filed |-> FiledTracks, open |-> Open(m)]
                               ELSE seen[s]
                     after == [filed |-> FiledTracks', open |-> Open(m)']
                 IN [filed |-> before.filed \union after.filed, open |-> before.open \union after.open]
  BY DEF RecordTracks
<1>2. steady'[s] = (IF req[s] = Idle THEN FiledTracks \intersect Open(m) ELSE steady[s])
                      \intersect (FiledTracks \intersect Open(m))'
  BY DEF RecordTracks
<1>3. QED
  BY <1>1, <1>2

\* What is met is recorded by every step.
LEMMA MetStep ==
    ASSUME RecordTracks
    PROVE  MetInv'
<1>1. ASSUME NEW s \in Requests, req'[s].op \in ReadOps
      PROVE  /\ FiledTracks' \subseteq seen'[s].filed /\ Open(req[s])' \subseteq seen'[s].open
             /\ steady'[s] \subseteq FiledTracks' \intersect Open(req[s])'
  <2>m. PICK m : m = req'[s]
    OBVIOUS
  <2>1. /\ FiledTracks' \subseteq seen'[s].filed /\ Open(m)' \subseteq seen'[s].open
        /\ steady'[s] \subseteq FiledTracks' \intersect Open(m)'
    BY <1>1, <2>m, Recorded
  <2>2. QED
    BY <2>m, <2>1
<1>2. QED
  BY <1>1 DEF MetInv, Reading

\* The steps of reading requests.
LEMMA ReadHandled ==
    ASSUME NEW r, NEW q, Active(q), q.op \in ReadOps, Serves(r, q)
    PROVE  /\ q.op = "getTrackMeta" =>
                 \/ q.step = 1 /\ At(q, "track") /\ LookUp(r, q)
                 \/ q.step = 2 /\ CheckAccess(r, q)
           /\ q.op = "getTracks" =>
                 \/ q.step \in {1, 2} /\ ListTracks(r, q)
                 \/ q.step = 3 /\ FileTracks(r, q)
           /\ q.op = "search" => Search(r, q)
<1> DEFINE Places == {"track", "access", "user", "tracks", "albumOfEach", "searchTracks",
                      "searchArtists", "searchAlbums"}
<1>1. /\ \A at : At(q, at) => OpAt(q, at)
      /\ \A at : OpAt(q, at) => at \in Places
  <2>1. \A at : At(q, at) => OpAt(q, at)
    BY ActiveTypes
  <2>2. \A at : OpAt(q, at) => at \in Places
    BY DEF OpAt, On, ReadOps, Creates, ImageOps, ChangeOps
  <2>3. QED
    BY <2>1, <2>2
<1>2. CASE \/ CreateArtist(r, q) \/ CreateAlbum(r, q) \/ CreateTrackWithAlbum(r, q)
           \/ UpdateArtist(r, q) \/ UpdateAlbum(r, q) \/ UpdateTrack(r, q)
           \/ DeleteArtist(r, q) \/ DeleteAlbum(r, q) \/ DeleteTrack(r, q)
           \/ AddTrackToAlbum(r, q) \/ DeleteTrackFromAlbum(r, q)
  <2>1. \E at : at \notin Places /\ At(q, at)
    BY <1>2 DEF CreateArtist, CreateAlbum, CreateTrackWithAlbum, UpdateArtist, UpdateAlbum,
      UpdateTrack, DeleteArtist, DeleteAlbum, DeleteTrack, AddTrackToAlbum, DeleteTrackFromAlbum
  <2>2. QED
    BY <1>1, <2>1
<1>3. CASE \/ LoadArtworkOwner(r, q) \/ PutImage(r, q) \/ RemoveImage(r, q) \/ GetImage(r, q)
           \/ CheckSuperuser(r, q) \/ PutTrack(r, q) \/ RemoveTrackFiles(r, q)
  <2>1. \E at : at \notin Places /\ At(q, at)
    BY <1>3 DEF LoadArtworkOwner, PutImage, RemoveImage, GetImage, CheckSuperuser, PutTrack,
      RemoveTrackFiles
  <2>2. QED
    BY <1>1, <2>1
<1>r. CASE \/ ReadArtist(r, q) \/ ReadArtists(r, q) \/ ReadAlbum(r, q) \/ ReadDeletedTrack(r, q)
           \/ AddToTranscodingQueue(r, q)
  <2>1. \E at : at \notin Places /\ At(q, at)
    BY <1>r DEF ReadArtist, ReadArtists, ReadAlbum, ReadDeletedTrack, AddToTranscodingQueue
  <2>2. QED
    BY <1>1, <2>1
<1>4. CASE LookUp(r, q)
  <2>1. At(q, "track")
    BY <1>1, <1>4 DEF LookUp
  <2>2. q.op = "getTrackMeta" /\ q.step = 1
    BY <1>1, <2>1 DEF OpAt, On, ReadOps
  <2>3. QED
    BY <1>4, <2>1, <2>2
<1>5. CASE CheckAccess(r, q)
  <2>1. q.op = "getTrackMeta" /\ q.step = 2
    BY <1>1, <1>5 DEF CheckAccess, OpAt, On
  <2>2. QED
    BY <1>5, <2>1
<1>6. CASE ListTracks(r, q)
  <2>1. q.op = "getTracks" /\ q.step \in {1, 2}
    BY <1>1, <1>6 DEF ListTracks, OpAt, On
  <2>2. QED
    BY <1>6, <2>1
<1>7. CASE FileTracks(r, q)
  <2>0. At(q, "albumOfEach")
    BY <1>7 DEF FileTracks
  <2>1. q.op = "getTracks" /\ q.step = 3
    BY <1>1, <2>0 DEF OpAt, On
  <2>2. QED
    BY <1>7, <2>1
<1>8. CASE Search(r, q)
  <2>1. OpAt(q, "searchTracks") \/ OpAt(q, "searchArtists") \/ OpAt(q, "searchAlbums")
    BY <1>1, <1>8 DEF Search
  <2>2. q.op = "search"
    BY <2>1 DEF OpAt, On
  <2>3. QED
    BY <1>8, <2>2
<1>9. QED
  BY <1>2, <1>3, <1>r, <1>4, <1>5, <1>6, <1>7, <1>8 DEF Serves

\* What an answer to one of them says.
LEMMA ReadAnswer ==
    ASSUME PlaceInv, NEW r \in Requests, NEW v \in Request, v.op \in ReadOps, NEW err, Answer(r, v, err)
    PROVE  /\ req'[r] = Idle /\ reply'.request = v
           /\ reply'.status \in {200, 403, 404} =>
                 \/ err = "ok" /\ reply'.status = 200
                 \/ v.op = "getTrackMeta" /\ err \in {"notfound", "unauthorized"} /\ reply'.status # 200
<1>1. Steps(v)[1] # "insert"
  BY DEF Steps, ReadOps, GetUserMetaSteps, GetUserTracksSteps, SearchSteps
<1>2. /\ req'[r] = Idle
      /\ reply' = [request |-> v, status |-> Status(v, err)]
  BY <1>1 DEF Answer, PlaceInv
<1>3. Status(v, err) \in {200, 403, 404} =>
         \/ err = "ok" /\ Status(v, err) = 200
         \/ v.op = "getTrackMeta" /\ err \in {"notfound", "unauthorized"} /\ Status(v, err) # 200
  BY DEF ReadOps, Status, GetTrackMetaStatus, GetTracksStatus, SearchStatus
<1>4. QED
  BY <1>2, <1>3

\* Metadata: the row with its albums, then whether the user has access.
LEMMA MetaOutcome ==
    ASSUME Typed, NEW r \in Requests, NEW q, Active(q), q.op = "getTrackMeta", Serves(r, q)
    PROVE  /\ q.step = 1 => req'[r] = Idle \/ q.track \in FiledTracks
           /\ q.step = 2 =>
                 /\ reply'.request = q
                 /\ reply'.status = 200 => CanUserAccessTrack(q.user, q.track)
                 /\ reply'.status \in {403, 404} => ~CanUserAccessTrack(q.user, q.track)
<1>1. PlaceInv /\ q \in Request /\ q.op \in ReadOps /\ Len(Steps(q)) = 2
  BY ActiveTypes DEF Typed, ReadOps, Length, Creates, ImageOps
<1>2. ASSUME NEW err, Answer(r, q, err)
      PROVE  /\ req'[r] = Idle /\ reply'.request = q
             /\ reply'.status \in {200, 403, 404} =>
                   \/ err = "ok" /\ reply'.status = 200
                   \/ err \in {"notfound", "unauthorized"} /\ reply'.status # 200
  BY <1>1, <1>2, ReadAnswer
<1>3. ASSUME q.step = 1
      PROVE  req'[r] = Idle \/ q.track \in FiledTracks
  <2>1. At(q, "track") /\ LookUp(r, q)
    BY <1>1, <1>3, ReadHandled
  <2>2. ~At(q, "artist") /\ ~At(q, "album")
    BY <2>1, OnePlace
  <2>3. GetTrack(q.track) \/ Ends(r, q, "notfound") \/ Fails(r, q)
    BY <2>1, <2>2 DEF LookUp
  <2>4. QED
    BY <1>2, <2>3 DEF Ends, Fails, GetTrack
<1>4. ASSUME q.step = 2
      PROVE  /\ reply'.request = q
             /\ reply'.status = 200 => CanUserAccessTrack(q.user, q.track)
             /\ reply'.status \in {403, 404} => ~CanUserAccessTrack(q.user, q.track)
  <2>1. \/ CanUserAccessTrack(q.user, q.track) /\ Proceeds(r, q)
        \/ ~CanUserAccessTrack(q.user, q.track) /\ Ends(r, q, "unauthorized")
        \/ Fails(r, q)
    BY <1>1, <1>4, ReadHandled DEF CheckAccess
  <2>2. \/ CanUserAccessTrack(q.user, q.track) /\ Answer(r, q, "ok")
        \/ ~CanUserAccessTrack(q.user, q.track) /\ Answer(r, q, "unauthorized")
        \/ Answer(r, q, "db")
    BY <1>1, <1>4, <2>1 DEF Proceeds, Ends, Fails
  <2>3. CASE CanUserAccessTrack(q.user, q.track) /\ Answer(r, q, "ok")
    BY <1>2, <2>3
  <2>4. CASE ~CanUserAccessTrack(q.user, q.track) /\ Answer(r, q, "unauthorized")
    BY <1>2, <2>4
  <2>5. CASE Answer(r, q, "db")
    BY <1>2, <2>5
  <2>6. QED
    BY <2>2, <2>3, <2>4, <2>5
<1>5. QED
  BY <1>3, <1>4

\* Search: what it finds is of the first statement.
LEMMA SearchOutcome ==
    ASSUME Typed, NEW r \in Requests, NEW q, Active(q), q.op = "search", Serves(r, q)
    PROVE  /\ q.step = 1 => req'[r] = Idle \/ req'[r].found = SearchTracks(q.user, q.name)
           /\ q.step # 1 => reply' = NoReply \/ reply'.request = q
<1>1. /\ PlaceInv /\ q \in Request /\ q.op \in ReadOps /\ \A at : At(q, at) => OpAt(q, at)
      /\ Search(r, q) /\ req \in [Requests -> Request]
  BY ActiveTypes, ReadHandled DEF Typed, PlaceInv, ReadOps
<1>2. At(q, "searchTracks") => q.step = 1
  BY <1>1 DEF OpAt, On
<1>3. At(q, "searchArtists") \/ At(q, "searchAlbums") => q.step # 1
  BY <1>1 DEF OpAt, On
<1>4. ASSUME NEW v, Done(r, v)
      PROVE  /\ req'[r] = Idle \/ req'[r] = [v EXCEPT !.step = @ + 1]
             /\ reply' = NoReply \/ reply'.request = v
  BY <1>1, <1>4 DEF Done, Proceeds, Fails, Answer, Go
<1>5. ASSUME q.step = 1
      PROVE  req'[r] = Idle \/ req'[r].found = SearchTracks(q.user, q.name)
  <2>f. PICK F : F = SearchTracks(q.user, q.name)
    OBVIOUS
  <2>1. Done(r, [q EXCEPT !.found = F])
    BY <1>1, <1>3, <1>5, <2>f DEF Search
  <2>2. [[q EXCEPT !.found = F] EXCEPT !.step = @ + 1].found = F
    BY <1>1 DEF Request
  <2>3. QED
    BY <1>4, <2>f, <2>1, <2>2
<1>6. ASSUME q.step # 1
      PROVE  reply' = NoReply \/ reply'.request = q
  <2>1. Done(r, q)
    BY <1>1, <1>2, <1>6 DEF Search
  <2>2. QED
    BY <1>4, <2>1
<1>7. QED
  BY <1>5, <1>6

\* The rows that a list takes are those open to its user.
LEMMA TakesRows ==
    ASSUME Typed, NEW r \in Requests, NEW q, Active(q), q.op = "getTracks", q.step = 2, Serves(r, q)
    PROVE  \/ req'[r] = Idle /\ reply'.status # 200
           \/ req'[r] = Idle /\ reply'.request = q /\ Open(q) = {}
           \/ /\ reply' = NoReply
              /\ req'[r].left = Open(q) /\ req'[r].found = q.found
<1>1. /\ PlaceInv /\ q \in Request /\ q.op \in ReadOps /\ \A at : At(q, at) => OpAt(q, at)
      /\ ListTracks(r, q) /\ req \in [Requests -> Request] /\ Len(Steps(q)) = 3
  BY ActiveTypes, ReadHandled DEF Typed, PlaceInv, ReadOps, Length, Creates, ImageOps
<1>L. PICK L : L = GetTracksFor(q.user)
  OBVIOUS
<1>2. ~At(q, "user")
  BY <1>1 DEF OpAt, On
<1>3. \/ Fails(r, q)
      \/ L = {} /\ Ends(r, q, "ok")
      \/ L # {} /\ Proceeds(r, [q EXCEPT !.left = L])
  BY <1>1, <1>2, <1>L DEF ListTracks
<1>4. Open(q) = L
  BY <1>L DEF Open
<1>5. CASE Fails(r, q)
  <2>1. Answer(r, q, "db")
    BY <1>5 DEF Fails
  <2>2. QED
    BY <1>1, <2>1, ReadAnswer
<1>6. CASE L = {} /\ Ends(r, q, "ok")
  <2>1. Answer(r, q, "ok")
    BY <1>6 DEF Ends
  <2>2. QED
    BY <1>1, <1>4, <1>6, <2>1, ReadAnswer
<1>7. CASE Proceeds(r, [q EXCEPT !.left = L])
  <2>v. PICK v : v = [q EXCEPT !.left = L]
    OBVIOUS
  <2>1. /\ v.left = L /\ v.found = q.found /\ v.step = 2 /\ Steps(v) = Steps(q)
        /\ [v EXCEPT !.step = @ + 1].left = L /\ [v EXCEPT !.step = @ + 1].found = q.found
    <3>1. L \in SUBSET Ids
      BY <1>L DEF GetTracksFor, GetAllTracks, GetUserTracks
    <3>2. /\ Keeps(q, v) /\ v.step = q.step /\ v.left = L /\ v.found = q.found
      BY <1>1, <2>v, <3>1, ListTaken
    <3>3. [v EXCEPT !.step = @ + 1].left = L /\ [v EXCEPT !.step = @ + 1].found = q.found
      BY <3>2 DEF Keeps, Request
    <3>4. QED
      BY <3>2, <3>3, SameSteps
  <2>2. Go(r, [v EXCEPT !.step = @ + 1])
    <3>1. Proceeds(r, v)
      BY <1>7, <2>v
    <3>2. v.step # Len(Steps(v))
      BY <1>1, <2>1
    <3>3. QED
      BY <3>1, <3>2 DEF Proceeds
  <2>3. req'[r] = [v EXCEPT !.step = @ + 1] /\ reply' = NoReply
    BY <1>1, <2>2 DEF Go
  <2>4. QED
    BY <1>4, <2>1, <2>3
<1>8. QED
  BY <1>3, <1>5, <1>6, <1>7

\* A list with what is left and what was found.
WithList(q, L, F) == [q EXCEPT !.left = L, !.found = F]

\* The rest of the request stays as it is.
LEMMA ListKept ==
    ASSUME NEW q \in Request, NEW L \in SUBSET Ids, NEW F \in SUBSET Ids
    PROVE  LET m == WithList(q, L, F) IN
           Keeps(q, m) /\ m.step = q.step /\ m.left = L /\ m.found = F
BY DEF WithList, Request, Keeps

\* It has looked one up, and answers or goes on.
FiledOne(r, q, t) ==
    LET F == q.found \union ({t} \intersect FiledTracks) IN
    \/ /\ req'[r] = Idle /\ q.left = {t}
       /\ reply'.request.op = "getTracks" /\ reply'.request.found = F
    \/ /\ reply' = NoReply
       /\ req'[r].left = q.left \ {t} /\ req'[r].found = F

\* Of each it keeps what is filed, and it answers when none is left.
LEMMA FilesEach ==
    ASSUME Typed, NEW r \in Requests, NEW q, Active(q), q.op = "getTracks", q.step = 3, Serves(r, q)
    PROVE  \/ req'[r] = Idle /\ reply'.status # 200
           \/ \E t \in q.left : FiledOne(r, q, t)
<1>1. /\ PlaceInv /\ q \in Request /\ q.op \in ReadOps
      /\ FileTracks(r, q) /\ req \in [Requests -> Request] /\ Len(Steps(q)) = 3
  BY ActiveTypes, ReadHandled DEF Typed, PlaceInv, ReadOps, Length, Creates, ImageOps
<1>2. CASE Fails(r, q)
  <2>1. Answer(r, q, "db")
    BY <1>2 DEF Fails
  <2>2. QED
    BY <1>1, <2>1, ReadAnswer
<1>3. ASSUME NEW t \in q.left,
             LET next == [q EXCEPT !.left = @ \ {t}, !.found = @ \union ({t} \intersect FiledTracks)]
             IN IF next.left = {} THEN Proceeds(r, next) ELSE NoFault /\ Go(r, next)
      PROVE  FiledOne(r, q, t)
  <2>L. PICK L : L = q.left \ {t}
    OBVIOUS
  <2>F. PICK F : F = q.found \union ({t} \intersect FiledTracks)
    OBVIOUS
  <2>v. PICK v : v = WithList(q, L, F)
    OBVIOUS
  <2>1. v = [q EXCEPT !.left = @ \ {t}, !.found = @ \union ({t} \intersect FiledTracks)]
    BY <1>1, <2>L, <2>F, <2>v DEF Request, WithList
  <2>2. IF v.left = {} THEN Proceeds(r, v) ELSE NoFault /\ Go(r, v)
    BY <1>3, <2>1
  <2>3. /\ v \in Request /\ v.op = "getTracks" /\ v.left = L /\ v.found = F /\ v.step = 3
        /\ Steps(v) = Steps(q)
    <3>1. L \in SUBSET Ids /\ F \in SUBSET Ids
      BY <1>1, <2>L, <2>F DEF Request, FiledTracks, TracksIn
    <3>2. Keeps(q, v) /\ v.step = q.step /\ v.left = L /\ v.found = F
      BY <1>1, <2>v, <3>1, ListKept
    <3>3. QED
      BY <3>2, SameSteps DEF Keeps
  <2>4. CASE v.left = {}
    <3>1. Answer(r, v, "ok")
      BY <1>1, <2>2, <2>3, <2>4 DEF Proceeds
    <3>2. req'[r] = Idle /\ reply'.request = v
      BY <1>1, <2>3, <3>1, ReadAnswer DEF ReadOps
    <3>3. q.left = {t}
      BY <2>L, <2>3, <2>4
    <3>4. QED
      BY <2>F, <2>3, <3>2, <3>3 DEF FiledOne
  <2>5. CASE v.left # {}
    <3>1. req'[r] = v /\ reply' = NoReply
      BY <1>1, <2>2, <2>5 DEF Go
    <3>2. QED
      BY <2>L, <2>F, <2>3, <3>1 DEF FiledOne
  <2>6. QED
    BY <2>4, <2>5
<1>4. CASE \E t \in q.left :
               LET next == [q EXCEPT !.left = @ \ {t}, !.found = @ \union ({t} \intersect FiledTracks)]
               IN IF next.left = {} THEN Proceeds(r, next) ELSE NoFault /\ Go(r, next)
  <2>1. PICK t \in q.left :
             LET next == [q EXCEPT !.left = @ \ {t}, !.found = @ \union ({t} \intersect FiledTracks)]
             IN IF next.left = {} THEN Proceeds(r, next) ELSE NoFault /\ Go(r, next)
    BY <1>4, Zenon
  <2>2. FiledOne(r, q, t)
    BY <1>3, <2>1
  <2>3. QED
    BY <2>2
<1>5. QED
  BY <1>1, <1>2, <1>4 DEF FileTracks

\* What a request that reads has met and found when it takes a step: it has found
\* nothing before its first.
LEMMA KnownBefore ==
    ASSUME Typed, ReadInv, NEW r \in Requests, NEW q, Served(r, q), Active(q), q.op \in ReadOps,
           RecordTracks, NEW m, req'[r] = m, m.op = q.op, m.user = q.user
    PROVE  \E F, O, S :
              /\ FiledTracks \subseteq F /\ Open(q) \subseteq O
              /\ S \subseteq FiledTracks \intersect Open(q)
              /\ F \subseteq seen'[r].filed /\ O \subseteq seen'[r].open /\ steady'[r] \subseteq S
              /\ q.op = "getTrackMeta" /\ q.step # 1 => q.track \in F
              /\ q.op \in {"getTracks", "search"} => q.found \subseteq F \intersect O
              /\ q.op = "getTracks" /\ q.step = 3 => q.left \subseteq O /\ S \subseteq q.left \union q.found
<1>1. Open(m) = Open(q)
  BY DEF Open
<1>2. CASE req[r] = Idle
  <2>1. Fresh(q) /\ q.step = 1 /\ q.found = {}
    BY <1>2, IdleTypes DEF Served, Fresh, Underway, WellAsked
  <2>2. /\ FiledTracks \subseteq seen'[r].filed /\ Open(q) \subseteq seen'[r].open
        /\ steady'[r] \subseteq FiledTracks \intersect Open(q)
    BY <1>1, <1>2, Recorded
  <2>F. PICK F : F = FiledTracks
    OBVIOUS
  <2>O. PICK O : O = Open(q)
    OBVIOUS
  <2>3. QED
    BY <2>1, <2>2, <2>F, <2>O
<1>3. CASE req[r] # Idle
  <2>1. req[r] = q
    BY <1>3 DEF Served
  <2>2. /\ FiledTracks \subseteq seen[r].filed /\ Open(q) \subseteq seen[r].open
        /\ steady[r] \subseteq FiledTracks \intersect Open(q)
    BY <2>1 DEF ReadInv, MetInv, Reading
  <2>3. /\ q.op = "getTrackMeta" => q.track \in seen[r].filed
        /\ q.op \in {"getTracks", "search"} => q.found \subseteq seen[r].filed \intersect seen[r].open
        /\ q.op = "getTracks" /\ q.step = 3 =>
              q.left \subseteq seen[r].open /\ steady[r] \subseteq q.left \union q.found
    BY <2>1 DEF ReadInv, FoundInv
  <2>4. /\ seen[r].filed \subseteq seen'[r].filed /\ seen[r].open \subseteq seen'[r].open
        /\ steady'[r] \subseteq steady[r]
    BY <1>3, Recorded
  <2>F. PICK F : F = seen[r].filed
    OBVIOUS
  <2>O. PICK O : O = seen[r].open
    OBVIOUS
  <2>S. PICK S : S = steady[r]
    OBVIOUS
  <2>5. QED
    BY <2>2, <2>3, <2>4, <2>F, <2>O, <2>S
<1>4. QED
  BY <1>2, <1>3

\* What the request that takes a step has found then.
LEMMA FoundServed ==
    ASSUME Typed, ReadInv, NEW r \in Requests, NEW q, Served(r, q), Active(q), q.op \in ReadOps,
           RecordTracks, NEW m, req'[r] = m, Follows(q, m)
    PROVE  /\ m.op = "getTrackMeta" => m.track \in seen'[r].filed
           /\ m.op \in {"getTracks", "search"} => m.found \subseteq seen'[r].filed \intersect seen'[r].open
           /\ m.op = "getTracks" /\ m.step = 3 =>
                 m.left \subseteq seen'[r].open /\ steady'[r] \subseteq m.left \union m.found
<1>1. /\ m.op = q.op /\ m.user = q.user /\ m # Idle /\ m.step \in Nat /\ q.step \in Nat
      /\ q.step \in 1..Len(Steps(q)) /\ Len(Steps(q)) = Length(q)
      /\ \A at : At(q, at) => OpAt(q, at)
  BY ActiveTypes, IdleTypes DEF Follows, Keeps, Request, ReadOps
<1>2. PICK F, O, S :
              /\ FiledTracks \subseteq F /\ Open(q) \subseteq O
              /\ S \subseteq FiledTracks \intersect Open(q)
              /\ F \subseteq seen'[r].filed /\ O \subseteq seen'[r].open /\ steady'[r] \subseteq S
              /\ q.op = "getTrackMeta" /\ q.step # 1 => q.track \in F
              /\ q.op \in {"getTracks", "search"} => q.found \subseteq F \intersect O
              /\ q.op = "getTracks" /\ q.step = 3 => q.left \subseteq O /\ S \subseteq q.left \union q.found
  BY <1>1, KnownBefore
<1>3. CASE q.op = "getTrackMeta"
  <2>1. q.track \in F
    <3>1. q.step = 1 => q.track \in FiledTracks
      BY <1>1, <1>3, MetaOutcome DEF Served
    <3>2. QED
      BY <1>2, <1>3, <3>1
  <2>2. ~At(q, "insert")
    BY <1>1, <1>3 DEF OpAt, On, Creates
  <2>3. m.track = q.track
    BY <2>2 DEF Follows, KeepsMost
  <2>4. QED
    BY <1>1, <1>2, <1>3, <2>1, <2>3
<1>4. CASE q.op = "search"
  <2>1. q.step = 1 => m.found = SearchTracks(q.user, q.name)
    BY <1>1, <1>4, SearchOutcome DEF Served
  <2>2. SearchTracks(q.user, q.name) \subseteq FiledTracks \intersect Open(q)
    BY <1>4 DEF SearchTracks, Open
  <2>3. q.step # 1 => m.found = q.found
    <3>1. q.step # 1 => ~At(q, "tracks") /\ ~At(q, "albumOfEach") /\ ~At(q, "searchTracks")
      BY <1>1, <1>4 DEF OpAt, On
    <3>2. QED
      BY <3>1 DEF Follows, KeepsMost
  <2>4. m.found \subseteq F \intersect O
    BY <1>2, <1>4, <2>1, <2>2, <2>3
  <2>5. QED
    BY <1>1, <1>2, <1>4, <2>4
<1>5. CASE q.op = "getTracks"
  <2>1. CASE q.step = 1
    <3>1. ~At(q, "tracks") /\ ~At(q, "albumOfEach") /\ ~At(q, "searchTracks") /\ ~At(q, "load")
      BY <1>1, <1>5, <2>1 DEF OpAt, On, Creates, ImageOps
    <3>2. m.found = q.found /\ m.step = 2
      BY <1>1, <2>1, <3>1 DEF Follows, KeepsMost
    <3>3. QED
      BY <1>1, <1>2, <1>5, <3>2
  <2>2. CASE q.step = 2
    <3>1. m.left = Open(q) /\ m.found = q.found
      BY <1>1, <1>5, <2>2, TakesRows DEF Served
    <3>2. QED
      BY <1>1, <1>2, <1>5, <3>1
  <2>3. CASE q.step = 3
    <3>1. PICK t \in q.left : FiledOne(r, q, t)
      BY <1>1, <1>5, <2>3, FilesEach DEF Served
    <3>2. m.left = q.left \ {t} /\ m.found = q.found \union ({t} \intersect FiledTracks)
      BY <1>1, <3>1 DEF FiledOne
    <3>3. m.found \subseteq F \intersect O /\ m.left \subseteq O /\ S \subseteq m.left \union m.found
      BY <1>2, <1>5, <2>3, <3>1, <3>2
    <3>4. QED
      BY <1>1, <1>2, <1>5, <3>3
  <2>4. q.step \in {1, 2, 3}
    BY <1>1, <1>5 DEF Length, Creates, ImageOps
  <2>5. QED
    BY <2>1, <2>2, <2>3, <2>4
<1>6. QED
  BY <1>3, <1>4, <1>5 DEF ReadOps

\* What is met and found is kept by every step.
LEMMA ReadStep ==
    ASSUME Typed, ReadInv, [Next]_vars
    PROVE  ReadInv'
<1>1. CASE UNCHANGED vars
  BY <1>1 DEF vars, data, rows, ReadInv, MetInv, FoundInv, Reading, FiledTracks, TracksIn, AlbumsOf,
    Open, GetTracksFor, GetAllTracks, GetUserTracks, CanUserAccessTrack, TrackExists
<1>2. CASE Next
  <2>1. RecordTracks
    BY <1>2 DEF Next
  <2>a. PICK r \in Requests : \E q : Served(r, q) /\ Active(q)
    BY <1>2, NextServed
  <2>2. PICK q : Served(r, q) /\ Active(q)
    BY <2>a
  <2>3. PICK m : /\ req'[r] = m /\ \A s \in Requests \ {r} : req'[s] = req[s]
                 /\ m = Idle \/ Follows(q, m)
    BY <2>2, ServedLeads
  <2>4. ASSUME NEW s \in Requests \ {r}, req[s].op \in ReadOps
        PROVE  /\ seen[s].filed \subseteq seen'[s].filed /\ seen[s].open \subseteq seen'[s].open
               /\ steady'[s] \subseteq steady[s]
    <3>1. req[s] # Idle /\ req'[s] = req[s]
      BY <2>3, <2>4, IdleTypes DEF ReadOps
    <3>2. QED
      BY <2>1, <2>4, <3>1, Recorded
  <2>5. ASSUME NEW s \in Requests \ {r}
        PROVE  LET p == req'[s] IN
               /\ p.op = "getTrackMeta" => p.track \in seen'[s].filed
               /\ p.op \in {"getTracks", "search"} => p.found \subseteq seen'[s].filed \intersect seen'[s].open
               /\ p.op = "getTracks" /\ p.step = 3 =>
                     p.left \subseteq seen'[s].open /\ steady'[s] \subseteq p.left \union p.found
    BY <2>3, <2>4, <2>5 DEF ReadInv, FoundInv, ReadOps
  <2>6. /\ m.op = "getTrackMeta" => m.track \in seen'[r].filed
        /\ m.op \in {"getTracks", "search"} => m.found \subseteq seen'[r].filed \intersect seen'[r].open
        /\ m.op = "getTracks" /\ m.step = 3 =>
              m.left \subseteq seen'[r].open /\ steady'[r] \subseteq m.left \union m.found
    <3>1. CASE m.op \notin ReadOps
      BY <3>1 DEF ReadOps
    <3>2. CASE m.op \in ReadOps
      <4>1. Follows(q, m) /\ q.op \in ReadOps
        BY <2>3, <3>2, IdleTypes DEF ReadOps, Follows, Keeps
      <4>2. QED
        BY <2>1, <2>2, <2>3, <4>1, FoundServed
    <3>3. QED
      BY <3>1, <3>2
  <2>7. FoundInv'
    BY <2>3, <2>5, <2>6 DEF FoundInv
  <2>8. MetInv'
    BY <2>1, MetStep
  <2>9. QED
    BY <2>7, <2>8 DEF ReadInv
<1>3. QED
  BY <1>1, <1>2

\* So it always holds.
LEMMA ReadAlways == Spec => []ReadInv
<1>1. Init => ReadInv
  BY IdleTypes DEF Init, ReadInv, MetInv, FoundInv, Reading, ReadOps
<1>2. Typed /\ ReadInv /\ [Next]_vars => ReadInv'
  BY ReadStep
<1>3. QED
  BY <1>1, <1>2, TypedAlways, PTL DEF Spec

\* What the answer to a reading request shows is what it has found.
LEMMA ReadsStep ==
    ASSUME Typed, ReadInv, Next, NEW s \in Requests, req'[s] # req[s],
           NEW p, p = reply'.request, p.op \in ReadOps
    PROVE  /\ reply'.status = 200 =>
                 (IF p.op = "getTrackMeta" THEN {p.track} ELSE p.found)
                    \subseteq seen[s].filed \intersect seen[s].open
           /\ p.op = "getTracks" /\ reply'.status = 200 => steady[s] \subseteq p.found
           /\ p.op = "getTrackMeta" /\ reply'.status \in {403, 404} => p.track \notin steady[s]
<1>a. PICK r \in Requests : \E q : Served(r, q) /\ Active(q)
  BY NextServed
<1>1. PICK q : Served(r, q) /\ Active(q)
  BY <1>a
<1>2. s = r
  BY <1>1, ServedLeads
<1>3. reply' # NoReply
  BY DEF NoReply, Idle, ReadOps
<1>4. p.op = q.op /\ req'[r] = Idle
  BY <1>1, <1>3, RepliesTo DEF Served
<1>5. req[r] = q /\ Underway(q) /\ Serves(r, q)
  BY <1>1, <1>2, <1>4 DEF Served
<1>6. /\ q.step # 1 /\ q.step \in 1..Len(Steps(q)) /\ Len(Steps(q)) = Length(q)
  BY <1>1, <1>5, ActiveTypes DEF Underway
<1>7. /\ Open(q) \subseteq seen[r].open
      /\ steady[r] \subseteq FiledTracks \intersect Open(q)
      /\ q.op = "getTrackMeta" => q.track \in seen[r].filed
      /\ q.op \in {"getTracks", "search"} => q.found \subseteq seen[r].filed \intersect seen[r].open
      /\ q.op = "getTracks" /\ q.step = 3 =>
            q.left \subseteq seen[r].open /\ steady[r] \subseteq q.left \union q.found
      /\ FiledTracks \subseteq seen[r].filed
  BY <1>4, <1>5 DEF ReadInv, MetInv, FoundInv, Reading
<1>8. CASE q.op = "getTrackMeta"
  <2>1. q.step = 2
    BY <1>6, <1>8 DEF Length, Creates, ImageOps
  <2>2. /\ p = q
        /\ reply'.status = 200 => CanUserAccessTrack(q.user, q.track)
        /\ reply'.status \in {403, 404} => ~CanUserAccessTrack(q.user, q.track)
    BY <1>1, <1>5, <1>8, <2>1, MetaOutcome
  <2>3. q.track \in Open(q) <=> CanUserAccessTrack(q.user, q.track)
    BY <1>8 DEF Open, GetUserTracks, CanUserAccessTrack, TrackExists
  <2>4. QED
    BY <1>2, <1>7, <1>8, <2>2, <2>3
<1>9. CASE q.op = "search"
  <2>1. p = q
    BY <1>1, <1>3, <1>5, <1>6, <1>9, SearchOutcome
  <2>2. QED
    BY <1>2, <1>7, <1>9, <2>1
<1>10. CASE q.op = "getTracks"
  <2>1. CASE q.step = 2
    <3>1. reply'.status # 200 \/ (p = q /\ Open(q) = {})
      BY <1>1, <1>3, <1>5, <1>10, <2>1, TakesRows
    <3>2. QED
      BY <1>2, <1>4, <1>7, <1>10, <3>1
  <2>2. CASE q.step = 3
    <3>1. reply'.status # 200 \/ \E t \in q.left : FiledOne(r, q, t)
      BY <1>1, <1>5, <1>10, <2>2, FilesEach
    <3>2. ASSUME NEW t \in q.left, FiledOne(r, q, t)
          PROVE  /\ p.found \subseteq seen[r].filed \intersect seen[r].open
                 /\ steady[r] \subseteq p.found
      <4>1. q.left = {t} /\ p.found = q.found \union ({t} \intersect FiledTracks)
        BY <1>3, <3>2 DEF FiledOne
      <4>2. QED
        BY <1>7, <1>10, <2>2, <4>1
    <3>3. QED
      BY <1>2, <1>4, <1>10, <3>1, <3>2
  <2>3. q.step \in {2, 3}
    BY <1>6, <1>10 DEF Length, Creates, ImageOps
  <2>4. QED
    BY <2>1, <2>2, <2>3
<1>11. QED
  BY <1>4, <1>8, <1>9, <1>10 DEF ReadOps

\* Lists, metadata and search show only tracks that were in an album and open to the
\* user since the request began, and a list leaves out, or metadata refuses, none that
\* was so all the time, though each is put together from several statements with the
\* changes of others in between (GetUserTracks, GetUserMeta, Search).
THEOREM ReadsTellTheTruth == Spec => ReadsAreTrue
<1>1. ASSUME Typed, ReadInv, Next
      PROVE  LET q == reply'.request
                 shown == IF q.op = "getTrackMeta" THEN {q.track} ELSE q.found
             IN
             \A r \in Requests : req'[r] # req[r] /\ q.op \in ReadOps =>
                /\ reply'.status = 200 => shown \subseteq seen[r].filed \intersect seen[r].open
                /\ q.op = "getTracks" /\ reply'.status = 200 => steady[r] \subseteq q.found
                /\ q.op = "getTrackMeta" /\ reply'.status \in {403, 404} => q.track \notin steady[r]
  BY <1>1, ReadsStep
<1>2. Typed /\ ReadInv /\ [Next]_vars =>
        [LET q == reply'.request
             shown == IF q.op = "getTrackMeta" THEN {q.track} ELSE q.found
         IN
         \A r \in Requests : req'[r] # req[r] /\ q.op \in ReadOps =>
            /\ reply'.status = 200 => shown \subseteq seen[r].filed \intersect seen[r].open
            /\ q.op = "getTracks" /\ reply'.status = 200 => steady[r] \subseteq q.found
            /\ q.op = "getTrackMeta" /\ reply'.status \in {403, 404} => q.track \notin steady[r]]_vars
  BY <1>1
<1>3. QED
  BY <1>2, TypedAlways, ReadAlways, PTL DEF Spec, ReadsAreTrue
================================================================================
