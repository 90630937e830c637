--------------------------------- MODULE Catalog ---------------------------------
(***************************************************************************)
(* Artists, albums and tracks: their rows, the albums that tracks are      *)
(* filed in, the images of artists and albums, and the lists, metadata and *)
(* search results made of them, as ArtistService, AlbumService,            *)
(* TrackService, SearchService and ArtworkManager handle them.             *)
(*                                                                         *)
(* A request is a sequence of steps, each one statement, one transaction   *)
(* or one storage call; the steps of other requests come in between.  Each *)
(* may fail, or take effect with its reply lost.  What becomes of a track  *)
(* in the transcoding queue is in TranscodingPipeline; the playlists, here *)
(* only those that everyone can read, are in Playlists.                    *)
(***************************************************************************)
EXTENDS Naturals, Sequences

CONSTANTS
    Requests,     \* requests that may be served at once
    Users,
    Superusers,
    Names,        \* names of artists, albums and tracks
    Founded,      \* artists, albums, tracks, filed and listed tracks at the start
    MaxFounded,   \* bound: rows of each table at the start
    MaxRequests,  \* bound: requests that begin
    MaxFaults     \* bound: statements and storage calls that fail

\* A request takes one id of each sequence at most; some are given out before.
Ids == 1..(MaxRequests + MaxFounded)
Unnamed == "unnamed"
Nobody == "nobody"

Album == [name : Names, artist : Ids]
NoAlbum == [name |-> Unnamed, artist |-> 0]
Track == [name : Names, artist : Ids, by : Users, global : BOOLEAN]
NoTrack == [name |-> Unnamed, artist |-> 0, by |-> Nobody, global |-> FALSE]

\* The library at the start keeps the keys and references of the database.
WellFounded ==
    LET as == 1..Len(Founded.artists)
        bs == 1..Len(Founded.albums)
        ts == 1..Len(Founded.tracks)
    IN
    /\ Founded.artists \in Seq(Names) /\ Founded.albums \in Seq(Album) /\ Founded.tracks \in Seq(Track)
    /\ as \union bs \union ts \subseteq 1..MaxFounded
    /\ \A a1, a2 \in as : a1 # a2 => Founded.artists[a1] # Founded.artists[a2]
    /\ \A b1, b2 \in bs : b1 # b2 => Founded.albums[b1] # Founded.albums[b2]
    /\ \A b \in bs : Founded.albums[b].artist \in as
    /\ \A t \in ts : Founded.tracks[t].artist \in as
    /\ Founded.filed \subseteq SUBSET (ts \X bs)
    /\ Founded.listed \subseteq SUBSET ts

ASSUME ConstantsAssumption ==
    /\ Superusers \subseteq Users
    /\ Unnamed \notin Names
    /\ MaxFounded \in Nat
    /\ MaxRequests \in Nat
    /\ MaxFaults \in Nat
    /\ WellFounded

VARIABLES
    artists,  \* artists[a]: the name in the row with id a, Unnamed without a row
    albums,   \* albums[b]: the row with id b or NoAlbum
    tracks,   \* tracks[t]: the row with id t or NoTrack
    created,  \* the last id that each sequence has given out
    filed,    \* track_album: pairs of a track and an album
    listed,   \* the tracks in a playlist that everyone can read
    files,    \* tracks whose original or encodings are in the bucket
    images,   \* keys of images in the bucket
    req,      \* req[r]: the request, the step it has come to, what it has read
    reply,    \* the request that the last step answered, and its status
    begun,    \* requests begun, for the bound
    faults,   \* faults left to happen
    \* history
    strayed,  \* owners changed or deleted, while an image or file of theirs was there or on its way
    met,      \* met[r]: what r, a deletion of a track, may have read: the filings and titles since it began
    seen,     \* seen[r]: tracks found filed, or open to r's user, at some time since r began
    steady    \* steady[r]: tracks filed and open to r's user at all times since r began

rows == <<artists, albums, tracks, created, filed, listed>>
data == <<rows, files, images>>
vars == <<data, req, reply, begun, faults, strayed, met, seen, steady>>

Kinds == {"artist", "album"}
Owner == [kind : {"artist", "album", "track"}, id : Ids]
Key == [kind : Kinds, id : Ids, name : Names]
NoKey == [kind |-> "artist", id |-> 0, name |-> Unnamed]
Idle ==
    [op |-> "none", step |-> 1, user |-> Nobody, kind |-> "artist", artist |-> 0, album |-> 0,
     track |-> 0, name |-> Unnamed, title |-> <<Unnamed, 0>>, single |-> FALSE, global |-> FALSE,
     cover |-> FALSE, unchecked |-> FALSE, key |-> NoKey, left |-> {}, found |-> {}]
NoReply == [request |-> Idle, status |-> 0]
NothingMet == [filings |-> {}, titles |-> {}]

-------------------------------------------------------------------------------
(* The steps of each operation.                                            *)

\* A new artist or album has its row, and then perhaps an image.
CreateSteps(q) == IF q.cover THEN <<"insert", "load", "put">> ELSE <<"insert">>
UploadImageSteps == <<"load", "put">>
DeleteImageSteps == <<"load", "remove">>
GetImageSteps == <<"load", "get">>

UpdateArtistSteps == <<"super", "update", "albums", "row">>
DeleteArtistSteps == <<"load", "remove", "delete">>
GetArtistSteps == <<"albums", "row">>
GetAllArtistsSteps == <<"artists", "albumsOfAll">>

UpdateAlbumSteps == <<"super", "artist", "update", "row", "tracksOf">>
DeleteAlbumSteps == <<"super", "load", "remove", "delete">>
GetAlbumSteps == <<"row", "tracksOf">>
EnsureTrackSteps == <<"super", "album", "track", "file">>
DeleteTrackFromAlbumSteps == <<"super", "album", "unfile">>

UploadTrackSteps == <<"insert", "putFile", "enqueue">>
DeleteTrackSteps == <<"super", "track", "removeFiles", "readTrack", "readAlbum", "delete">>
UpdateTrackSteps == <<"super", "artist", "album", "update">>
GetUserMetaSteps == <<"track", "access">>
GetUserTracksSteps == <<"user", "tracks", "albumOfEach">>
SearchSteps == <<"searchTracks", "searchArtists", "searchAlbums">>

Steps(q) ==
    CASE q.op \in {"createArtist", "createAlbum"} -> CreateSteps(q)
      [] q.op = "uploadImage" -> UploadImageSteps
      [] q.op = "deleteImage" -> DeleteImageSteps
      [] q.op = "getImage" -> GetImageSteps
      [] q.op = "updateArtist" -> UpdateArtistSteps
      [] q.op = "deleteArtist" -> DeleteArtistSteps
      [] q.op = "getArtist" -> GetArtistSteps
      [] q.op = "getArtists" -> GetAllArtistsSteps
      [] q.op = "updateAlbum" -> UpdateAlbumSteps
      [] q.op = "deleteAlbum" -> DeleteAlbumSteps
      [] q.op = "getAlbum" -> GetAlbumSteps
      [] q.op = "putTrack" -> EnsureTrackSteps
      [] q.op = "takeTrack" -> DeleteTrackFromAlbumSteps
      [] q.op = "uploadTrack" -> UploadTrackSteps
      [] q.op = "deleteTrack" -> DeleteTrackSteps
      [] q.op = "updateTrack" -> UpdateTrackSteps
      [] q.op = "getTrackMeta" -> GetUserMetaSteps
      [] q.op = "getTracks" -> GetUserTracksSteps
      [] q.op = "search" -> SearchSteps
      [] q.op = "none" -> <<>>

At(q, place) == q.op # "none" /\ Steps(q)[q.step] = place

-------------------------------------------------------------------------------
(* What the handlers make of the service's errors.                         *)

CreateArtistStatus(err) == CASE err = "ok" -> 201 [] err = "exists" -> 409 [] OTHER -> 500
GetAllArtistsStatus(err) == IF err = "ok" THEN 200 ELSE 500
DeleteArtistStatus(err) == IF err = "ok" THEN 200 ELSE 500
GetArtistStatus(err) == CASE err = "ok" -> 200 [] err = "notfound" -> 404 [] OTHER -> 500
UpdateArtistStatus(err) ==
    CASE err = "ok" -> 200 [] err = "notfound" -> 404 [] err = "exists" -> 409
      [] err = "forbidden" -> 403 [] OTHER -> 500
DeleteArtistImageStatus(err) == CASE err = "ok" -> 200 [] err = "notfound" -> 404 [] OTHER -> 500
UploadArtistImageStatus(err) ==
    CASE err = "ok" -> 201 [] err = "badparams" -> 400 [] err = "notfound" -> 404 [] OTHER -> 500
GetArtistImageStatus(err) == CASE err = "ok" -> 200 [] err = "notfound" -> 404 [] OTHER -> 500

CreateAlbumStatus(err) == CASE err = "ok" -> 201 [] err = "exists" -> 409 [] OTHER -> 500
GetAlbumStatus(err) == CASE err = "ok" -> 200 [] err = "notfound" -> 404 [] OTHER -> 500
UpdateAlbumStatus(err) ==
    CASE err = "ok" -> 200 [] err = "notfound" -> 404 [] err = "exists" -> 409
      [] err = "forbidden" -> 403 [] OTHER -> 500
DeleteAlbumStatus(err) == CASE err = "ok" -> 200 [] err = "forbidden" -> 403 [] OTHER -> 500
DeleteTrackFromAlbumStatus(err) ==
    CASE err = "ok" -> 200 [] err = "notfound" -> 404 [] err = "forbidden" -> 403 [] OTHER -> 500
PutTrackToAlbumStatus(err) ==
    CASE err = "ok" -> 200 [] err = "notfound" -> 404 [] err = "forbidden" -> 403 [] OTHER -> 500
DeleteAlbumCoverStatus(err) == CASE err = "ok" -> 200 [] err = "notfound" -> 404 [] OTHER -> 500
GetAlbumCoverStatus(err) == CASE err = "ok" -> 200 [] err = "notfound" -> 404 [] OTHER -> 500
UploadAlbumCoverStatus(err) ==
    CASE err = "ok" -> 201 [] err = "notfound" -> 404 [] err = "badparams" -> 400 [] OTHER -> 500

UploadTrackStatus(err) == CASE err = "ok" -> 202 [] err = "exists" -> 409 [] OTHER -> 500
DeleteTrackStatus(err) ==
    CASE err = "ok" -> 200 [] err = "notfound" -> 404 [] err = "forbidden" -> 403 [] OTHER -> 500
GetTrackMetaStatus(err) ==
    CASE err = "ok" -> 200 [] err = "notfound" -> 404 [] err = "unauthorized" -> 403 [] OTHER -> 500
UpdateTrackStatus(err) ==
    CASE err = "ok" -> 200 [] err = "forbidden" -> 403 [] err = "notfound" -> 404
      [] err = "exists" -> 409 [] OTHER -> 500
GetTracksStatus(err) == IF err = "ok" THEN 200 ELSE 500
SearchStatus(err) == IF err = "ok" THEN 200 ELSE 500

Status(q, err) ==
    CASE q.op = "createArtist" -> CreateArtistStatus(err)
      [] q.op = "getArtists" -> GetAllArtistsStatus(err)
      [] q.op = "deleteArtist" -> DeleteArtistStatus(err)
      [] q.op = "getArtist" -> GetArtistStatus(err)
      [] q.op = "updateArtist" -> UpdateArtistStatus(err)
      [] q.op = "deleteImage" /\ q.kind = "artist" -> DeleteArtistImageStatus(err)
      [] q.op = "uploadImage" /\ q.kind = "artist" -> UploadArtistImageStatus(err)
      [] q.op = "getImage" /\ q.kind = "artist" -> GetArtistImageStatus(err)
      [] q.op = "createAlbum" -> CreateAlbumStatus(err)
      [] q.op = "getAlbum" -> GetAlbumStatus(err)
      [] q.op = "updateAlbum" -> UpdateAlbumStatus(err)
      [] q.op = "deleteAlbum" -> DeleteAlbumStatus(err)
      [] q.op = "takeTrack" -> DeleteTrackFromAlbumStatus(err)
      [] q.op = "putTrack" -> PutTrackToAlbumStatus(err)
      [] q.op = "deleteImage" /\ q.kind = "album" -> DeleteAlbumCoverStatus(err)
      [] q.op = "getImage" /\ q.kind = "album" -> GetAlbumCoverStatus(err)
      [] q.op = "uploadImage" /\ q.kind = "album" -> UploadAlbumCoverStatus(err)
      [] q.op = "uploadTrack" -> UploadTrackStatus(err)
      [] q.op = "deleteTrack" -> DeleteTrackStatus(err)
      [] q.op = "getTrackMeta" -> GetTrackMetaStatus(err)
      [] q.op = "updateTrack" -> UpdateTrackStatus(err)
      [] q.op = "getTracks" -> GetTracksStatus(err)
      [] q.op = "search" -> SearchStatus(err)

Fault == faults > 0 /\ faults' = faults - 1
NoFault == UNCHANGED faults

Go(r, q) == req' = [req EXCEPT ![r] = q] /\ reply' = NoReply

\* Once its row is there, a new artist or album is answered as created whatever
\* becomes of the image.
Answer(r, q, err) ==
    /\ req' = [req EXCEPT ![r] = Idle]
    /\ reply' = [request |-> q,
                 status |-> Status(q, IF Steps(q)[1] = "insert" /\ q.op # "uploadTrack" /\ q.step > 1
                                      THEN "ok" ELSE err)]

Proceeds(r, q) ==
    /\ NoFault
    /\ IF q.step = Len(Steps(q)) THEN Answer(r, q, "ok") ELSE Go(r, [q EXCEPT !.step = @ + 1])
Ends(r, q, err) == NoFault /\ Answer(r, q, err)
Fails(r, q) == Fault /\ Answer(r, q, "db")

\* The step takes effect; its reply may be lost.
Done(r, q) == Proceeds(r, q) \/ Fails(r, q)

-------------------------------------------------------------------------------
(* The queries.                                                            *)

ArtistExists(a) == a \in Ids /\ artists[a] # Unnamed
AlbumExists(b) == b \in Ids /\ albums[b] # NoAlbum
TrackExists(t) == t \in Ids /\ tracks[t] # NoTrack

\* UNIQUE (name) of artist and UNIQUE (artist_id, name) of album.
ArtistNameTaken(n, except) == \E a \in Ids \ except : artists[a] = n
AlbumNameTaken(a, n, except) ==
    \E b \in Ids \ except : albums[b].artist = a /\ albums[b].name = n

AlbumsOf(t) == {b \in Ids : <<t, b>> \in filed}
TracksIn(bs) == {t \in Ids : AlbumsOf(t) \intersect bs # {}}
FiledTracks == TracksIn(Ids)

\* The row is joined with track_album: a track without an album is not found.
GetTrack(t) == t \in FiledTracks
\* The name of a track with each of its albums, and the name of each album.
Filings(t) == {<<tracks[t].name, b>> : b \in AlbumsOf(t)}
Titles == {<<albums[b].name, b>> : b \in {i \in Ids : AlbumExists(i)}}

GetAllTracks == {t \in Ids : TrackExists(t)}
CanUserAccessTrack(u, t) ==
    TrackExists(t) /\ (tracks[t].global \/ tracks[t].by = u \/ t \in listed)
GetUserTracks(u) == {t \in Ids : CanUserAccessTrack(u, t)}
\* The service lists every track to a superuser.
GetTracksFor(u) == IF u \in Superusers THEN GetAllTracks ELSE GetUserTracks(u)

GetArtistWithAlbums(a) == {b \in Ids : AlbumExists(b) /\ albums[b].artist = a}

\* A name matches the query when it is the query.
SearchTracks(u, n) ==
    {t \in FiledTracks \intersect GetUserTracks(u) :
        n \in {tracks[t].name, artists[tracks[t].artist]} \union {albums[b].name : b \in AlbumsOf(t)}}

-------------------------------------------------------------------------------
(* Images.  The key of an image contains its owner's name.                 *)

OwnerId(q) == IF q.kind = "artist" THEN q.artist ELSE q.album
NameOf(kind, i) == IF kind = "artist" THEN artists[i] ELSE albums[i].name
TheOwner(q) == [kind |-> q.kind, id |-> OwnerId(q)]

\* The images of an owner, the requests that hold a key of one, and the requests
\* that have removed what the row has in the bucket and will delete the row.
ImagesOf(o) == {k \in images : k.kind = o.kind /\ k.id = o.id}
Holders(o) ==
    {r \in Requests : req[r].kind = o.kind /\ req[r].key.id = o.id
                      /\ (At(req[r], "put") \/ At(req[r], "remove") \/ At(req[r], "get"))}
Deletes(q) == At(q, "delete") \/ At(q, "readTrack") \/ At(q, "readAlbum")
Deleters(o) ==
    {r \in Requests : Deletes(req[r]) /\
        IF o.kind = "track" THEN req[r].op = "deleteTrack" /\ req[r].track = o.id
        ELSE req[r].op # "deleteTrack" /\ TheOwner(req[r]) = o}
\* The owners whose images are left under a key that is not theirs, or may be.
Left(os) == {o \in os : ImagesOf(o) \union Holders(o) # {}}

\* The key is made of the name that is read here.  An owner that is not there any
\* more is deleted all the same.
LoadArtworkOwner(r, q) ==
    LET id == OwnerId(q)
        name == NameOf(q.kind, id)
    IN
    /\ At(q, "load")
    /\ \/ name # Unnamed /\ Proceeds(r, [q EXCEPT !.key = [kind |-> q.kind, id |-> id, name |-> name]])
       \/ name = Unnamed /\ q.op \in {"deleteArtist", "deleteAlbum"}
            /\ Proceeds(r, [q EXCEPT !.step = @ + 1])
       \/ name = Unnamed /\ q.op \notin {"deleteArtist", "deleteAlbum"} /\ Ends(r, q, "notfound")
       \/ Fails(r, q)
    /\ UNCHANGED <<data, strayed>>

\* An image that cannot be converted is refused before it is stored.
PutImage(r, q) ==
    /\ At(q, "put")
    /\ \/ /\ images' = images \union {q.key}
          /\ strayed' = IF Deleters(TheOwner(q)) # {} THEN strayed \union {TheOwner(q)} ELSE strayed
          /\ Done(r, q)
       \/ Ends(r, q, "badparams") /\ UNCHANGED <<images, strayed>>
       \/ Fails(r, q) /\ UNCHANGED <<images, strayed>>
    /\ UNCHANGED <<rows, files>>

\* Mutant of RemoveImage: a deletion goes on though the image could not be removed.
RemoveImageIfPossible(r, q) ==
    /\ At(q, "remove")
    /\ \/ images' = images \ {q.key} /\ Done(r, q)
       \/ Fault /\ q.op # "deleteImage" /\ Go(r, [q EXCEPT !.step = @ + 1]) /\ UNCHANGED images
       \/ q.op = "deleteImage" /\ Fails(r, q) /\ UNCHANGED images
    /\ UNCHANGED <<rows, files, strayed>>

RemoveImage(r, q) ==
    /\ At(q, "remove")
    /\ \/ images' = images \ {q.key} /\ Done(r, q)
       \/ Fails(r, q) /\ UNCHANGED images
    /\ UNCHANGED <<rows, files, strayed>>

GetImage(r, q) ==
    /\ At(q, "get")
    /\ \/ q.key \in images /\ Proceeds(r, q)
       \/ q.key \notin images /\ Ends(r, q, "notfound")
       \/ Fails(r, q)
    /\ UNCHANGED <<data, strayed>>

-------------------------------------------------------------------------------
(* The checks before a change.                                             *)

\* The handlers of artists and albums go on when the user's row cannot be read:
\* requireSuperuser refuses only what AuthorizeSuperuser says of a row.
RequireSuperuser(r, q) ==
    \/ q.user \in Superusers /\ Proceeds(r, q)
    \/ q.user \notin Superusers /\ Ends(r, q, "forbidden")
    \/ Fault /\ Go(r, [q EXCEPT !.step = @ + 1, !.unchecked = TRUE])

\* TrackService reads the row itself.
AuthorizeTrackChange(r, q) ==
    \/ q.user \in Superusers /\ Proceeds(r, q)
    \/ q.user \notin Superusers /\ Ends(r, q, "forbidden")
    \/ Fails(r, q)

\* Mutant of CheckSuperuser: tracks are changed through requireSuperuser too.
CheckSuperuserInHandlers(r, q) ==
    /\ At(q, "super")
    /\ RequireSuperuser(r, q)
    /\ UNCHANGED <<data, strayed>>

CheckSuperuser(r, q) ==
    /\ At(q, "super")
    /\ IF q.op \in {"deleteTrack", "updateTrack"} THEN AuthorizeTrackChange(r, q)
                                                  ELSE RequireSuperuser(r, q)
    /\ UNCHANGED <<data, strayed>>

\* The rows that a change refers to, read one by one.
LookUp(r, q) ==
    LET found ==
            CASE At(q, "artist") -> ArtistExists(q.artist)
              [] At(q, "album") -> AlbumExists(q.album)
              [] At(q, "track") -> GetTrack(q.track)
    IN
    /\ At(q, "artist") \/ At(q, "album") \/ At(q, "track")
    /\ \/ found /\ Proceeds(r, q)
       \/ ~found /\ Ends(r, q, "notfound")
       \/ Fails(r, q)
    /\ UNCHANGED <<data, strayed>>

-------------------------------------------------------------------------------
(* Artists.                                                                *)

\* A sequence moves on also when the INSERT fails.
CreateArtist(r, q) ==
    LET a == created.artist + 1 IN
    /\ q.op = "createArtist" /\ At(q, "insert")
    /\ \/ /\ ArtistNameTaken(q.name, {})
          /\ created' = [created EXCEPT !.artist = a]
          /\ Ends(r, q, "exists")
          /\ UNCHANGED artists
       \/ /\ ~ArtistNameTaken(q.name, {})
          /\ created' = [created EXCEPT !.artist = a]
          /\ artists' = [artists EXCEPT ![a] = q.name]
          /\ Done(r, [q EXCEPT !.artist = a])
       \/ Fails(r, q) /\ UNCHANGED <<artists, created>>
    /\ UNCHANGED <<albums, tracks, filed, listed, files, images, strayed>>

UpdateArtist(r, q) ==
    LET a == q.artist
        owner == [kind |-> "artist", id |-> a]
    IN
    /\ q.op = "updateArtist" /\ At(q, "update")
    /\ \/ ~ArtistExists(a) /\ Ends(r, q, "notfound") /\ UNCHANGED <<artists, strayed>>
       \/ /\ ArtistExists(a) /\ ArtistNameTaken(q.name, {a})
          /\ Ends(r, q, "exists")
          /\ UNCHANGED <<artists, strayed>>
       \/ /\ ArtistExists(a) /\ ~ArtistNameTaken(q.name, {a})
          /\ artists' = [artists EXCEPT ![a] = q.name]
          /\ strayed' = strayed \union (IF artists[a] = q.name THEN {} ELSE Left({owner}))
          /\ Done(r, q)
       \/ Fails(r, q) /\ UNCHANGED <<artists, strayed>>
    /\ UNCHANGED <<albums, tracks, created, filed, listed, files, images>>

\* Mutant of DeleteArtist: the filing of what is deleted is left.
DeleteArtistKeepFiling(r, q) ==
    LET a == q.artist
        bs == GetArtistWithAlbums(a)
        ts == {t \in GetAllTracks : tracks[t].artist = a}
    IN
    /\ q.op = "deleteArtist" /\ At(q, "delete")
    /\ artists' = [artists EXCEPT ![a] = Unnamed]
    /\ albums' = [b \in Ids |-> IF b \in bs THEN NoAlbum ELSE albums[b]]
    /\ tracks' = [t \in Ids |-> IF t \in ts THEN NoTrack ELSE tracks[t]]
    /\ strayed' = strayed \union Left([kind : {"album"}, id : bs]) \union [kind : {"track"}, id : ts]
    /\ Done(r, q)
    /\ UNCHANGED <<created, filed, listed, files, images>>

\* Albums, tracks and their filing go with the row (ON DELETE CASCADE); the
\* images of the albums and the files of the tracks stay.  A track in a playlist
\* keeps the row (ON DELETE RESTRICT), whose image is gone by then.
DeleteArtist(r, q) ==
    LET a == q.artist
        bs == GetArtistWithAlbums(a)
        ts == {t \in GetAllTracks : tracks[t].artist = a}
        owner == [kind |-> "artist", id |-> a]
    IN
    /\ q.op = "deleteArtist" /\ At(q, "delete")
    /\ \/ ts \intersect listed # {} /\ Ends(r, q, "db") /\ UNCHANGED <<rows, strayed>>
       \/ /\ ts \intersect listed = {}
          /\ artists' = [artists EXCEPT ![a] = Unnamed]
          /\ albums' = [b \in Ids |-> IF b \in bs THEN NoAlbum ELSE albums[b]]
          /\ tracks' = [t \in Ids |-> IF t \in ts THEN NoTrack ELSE tracks[t]]
          /\ filed' = {e \in filed : e[1] \notin ts /\ e[2] \notin bs}
          /\ strayed' = strayed
                \union (IF Holders(owner) = {} THEN {} ELSE {owner})
                \union Left([kind : {"album"}, id : bs])
                \union [kind : {"track"}, id : ts]
          /\ Done(r, q)
          /\ UNCHANGED <<created, listed>>
       \/ Fails(r, q) /\ UNCHANGED <<rows, strayed>>
    /\ UNCHANGED <<files, images>>

\* GetArtistInfo takes the row from the albums that it is joined with, and reads
\* it by itself when there are none.
ReadArtist(r, q) ==
    /\ \/ /\ At(q, "albums")
          /\ \/ GetArtistWithAlbums(q.artist) # {} /\ Ends(r, q, "ok")
             \/ GetArtistWithAlbums(q.artist) = {} /\ Proceeds(r, q)
       \/ /\ q.op \in {"getArtist", "updateArtist"} /\ At(q, "row")
          /\ \/ ArtistExists(q.artist) /\ Proceeds(r, q)
             \/ ~ArtistExists(q.artist) /\ Ends(r, q, "notfound")
       \/ (At(q, "albums") \/ (q.op \in {"getArtist", "updateArtist"} /\ At(q, "row"))) /\ Fails(r, q)
    /\ UNCHANGED <<data, strayed>>

\* The artists, then the albums of each.
ReadArtists(r, q) ==
    /\ At(q, "artists") \/ At(q, "albumsOfAll")
    /\ Done(r, q)
    /\ UNCHANGED <<data, strayed>>

-------------------------------------------------------------------------------
(* Albums.                                                                 *)

CreateAlbum(r, q) ==
    LET b == created.album + 1
        taken == AlbumNameTaken(q.artist, q.name, {})
    IN
    /\ q.op = "createAlbum" /\ At(q, "insert")
    /\ \/ /\ taken \/ ~ArtistExists(q.artist)
          /\ created' = [created EXCEPT !.album = b]
          /\ Ends(r, q, IF taken THEN "exists" ELSE "db")
          /\ UNCHANGED albums
       \/ /\ ~taken /\ ArtistExists(q.artist)
          /\ created' = [created EXCEPT !.album = b]
          /\ albums' = [albums EXCEPT ![b] = [name |-> q.name, artist |-> q.artist]]
          /\ Done(r, [q EXCEPT !.album = b])
       \/ Fails(r, q) /\ UNCHANGED <<albums, created>>
    /\ UNCHANGED <<artists, tracks, filed, listed, files, images, strayed>>

\* The artist was there when LookUp read it; the foreign key fails if it is gone.
UpdateAlbum(r, q) ==
    LET b == q.album
        taken == AlbumNameTaken(q.artist, q.name, {b})
        owner == [kind |-> "album", id |-> b]
    IN
    /\ q.op = "updateAlbum" /\ At(q, "update")
    /\ \/ ~AlbumExists(b) /\ Ends(r, q, "notfound") /\ UNCHANGED <<albums, strayed>>
       \/ /\ AlbumExists(b) /\ (taken \/ ~ArtistExists(q.artist))
          /\ Ends(r, q, IF taken THEN "exists" ELSE "db")
          /\ UNCHANGED <<albums, strayed>>
       \/ /\ AlbumExists(b) /\ ~taken /\ ArtistExists(q.artist)
          /\ albums' = [albums EXCEPT ![b] = [name |-> q.name, artist |-> q.artist]]
          /\ strayed' = strayed \union (IF albums[b].name = q.name THEN {} ELSE Left({owner}))
          /\ Done(r, q)
       \/ Fails(r, q) /\ UNCHANGED <<albums, strayed>>
    /\ UNCHANGED <<artists, tracks, created, filed, listed, files, images>>

DeleteAlbum(r, q) ==
    LET b == q.album
        owner == [kind |-> "album", id |-> b]
    IN
    /\ q.op = "deleteAlbum" /\ At(q, "delete")
    /\ \/ /\ albums' = [albums EXCEPT ![b] = NoAlbum]
          /\ filed' = {e \in filed : e[2] # b}
          /\ strayed' = IF Holders(owner) = {} THEN strayed ELSE strayed \union {owner}
          /\ Done(r, q)
       \/ Fails(r, q) /\ UNCHANGED <<albums, filed, strayed>>
    /\ UNCHANGED <<artists, tracks, created, listed, files, images>>

\* A track that is in the album already is put there; a row that is gone fails
\* the foreign key.
AddTrackToAlbum(r, q) ==
    /\ At(q, "file")
    /\ \/ <<q.track, q.album>> \in filed /\ Ends(r, q, "ok") /\ UNCHANGED filed
       \/ /\ ~TrackExists(q.track) \/ ~AlbumExists(q.album)
          /\ Ends(r, q, "db")
          /\ UNCHANGED filed
       \/ /\ TrackExists(q.track) /\ AlbumExists(q.album) /\ <<q.track, q.album>> \notin filed
          /\ filed' = filed \union {<<q.track, q.album>>}
          /\ Done(r, q)
       \/ Fails(r, q) /\ UNCHANGED filed
    /\ UNCHANGED <<artists, albums, tracks, created, listed, files, images, strayed>>

DeleteTrackFromAlbum(r, q) ==
    /\ At(q, "unfile")
    /\ \/ filed' = filed \ {<<q.track, q.album>>} /\ Done(r, q)
       \/ Fails(r, q) /\ UNCHANGED filed
    /\ UNCHANGED <<artists, albums, tracks, created, listed, files, images, strayed>>

\* GetAlbumInfo: the row, then the tracks in the album.
ReadAlbum(r, q) ==
    /\ q.op \in {"getAlbum", "updateAlbum"}
    /\ \/ /\ At(q, "row")
          /\ \/ AlbumExists(q.album) /\ Proceeds(r, q)
             \/ ~AlbumExists(q.album) /\ Ends(r, q, "notfound")
       \/ At(q, "tracksOf") /\ Proceeds(r, q)
       \/ (At(q, "row") \/ At(q, "tracksOf")) /\ Fails(r, q)
    /\ UNCHANGED <<data, strayed>>

-------------------------------------------------------------------------------
(* Tracks.                                                                 *)

\* Mutant of CreateTrackWithAlbum: the track's row is committed before the album
\* of a single is made.
CreateTrackThenAlbum(r, q) ==
    LET t == created.track + 1
        b == IF q.single THEN created.album + 1 ELSE q.album
    IN
    /\ q.op = "uploadTrack" /\ At(q, "insert")
    /\ ArtistExists(q.artist)
    /\ tracks' = [tracks EXCEPT
          ![t] = [name |-> q.name, artist |-> q.artist, by |-> q.user, global |-> q.global]]
    /\ created' = [created EXCEPT !.track = t, !.album = IF q.single THEN b ELSE @]
    /\ \/ /\ q.single /\ AlbumNameTaken(q.artist, q.name, {})
          /\ Ends(r, q, "exists")
          /\ UNCHANGED <<albums, filed>>
       \/ /\ ~(q.single /\ AlbumNameTaken(q.artist, q.name, {})) /\ (q.single \/ AlbumExists(b))
          /\ albums' = IF q.single THEN [albums EXCEPT ![b] = [name |-> q.name, artist |-> q.artist]]
                                   ELSE albums
          /\ filed' = filed \union {<<t, b>>}
          /\ Done(r, [q EXCEPT !.track = t, !.album = b])
    /\ UNCHANGED <<artists, listed, files, images, strayed>>

\* One transaction.  A single gets an album of its own, with its name.
CreateTrackWithAlbum(r, q) ==
    LET t == created.track + 1
        b == IF q.single THEN created.album + 1 ELSE q.album
        dangling == ~ArtistExists(q.artist)
        conflict == q.single /\ AlbumNameTaken(q.artist, q.name, {})
        lost == ~q.single /\ ~AlbumExists(q.album)
    IN
    /\ q.op = "uploadTrack" /\ At(q, "insert")
    /\ \/ /\ dangling \/ conflict \/ lost
          /\ created' = [created EXCEPT !.track = t, !.album = IF q.single /\ ~dangling THEN b ELSE @]
          /\ Ends(r, q, IF conflict THEN "exists" ELSE "db")
          /\ UNCHANGED <<albums, tracks, filed>>
       \/ /\ ~dangling /\ ~conflict /\ ~lost
          /\ created' = [created EXCEPT !.track = t, !.album = IF q.single THEN b ELSE @]
          /\ tracks' = [tracks EXCEPT
                ![t] = [name |-> q.name, artist |-> q.artist, by |-> q.user, global |-> q.global]]
          /\ albums' = IF q.single THEN [albums EXCEPT ![b] = [name |-> q.name, artist |-> q.artist]]
                                   ELSE albums
          /\ filed' = filed \union {<<t, b>>}
          /\ Done(r, [q EXCEPT !.track = t, !.album = b])
       \/ Fails(r, q) /\ UNCHANGED <<albums, tracks, filed, created>>
    /\ UNCHANGED <<artists, listed, files, images, strayed>>

\* The file is stored also when the track has been deleted meanwhile.
PutTrack(r, q) ==
    LET owner == [kind |-> "track", id |-> q.track] IN
    /\ At(q, "putFile")
    /\ \/ /\ files' = files \union {q.track}
          /\ strayed' = IF TrackExists(q.track) /\ Deleters(owner) = {} THEN strayed
                        ELSE strayed \union {owner}
          /\ Done(r, q)
       \/ Fails(r, q) /\ UNCHANGED <<files, strayed>>
    /\ UNCHANGED <<rows, images>>

\* The queue's row refers to the track's.
AddToTranscodingQueue(r, q) ==
    /\ At(q, "enqueue")
    /\ \/ TrackExists(q.track) /\ Proceeds(r, q)
       \/ ~TrackExists(q.track) /\ Ends(r, q, "db")
       \/ Fails(r, q)
    /\ UNCHANGED <<data, strayed>>

\* The encodings, then the original; what fails leaves some of them.
RemoveTrackFiles(r, q) ==
    /\ At(q, "removeFiles")
    /\ \/ files' = files \ {q.track} /\ Done(r, q)
       \/ Fails(r, q) /\ UNCHANGED files
    /\ UNCHANGED <<rows, images, strayed>>

\* The transaction of DeleteTrack is Read Committed and locks nothing that it
\* reads.  The track is read again, with one of its albums; then that album.
ReadDeletedTrack(r, q) ==
    /\ \/ /\ At(q, "readTrack")
          /\ \/ ~GetTrack(q.track) /\ Ends(r, q, "notfound")
             \/ \E filing \in Filings(q.track) : Proceeds(r, [q EXCEPT !.title = filing])
       \/ /\ At(q, "readAlbum")
          /\ \/ ~AlbumExists(q.title[2]) /\ Ends(r, q, "notfound")
             \/ AlbumExists(q.title[2]) /\ Proceeds(r, [q EXCEPT !.single = (q.title \in Titles)])
       \/ (At(q, "readTrack") \/ At(q, "readAlbum")) /\ Fails(r, q)
    /\ UNCHANGED <<data, strayed>>

\* What it deletes goes when it commits: the track, if it is still there, and, if
\* the names that were read are the same, the album, whatever is in it now.
DeleteTrack(r, q) ==
    LET t == q.track
        gone == {b \in Ids : q.single /\ b = q.title[2]}
    IN
    /\ q.op = "deleteTrack" /\ At(q, "delete")
    /\ \/ /\ tracks' = [tracks EXCEPT ![t] = NoTrack]
          /\ listed' = listed \ {t}
          /\ albums' = [b \in Ids |-> IF b \in gone THEN NoAlbum ELSE albums[b]]
          /\ filed' = {e \in filed : e[1] # t /\ e[2] \notin gone}
          /\ strayed' = strayed \union Left([kind : {"album"}, id : gone])
          /\ Done(r, q)
       \/ Fails(r, q) /\ UNCHANGED <<albums, tracks, filed, listed, strayed>>
    /\ UNCHANGED <<artists, created, files, images>>

\* Mutant of UpdateTrack: a conflict is taken for the update being made.
UpdateTrackUnlessFiled(r, q) ==
    LET t == q.track IN
    /\ q.op = "updateTrack" /\ At(q, "update")
    /\ TrackExists(t) /\ ArtistExists(q.artist) /\ AlbumExists(q.album)
    /\ \/ <<t, q.album>> \in filed /\ Ends(r, q, "ok") /\ UNCHANGED <<tracks, filed>>
       \/ /\ <<t, q.album>> \notin filed
          /\ tracks' = [tracks EXCEPT ![t].name = q.name, ![t].artist = q.artist, ![t].global = q.global]
          /\ filed' = {e \in filed : e[1] # t} \union {<<t, q.album>>}
          /\ Done(r, q)
    /\ UNCHANGED <<artists, albums, created, listed, files, images, strayed>>

\* One transaction: the row, then the album.  The statement that files the track
\* takes it out of every album and puts it into the new one in an order that is
\* not specified; if it is in that one, it may conflict.
UpdateTrack(r, q) ==
    LET t == q.track
        dangling == ~ArtistExists(q.artist) \/ ~AlbumExists(q.album)
    IN
    /\ q.op = "updateTrack" /\ At(q, "update")
    /\ \/ ~TrackExists(t) /\ Ends(r, q, "notfound") /\ UNCHANGED <<tracks, filed>>
       \/ TrackExists(t) /\ dangling /\ Ends(r, q, "db") /\ UNCHANGED <<tracks, filed>>
       \/ /\ TrackExists(t) /\ ~dangling /\ <<t, q.album>> \in filed
          /\ Ends(r, q, "exists")
          /\ UNCHANGED <<tracks, filed>>
       \/ /\ TrackExists(t) /\ ~dangling
          /\ tracks' = [tracks EXCEPT ![t].name = q.name, ![t].artist = q.artist, ![t].global = q.global]
          /\ filed' = {e \in filed : e[1] # t} \union {<<t, q.album>>}
          /\ Done(r, q)
       \/ Fails(r, q) /\ UNCHANGED <<tracks, filed>>
    /\ UNCHANGED <<artists, albums, created, listed, files, images, strayed>>

\* getTrackForUser, after the row is read.
CheckAccess(r, q) ==
    /\ At(q, "access")
    /\ \/ CanUserAccessTrack(q.user, q.track) /\ Proceeds(r, q)
       \/ ~CanUserAccessTrack(q.user, q.track) /\ Ends(r, q, "unauthorized")
       \/ Fails(r, q)
    /\ UNCHANGED <<data, strayed>>

\* GetUserByID, then the tracks without their albums.
ListTracks(r, q) ==
    /\ \/ At(q, "user") /\ Done(r, q)
       \/ At(q, "tracks") /\ Fails(r, q)
       \/ /\ At(q, "tracks")
          /\ LET ts == GetTracksFor(q.user) IN
             IF ts = {} THEN Ends(r, q, "ok") ELSE Proceeds(r, [q EXCEPT !.left = ts])
    /\ UNCHANGED <<data, strayed>>

\* Mutant of FileTracks: a track without an album is listed with the others.
FileTracksAnyway(r, q) ==
    /\ At(q, "albumOfEach")
    /\ \/ \E t \in q.left :
             LET next == [q EXCEPT !.left = @ \ {t}, !.found = @ \union {t}] IN
             IF next.left = {} THEN Proceeds(r, next) ELSE NoFault /\ Go(r, next)
       \/ Fails(r, q)
    /\ UNCHANGED <<data, strayed>>

\* Then the album of each; a track that has none by now is left out.
FileTracks(r, q) ==
    /\ At(q, "albumOfEach")
    /\ \/ \E t \in q.left :
             LET next == [q EXCEPT !.left = @ \ {t}, !.found = @ \union ({t} \intersect FiledTracks)]
             IN IF next.left = {} THEN Proceeds(r, next) ELSE NoFault /\ Go(r, next)
       \/ Fails(r, q)
    /\ UNCHANGED <<data, strayed>>

Search(r, q) ==
    /\ \/ /\ At(q, "searchTracks")
          /\ Done(r, [q EXCEPT !.found = SearchTracks(q.user, q.name)])
       \/ (At(q, "searchArtists") \/ At(q, "searchAlbums")) /\ Done(r, q)
    /\ UNCHANGED <<data, strayed>>

-------------------------------------------------------------------------------
(* The specification.                                                      *)

Init ==
    /\ artists = [a \in Ids |-> IF a \in DOMAIN Founded.artists THEN Founded.artists[a] ELSE Unnamed]
    /\ albums = [b \in Ids |-> IF b \in DOMAIN Founded.albums THEN Founded.albums[b] ELSE NoAlbum]
    /\ tracks = [t \in Ids |-> IF t \in DOMAIN Founded.tracks THEN Founded.tracks[t] ELSE NoTrack]
    /\ created = [artist |-> Len(Founded.artists), album |-> Len(Founded.albums),
                  track |-> Len(Founded.tracks)]
    /\ filed \in Founded.filed
    /\ listed \in Founded.listed
    /\ files = DOMAIN Founded.tracks
    /\ images = {k \in Key : NameOf(k.kind, k.id) = k.name}
    /\ req = [r \in Requests |-> Idle]
    /\ reply = NoReply
    /\ begun = 0
    /\ faults = MaxFaults
    /\ strayed = {}
    /\ met = [r \in Requests |-> NothingMet]
    /\ seen = [r \in Requests |-> [filed |-> {}, open |-> {}]]
    /\ steady = [r \in Requests |-> {}]

\* What a client asks; the user matters where the operation asks who he is.
ReadOps == {"getTrackMeta", "getTracks", "search"}
Asks ==
    LET as == 1..created.artist
        bs == 1..created.album
        ts == 1..created.track
    IN
    [op : {"createArtist"}, kind : {"artist"}, name : Names, cover : BOOLEAN]
      \union [op : {"updateArtist"}, kind : {"artist"}, user : Users, artist : as, name : Names]
      \union [op : {"deleteArtist", "getArtist"}, kind : {"artist"}, artist : as]
      \union [op : {"getArtists"}]
      \union [op : {"uploadImage", "deleteImage", "getImage"}, kind : {"artist"}, artist : as]
      \union [op : {"uploadImage", "deleteImage", "getImage", "getAlbum"}, kind : {"album"}, album : bs]
      \union [op : {"createAlbum"}, kind : {"album"}, artist : as, name : Names, cover : BOOLEAN]
      \union [op : {"updateAlbum"}, kind : {"album"}, user : Users, album : bs, artist : as, name : Names]
      \union [op : {"deleteAlbum"}, kind : {"album"}, user : Users, album : bs]
      \union [op : {"putTrack", "takeTrack"}, user : Users, track : ts, album : bs]
      \union [op : {"uploadTrack"}, user : Users, name : Names, artist : as, album : bs,
              single : {FALSE}, global : BOOLEAN]
      \union [op : {"uploadTrack"}, user : Users, name : Names, artist : as, single : {TRUE}, global : {TRUE}]
      \union [op : {"deleteTrack", "getTrackMeta"}, user : Users, track : ts]
      \union [op : {"updateTrack"}, user : Users, track : ts, name : Names, artist : as, album : bs,
              global : BOOLEAN]
      \union [op : {"getTracks"}, user : Users]
      \union [op : {"search"}, user : Users, name : Names]

Asked(ask) == [f \in DOMAIN Idle |-> IF f \in DOMAIN ask THEN ask[f] ELSE Idle[f]]

Serves(r, q) ==
    \/ LoadArtworkOwner(r, q) \/ PutImage(r, q) \/ RemoveImage(r, q) \/ GetImage(r, q)
    \/ CheckSuperuser(r, q) \/ LookUp(r, q)
    \/ CreateArtist(r, q) \/ UpdateArtist(r, q) \/ DeleteArtist(r, q)
    \/ ReadArtist(r, q) \/ ReadArtists(r, q)
    \/ CreateAlbum(r, q) \/ UpdateAlbum(r, q) \/ DeleteAlbum(r, q)
    \/ AddTrackToAlbum(r, q) \/ DeleteTrackFromAlbum(r, q) \/ ReadAlbum(r, q)
    \/ CreateTrackWithAlbum(r, q) \/ PutTrack(r, q) \/ AddToTranscodingQueue(r, q)
    \/ RemoveTrackFiles(r, q) \/ ReadDeletedTrack(r, q) \/ DeleteTrack(r, q) \/ UpdateTrack(r, q)
    \/ CheckAccess(r, q) \/ ListTracks(r, q) \/ FileTracks(r, q) \/ Search(r, q)

Begins(r) ==
    /\ begun < MaxRequests
    /\ begun' = begun + 1
    /\ req[r] = Idle
    /\ \E ask \in Asks : Serves(r, Asked(ask))
Continues(r) == UNCHANGED begun /\ Serves(r, req[r])

\* A request that begins has the state before its first step among those it meets.
RecordNames ==
    met' = [r \in Requests |->
       IF req'[r].op # "deleteTrack" THEN NothingMet
       ELSE LET before == IF req[r] = Idle THEN [filings |-> Filings(req'[r].track), titles |-> Titles]
                                           ELSE met[r]
                after == [filings |-> Filings(req[r].track)', titles |-> Titles']
            IN [filings |-> before.filings \union after.filings,
                titles |-> before.titles \union after.titles]]

\* The tracks open to the user of q: a list shows every track to a superuser.
Open(q) == IF q.op = "getTracks" THEN GetTracksFor(q.user) ELSE GetUserTracks(q.user)

RecordTracks ==
    LET now(q) == [filed |-> FiledTracks, open |-> Open(q)]
        reads(r) == req'[r].op \in ReadOps
        began(r) == req[r] = Idle
    IN
    /\ seen' = [r \in Requests |->
          IF ~reads(r) THEN [filed |-> {}, open |-> {}]
          ELSE LET before == IF began(r) THEN now(req'[r]) ELSE seen[r]
                   after == now(req[r])'
               IN [filed |-> before.filed \union after.filed, open |-> before.open \union after.open]]
    /\ steady' = [r \in Requests |->
          IF ~reads(r) THEN {}
          ELSE (IF began(r) THEN FiledTracks \intersect Open(req'[r]) ELSE steady[r])
                  \intersect (FiledTracks \intersect Open(req[r]))']

Next ==
    /\ \E r \in Requests : Begins(r) \/ Continues(r)
    /\ RecordNames
    /\ RecordTracks

Spec == Init /\ [][Next]_vars

-------------------------------------------------------------------------------
(* Properties.                                                             *)

\* Types, and the keys and references that the database keeps: names are unique,
\* and no row refers to one that is gone, whatever was deleted.
TypeOK ==
    /\ artists \in [Ids -> Names \union {Unnamed}]
    /\ albums \in [Ids -> Album \union {NoAlbum}]
    /\ tracks \in [Ids -> Track \union {NoTrack}]
    /\ created \in [Kinds \union {"track"} -> Nat]
    /\ files \subseteq Ids
    /\ images \subseteq Key
    /\ begun \in 0..MaxRequests
    /\ faults \in 0..MaxFaults
    /\ strayed \subseteq Owner
    /\ \A a1, a2 \in Ids : a1 # a2 /\ ArtistExists(a1) => artists[a1] # artists[a2]
    /\ \A b1, b2 \in Ids : b1 # b2 /\ AlbumExists(b1) => albums[b1] # albums[b2]
    /\ \A b \in Ids : AlbumExists(b) => ArtistExists(albums[b].artist)
    /\ \A t \in Ids : TrackExists(t) => ArtistExists(tracks[t].artist)
    /\ \A e \in filed : TrackExists(e[1]) /\ AlbumExists(e[2])
    /\ \A t \in listed : TrackExists(t)

\* What is in the bucket belongs to a row that leads to it: an image to an artist
\* or album of the name in its key, a file to a track.  Things are left behind
\* only when their owner was renamed with an image, went with its artist or its
\* title track, or was changed while something of it was being stored.
ObjectsAreOwned ==
    /\ \A k \in images :
          [kind |-> k.kind, id |-> k.id] \in strayed \/ NameOf(k.kind, k.id) = k.name
    /\ \A t \in files : [kind |-> "track", id |-> t] \in strayed \/ TrackExists(t)

\* Every track is in an album from the step that makes its row.  It is left in
\* none only by a request to take it out of an album or to delete the album or the
\* album's artist, and by the deletion of another track that was in the album and
\* had a name that was the album's, each at some time since the request began: the
\* names are compared some statements before the album is deleted, and the two
\* may have been renamed, or the track moved, in between.  A track that is in no
\* album is found by no request but UpdateTrack, which files it again.
AlbumsAreLeftKnowingly ==
    [][\A t \in Ids : TrackExists(t)' /\ ~(GetTrack(t)') =>
          \/ TrackExists(t) /\ ~GetTrack(t)
          \/ \E r \in Requests :
                LET q == req[r] IN
                /\ req'[r] # q /\ TrackExists(t) /\ AlbumsOf(t) # {}
                /\ \A b \in AlbumsOf(t) :
                      \/ q.op = "takeTrack" /\ q.track = t /\ q.album = b
                      \/ q.op = "deleteAlbum" /\ q.album = b
                      \/ q.op = "deleteArtist" /\ q.artist = albums[b].artist
                      \/ /\ q.op = "deleteTrack" /\ q.track # t
                         /\ \E title \in met[r].filings \intersect met[r].titles : title[2] = b]_vars

\* What exists is changed or deleted only for superusers, tracks without exception.
\* Albums, the filing of tracks and the names of artists change for others when
\* the check's own read failed (requireSuperuser goes on), and by the deletion of
\* an artist, which everyone may ask for; adding needs no superuser.
OnlySuperusersChange ==
    [][\A r \in Requests : req'[r] # req[r] =>
          LET q == req[r]
              super == q.user \in Superusers
          IN
          /\ \A t \in GetAllTracks : tracks'[t] # tracks[t] => super \/ q.op = "deleteArtist"
          /\ \/ super \/ q.unchecked \/ q.op = "deleteArtist"
             \/ /\ filed \subseteq filed' /\ \A e \in filed' \ filed : ~TrackExists(e[1])
                /\ \A b \in Ids : AlbumExists(b) => albums'[b] = albums[b]
                /\ \A a \in Ids : ArtistExists(a) => artists'[a] = artists[a]]_vars

\* What a deletion, filing, upload or change of a track reports done is so when it
\* answers, whatever other requests did between its steps.  Of a new artist or
\* album that is so if it was answered by the statement that made it; when one has
\* been changed and is read again, others may have changed it since.
DoneIsTrue(q) ==
    CASE q.op = "createArtist" -> ~q.cover => artists[q.artist] = q.name
      [] q.op = "createAlbum" -> ~q.cover => albums[q.album] = [name |-> q.name, artist |-> q.artist]
      [] q.op = "updateArtist" -> ArtistExists(q.artist)
      [] q.op = "deleteArtist" ->
            /\ ~ArtistExists(q.artist)
            /\ \A i \in Ids : albums[i].artist # q.artist /\ tracks[i].artist # q.artist
      [] q.op = "deleteAlbum" -> ~AlbumExists(q.album)
      [] q.op = "putTrack" -> <<q.track, q.album>> \in filed
      [] q.op = "takeTrack" -> <<q.track, q.album>> \notin filed
      [] q.op = "uploadTrack" -> TrackExists(q.track)
      [] q.op = "deleteTrack" ->
            /\ ~TrackExists(q.track) /\ q.track \notin listed
            /\ q.track \in files => [kind |-> "track", id |-> q.track] \in strayed
      [] q.op = "updateTrack" ->
            /\ AlbumsOf(q.track) = {q.album}
            /\ tracks[q.track].name = q.name /\ tracks[q.track].artist = q.artist
            /\ tracks[q.track].global = q.global
      [] q.op = "uploadImage" -> TheOwner(q) \in strayed \/ NameOf(q.kind, OwnerId(q)) = q.key.name
      [] q.op = "deleteImage" -> TheOwner(q) \in strayed \/ ImagesOf(TheOwner(q)) = {}
      [] OTHER -> TRUE

\* A step that refuses a request changes nothing: what a transaction has written
\* before the statement that finds a conflict is undone.  (Earlier steps have changed
\* something if the artist or album that was changed is gone when it is read again,
\* or the track whose files were removed is gone, or in no album, by then.)
AnswersAreTrue ==
    [][/\ reply'.status \in {200, 201, 202} => DoneIsTrue(reply.request)'
       /\ reply'.status \in 400..499 =>
             UNCHANGED <<artists, albums, tracks, filed, listed, files, images>>]_vars

\* Lists, metadata and search show only tracks that were in an album and open to
\* the user, each at some time since the request began; and a list leaves out, or
\* metadata refuses, no track that was so all the time, though they are put
\* together from a statement for the rows and others for albums or access.  What
\* the first statement answers is of one state.
ReadsAreTrue ==
    [][LET q == reply'.request
           shown == IF q.op = "getTrackMeta" THEN {q.track} ELSE q.found
       IN
       \A r \in Requests : req'[r] # req[r] /\ q.op \in ReadOps =>
          /\ reply'.status = 200 => shown \subseteq seen[r].filed \intersect seen[r].open
          /\ q.op = "getTracks" /\ reply'.status = 200 => steady[r] \subseteq q.found
          /\ q.op = "getTrackMeta" /\ reply'.status \in {403, 404} => q.track \notin steady[r]]_vars

================================================================================
