-------------------------------- MODULE Playlists --------------------------------
(***************************************************************************)
(* Playlists: their rows, the tracks in them, the users they are shared    *)
(* with and their covers, as PlaylistService and ArtworkManager handle     *)
(* them.                                                                   *)
(*                                                                         *)
(* A request reads the playlist, then the permission of its user, and acts *)
(* in later statements; the statements and storage calls of other requests *)
(* come in between.  Each may fail, or take effect with its reply lost.    *)
(*                                                                         *)
(* Ids of users and of playlists are numbers: two calls of the service     *)
(* take one for the other.                                                 *)
(***************************************************************************)
EXTENDS Naturals, FiniteSets

CONSTANTS
    Requests,     \* requests that may be served at once
    NumUsers,     \* users 1, 2, ...
    Names,        \* names of playlists
    Tracks,
    UploadedBy,   \* the user who uploaded a track; 0: everyone can access it
    Audiences,    \* sets of users that shares name; 0: a user who does not exist
    MaxRequests,  \* bound: requests that begin
    MaxFaults     \* bound: statements and storage calls that fail

Unnamed == "unnamed"
NoTrack == "no track"

ASSUME ConstantsAssumption ==
    /\ NumUsers \in Nat \ {0}
    /\ Unnamed \notin Names
    /\ NoTrack \notin Tracks
    /\ UploadedBy \in [Tracks -> 0..NumUsers]
    /\ Audiences \subseteq SUBSET (0..NumUsers)
    /\ MaxRequests \in Nat
    /\ MaxFaults \in Nat

Users == 1..NumUsers
\* A request takes one id of the sequence at most; the first is given out.
Ids == 1..(MaxRequests + 1)
Numbers == 0..(NumUsers + MaxRequests + 1)

Row == [owner : Users, name : Names, public : BOOLEAN]
NoRow == [owner |-> 0, name |-> Unnamed, public |-> FALSE]

VARIABLES
    playlists,  \* playlists[p]: the row with id p, NoRow before and after it
    created,    \* ids given out
    entries,    \* track_playlist: pairs of a playlist and a track
    shares,     \* playlist_share_info: playlist, user, may write
    images,     \* keys of the playlists' images: id and name
    req,        \* req[r]: the request, the step it has reached, what it has read
    reply,      \* the request that the last step answered, and its status
    begun,      \* requests begun, for the bound
    faults,     \* faults left to happen
    \* history
    allowed,    \* allowed[r]: what r needs and its user has had at some time since r began
    strayed     \* playlists renamed or deleted while a request held a key of theirs

data == <<playlists, created, entries, shares, images>>
vars == <<data, req, reply, begun, faults, allowed, strayed>>

Shares == [playlist : Ids, user : Users, write : BOOLEAN]
Key == [id : Ids, name : Names]
NoKey == [id |-> 0, name |-> Unnamed]

Ops == {"none", "create", "update", "delete", "get", "list", "addTrack", "ensureTrack",
        "deleteTrack", "share", "revoke", "uploadCover", "deleteCover", "getCover"}
Places == {"idle", "check", "permission", "access", "write", "load", "image", "deleteRow",
           "row", "users", "tracks", "public", "shared"}

Request ==
    [op : Ops, at : Places, user : 0..NumUsers, id : Numbers, name : Names \union {Unnamed},
     public : BOOLEAN, track : Tracks \union {NoTrack}, with : SUBSET (0..NumUsers),
     write : BOOLEAN, cover : BOOLEAN, key : Key \union {NoKey},
     owned : SUBSET Ids, global : SUBSET Ids, shared : SUBSET Ids]
Idle ==
    [op |-> "none", at |-> "idle", user |-> 0, id |-> 0, name |-> Unnamed,
     public |-> FALSE, track |-> NoTrack, with |-> {}, write |-> FALSE, cover |-> FALSE,
     key |-> NoKey, owned |-> {}, global |-> {}, shared |-> {}]
NoReply == [request |-> Idle, status |-> 0]

\* A right on the playlist that the request is about, and on its track.
Rights == {"playlist", "track"}

TypeOK ==
    /\ playlists \in [Ids -> Row \union {NoRow}]
    /\ created \in Ids \union {0}
    /\ entries \subseteq Ids \X Tracks
    /\ shares \subseteq Shares
    /\ images \subseteq Key
    /\ req \in [Requests -> Request]
    /\ reply \in [request : Request, status : Nat]
    /\ begun \in 0..MaxRequests
    /\ faults \in 0..MaxFaults
    /\ allowed \in [Requests -> SUBSET Rights]
    /\ strayed \subseteq Ids

\* No playlist yet, or one that has a cover and the tracks its owner uploaded.
Founding == {NoRow} \union [owner : Users, name : Names, public : {FALSE}]

Init ==
    /\ \E row \in Founding :
          /\ playlists = [p \in Ids |-> IF p = 1 THEN row ELSE NoRow]
          /\ created = IF row = NoRow THEN 0 ELSE 1
          /\ images = {[id |-> 1, name |-> row.name]} \intersect Key
          /\ entries = {1} \X {t \in Tracks : row # NoRow /\ UploadedBy[t] = row.owner}
    /\ shares = {}
    /\ req = [r \in Requests |-> Idle]
    /\ reply = NoReply
    /\ begun = 0
    /\ faults = MaxFaults
    /\ allowed = [r \in Requests |-> {}]
    /\ strayed = {}

Fault == faults > 0 /\ faults' = faults - 1
NoFault == UNCHANGED faults

-------------------------------------------------------------------------------
(* The queries.                                                            *)

GetPlaylist(p) == IF p \in Ids THEN playlists[p] ELSE NoRow
Exists(p) == GetPlaylist(p) # NoRow

SharedWith(p) == {s.user : s \in {x \in shares : x.playlist = p}}

UserCanReadPlaylist(u, p) ==
    Exists(p) /\ (playlists[p].owner = u \/ playlists[p].public \/ u \in SharedWith(p))
UserCanWritePlaylist(u, p) ==
    Exists(p) /\ (playlists[p].owner = u \/ [playlist |-> p, user |-> u, write |-> TRUE] \in shares)

CanUserAccessTrack(u, t) ==
    \/ UploadedBy[t] \in {0, u}
    \/ \E p \in Ids : <<p, t>> \in entries /\ UserCanReadPlaylist(u, p)

GetUserOwnedPlaylists(u) == {p \in Ids : Exists(p) /\ playlists[p].owner = u}
GetPublicPlaylists(u) == {p \in Ids : Exists(p) /\ playlists[p].public /\ playlists[p].owner # u}
GetSharedPlaylists(u) == {p \in Ids : u \in SharedWith(p)}

\* UNIQUE (owner_id, name)
NameTaken(owner, name, except) ==
    \E p \in Ids \ except : playlists[p].owner = owner /\ playlists[p].name = name

-------------------------------------------------------------------------------
(* The steps of a request and its answer.                                  *)

At(r, place) == req[r].at = place
Go(r, q) == req' = [req EXCEPT ![r] = q] /\ reply' = NoReply

\* What the handlers make of the service's errors.
CreatePlaylistStatus(err) == CASE err = "ok" -> 201 [] err = "exists" -> 409 [] OTHER -> 500
UpdatePlaylistStatus(err) ==
    CASE err = "ok" -> 200 [] err = "unauthorized" -> 403 [] err = "notfound" -> 404 [] OTHER -> 500
DeletePlaylistStatus(err) == IF err = "ok" THEN 200 ELSE 500
GetPlaylistStatus(err) ==
    CASE err = "ok" -> 200 [] err = "notfound" -> 404 [] err = "unauthorized" -> 403 [] OTHER -> 500
GetPlaylistsStatus(err) == IF err = "ok" THEN 200 ELSE 500
AddTrackToPlaylistStatus(err) ==
    CASE err = "ok" -> 200 [] err = "exists" -> 409 [] err = "notfound" -> 404
      [] err = "unauthorized" -> 403 [] OTHER -> 500
PutTrackToPlaylistStatus(err) ==
    CASE err = "ok" -> 200 [] err = "notfound" -> 404 [] err = "unauthorized" -> 403 [] OTHER -> 500
DeleteTrackFromPlaylistStatus(err) ==
    CASE err = "ok" -> 200 [] err = "notfound" -> 404 [] err = "unauthorized" -> 403 [] OTHER -> 500
SharePlaylistStatus(err) ==
    CASE err = "ok" -> 200 [] err = "unauthorized" -> 403 [] err = "exists" -> 409 [] OTHER -> 500
RevokePlaylistStatus(err) ==
    CASE err = "ok" -> 200 [] err = "unauthorized" -> 403 [] err = "notfound" -> 404 [] OTHER -> 500
UploadPlaylistCoverStatus(err) ==
    CASE err = "ok" -> 201 [] err = "notfound" -> 404 [] err = "badparams" -> 400
      [] err = "unauthorized" -> 403 [] OTHER -> 500
DeletePlaylistCoverStatus(err) == IF err = "ok" THEN 200 ELSE 500
GetPlaylistCoverStatus(err) == CASE err = "ok" -> 200 [] err = "notfound" -> 404 [] OTHER -> 500

Status(op, err) ==
    CASE op = "create" -> CreatePlaylistStatus(err)
      [] op = "update" -> UpdatePlaylistStatus(err)
      [] op = "delete" -> DeletePlaylistStatus(err)
      [] op = "get" -> GetPlaylistStatus(err)
      [] op = "list" -> GetPlaylistsStatus(err)
      [] op = "addTrack" -> AddTrackToPlaylistStatus(err)
      [] op = "ensureTrack" -> PutTrackToPlaylistStatus(err)
      [] op = "deleteTrack" -> DeleteTrackFromPlaylistStatus(err)
      [] op = "share" -> SharePlaylistStatus(err)
      [] op = "revoke" -> RevokePlaylistStatus(err)
      [] op = "uploadCover" -> UploadPlaylistCoverStatus(err)
      [] op = "deleteCover" -> DeletePlaylistCoverStatus(err)
      [] op = "getCover" -> GetPlaylistCoverStatus(err)

\* A playlist that was created is answered as such whatever becomes of its cover.
Answer(r, q, err) ==
    /\ req' = [req EXCEPT ![r] = Idle]
    /\ reply' = [request |-> q,
                 status |-> Status(q.op, IF q.op = "create" /\ q.id # 0 THEN "ok" ELSE err)]

Fails(r, q) == Fault /\ Answer(r, q, "db")

-------------------------------------------------------------------------------
(* The permission checks.                                                  *)

\* Create calls UploadCover, and DeletePlaylistCover calls DeleteCover, with the
\* ids of user and playlist in each other's place.
Swapped(op) == op \in {"create", "deleteCover"}
CheckedUser(q) == IF Swapped(q.op) THEN q.id ELSE q.user
CheckedPlaylist(q) == IF Swapped(q.op) THEN q.user ELSE q.id

OwnerOps == {"delete", "share", "revoke"}
ReadOps == {"get"}

AfterCheck(op) ==
    CASE op \in {"addTrack", "ensureTrack"} -> "access"
      [] op \in {"update", "deleteTrack", "share", "revoke"} -> "write"
      [] op \in {"delete", "create", "uploadCover", "deleteCover"} -> "load"
      [] op = "get" -> "row"

\* requireToBeOwner and the first half of the other two checks.  With q, the
\* request has yet to begin or has come to its check.
CheckOwner(r, q) ==
    LET p == CheckedPlaylist(q)
        owns == Exists(p) /\ playlists[p].owner = CheckedUser(q)
    IN
    /\ \/ ~Exists(p) /\ Answer(r, q, "notfound") /\ NoFault
       \/ owns /\ Go(r, [q EXCEPT !.at = AfterCheck(q.op)]) /\ NoFault
       \/ /\ Exists(p) /\ ~owns /\ q.op \in OwnerOps
          /\ Answer(r, q, "unauthorized")
          /\ NoFault
       \/ /\ Exists(p) /\ ~owns /\ q.op \notin OwnerOps
          /\ Go(r, [q EXCEPT !.at = "permission"])
          /\ NoFault
       \/ Fails(r, q)
    /\ UNCHANGED <<data, strayed>>

\* Mutant of CheckPermission: a share that is only for reading will do.
CheckPermissionToRead(r) ==
    LET q == req[r]
        can == UserCanReadPlaylist(CheckedUser(q), CheckedPlaylist(q))
    IN
    /\ At(r, "permission")
    /\ \/ can /\ Go(r, [q EXCEPT !.at = AfterCheck(q.op)]) /\ NoFault
       \/ ~can /\ Answer(r, q, "unauthorized") /\ NoFault
       \/ Fails(r, q)
    /\ UNCHANGED <<data, strayed>>

\* checkUserHasWritePermissions, checkUserHasReadPermissions for a user who is
\* not the owner.
CheckPermission(r) ==
    LET q == req[r]
        u == CheckedUser(q)
        p == CheckedPlaylist(q)
        can == IF q.op \in ReadOps THEN UserCanReadPlaylist(u, p) ELSE UserCanWritePlaylist(u, p)
    IN
    /\ At(r, "permission")
    /\ \/ can /\ Go(r, [q EXCEPT !.at = AfterCheck(q.op)]) /\ NoFault
       \/ ~can /\ Answer(r, q, "unauthorized") /\ NoFault
       \/ Fails(r, q)
    /\ UNCHANGED <<data, strayed>>

CheckAccess(r) ==
    LET q == req[r]
        can == CanUserAccessTrack(q.user, q.track)
    IN
    /\ At(r, "access")
    /\ \/ can /\ Go(r, [q EXCEPT !.at = "write"]) /\ NoFault
       \/ ~can /\ Answer(r, q, "unauthorized") /\ NoFault
       \/ Fails(r, q)
    /\ UNCHANGED <<data, strayed>>

-------------------------------------------------------------------------------
(* The statements that write.  Done: the statement takes effect and is     *)
(* answered, or its reply is lost.                                         *)

Done(r, q) == (Answer(r, q, "ok") /\ NoFault) \/ Fails(r, q)

\* The sequence moves on also when the INSERT fails.
CreatePlaylist(r, q) ==
    LET p == created + 1 IN
    /\ \/ /\ NameTaken(q.user, q.name, {})
          /\ created' = p
          /\ Answer(r, q, "exists")
          /\ NoFault
          /\ UNCHANGED playlists
       \/ /\ ~NameTaken(q.user, q.name, {})
          /\ created' = p
          /\ playlists' = [playlists EXCEPT
                ![p] = [owner |-> q.user, name |-> q.name, public |-> q.public]]
          /\ \/ ~q.cover /\ Answer(r, q, "ok") /\ NoFault
             \/ q.cover /\ Go(r, [q EXCEPT !.at = "check", !.id = p]) /\ NoFault
             \/ Fails(r, q)
       \/ Fails(r, q) /\ UNCHANGED <<playlists, created>>
    /\ UNCHANGED <<entries, shares, images, strayed>>

CheckNewCover(r) == At(r, "check") /\ CheckOwner(r, req[r])

\* Requests that hold a key of playlist p's image, or have removed the image of
\* the row that they are about to delete.
Holders(p) == {r \in Requests : At(r, "image") /\ req[r].key.id = p}
Deleters(p) == {r \in Requests : At(r, "deleteRow") /\ req[r].id = p}
CoverOf(p) == {k \in images : k.id = p}

\* Mutant of UpdatePlaylist: a row is made where there is none.
UpsertPlaylist(r) ==
    LET q == req[r]
        p == q.id
    IN
    /\ At(r, "write") /\ q.op = "update"
    /\ \/ /\ playlists' = [playlists EXCEPT ![p].name = q.name, ![p].public = q.public]
          /\ strayed' = IF q.name # playlists[p].name /\ CoverOf(p) \union Holders(p) # {}
                        THEN strayed \union {p} ELSE strayed
          /\ Done(r, q)
       \/ Fails(r, q) /\ UNCHANGED <<playlists, strayed>>
    /\ UNCHANGED <<created, entries, shares, images>>

UpdatePlaylist(r) ==
    LET q == req[r]
        p == q.id
    IN
    /\ At(r, "write") /\ q.op = "update"
    /\ \/ ~Exists(p) /\ Answer(r, q, "notfound") /\ NoFault /\ UNCHANGED <<playlists, strayed>>
       \/ /\ Exists(p) /\ NameTaken(playlists[p].owner, q.name, {p})
          /\ Answer(r, q, "exists")
          /\ NoFault
          /\ UNCHANGED <<playlists, strayed>>
       \/ /\ Exists(p) /\ ~NameTaken(playlists[p].owner, q.name, {p})
          /\ playlists' = [playlists EXCEPT ![p].name = q.name, ![p].public = q.public]
          /\ strayed' = IF q.name # playlists[p].name /\ CoverOf(p) \union Holders(p) # {}
                        THEN strayed \union {p} ELSE strayed
          /\ Done(r, q)
       \/ Fails(r, q) /\ UNCHANGED <<playlists, strayed>>
    /\ UNCHANGED <<created, entries, shares, images>>

\* Mutant of AddTrackToPlaylist: a conflict on any key is taken for the track
\* being there.
AddTrackToPlaylistAnyway(r) ==
    LET q == req[r]
        entry == <<q.id, q.track>>
    IN
    /\ At(r, "write") /\ q.op \in {"addTrack", "ensureTrack"}
    /\ \/ ~Exists(q.id) /\ Answer(r, q, "ok") /\ NoFault /\ UNCHANGED entries
       \/ /\ Exists(q.id)
          /\ entries' = entries \union {entry}
          /\ Done(r, q)
       \/ Fails(r, q) /\ UNCHANGED entries
    /\ UNCHANGED <<playlists, created, shares, images, strayed>>

\* The foreign key fails once the playlist is deleted.
AddTrackToPlaylist(r) ==
    LET q == req[r]
        entry == <<q.id, q.track>>
    IN
    /\ At(r, "write") /\ q.op \in {"addTrack", "ensureTrack"}
    /\ \/ ~Exists(q.id) /\ Answer(r, q, "db") /\ NoFault /\ UNCHANGED entries
       \/ /\ Exists(q.id) /\ entry \in entries
          /\ Answer(r, q, IF q.op = "ensureTrack" THEN "ok" ELSE "exists")
          /\ NoFault
          /\ UNCHANGED entries
       \/ /\ Exists(q.id) /\ entry \notin entries
          /\ entries' = entries \union {entry}
          /\ Done(r, q)
       \/ Fails(r, q) /\ UNCHANGED entries
    /\ UNCHANGED <<playlists, created, shares, images, strayed>>

DeleteTrackFromPlaylist(r) ==
    LET q == req[r] IN
    /\ At(r, "write") /\ q.op = "deleteTrack"
    /\ \/ entries' = entries \ {<<q.id, q.track>>} /\ Done(r, q)
       \/ Fails(r, q) /\ UNCHANGED entries
    /\ UNCHANGED <<playlists, created, shares, images, strayed>>

\* One transaction for all the users.  A user who has a share conflicts with
\* it, whatever it permits; number 0 stands for a user who does not exist.
SharePlaylistWithMany(r) ==
    LET q == req[r]
        conflict == q.with \intersect SharedWith(q.id) # {}
        dangling == ~Exists(q.id) \/ 0 \in q.with
    IN
    /\ At(r, "write") /\ q.op = "share"
    /\ \/ conflict /\ Answer(r, q, "exists") /\ NoFault /\ UNCHANGED shares
       \/ dangling /\ Answer(r, q, "db") /\ NoFault /\ UNCHANGED shares
       \/ /\ ~conflict /\ ~dangling
          /\ shares' = shares \union
                [playlist : {q.id}, user : q.with, write : {q.write}]
          /\ Done(r, q)
       \/ Fails(r, q) /\ UNCHANGED shares
    /\ UNCHANGED <<playlists, created, entries, images, strayed>>

RevokePlaylistAccess(r) ==
    LET q == req[r] IN
    /\ At(r, "write") /\ q.op = "revoke"
    /\ \/ /\ shares' = {s \in shares : ~(s.playlist = q.id /\ s.user \in q.with)}
          /\ Done(r, q)
       \/ Fails(r, q) /\ UNCHANGED shares
    /\ UNCHANGED <<playlists, created, entries, images, strayed>>

\* The entries and shares go with the row (ON DELETE CASCADE).
DeletePlaylist(r) ==
    LET q == req[r]
        p == q.id
    IN
    /\ At(r, "deleteRow")
    /\ \/ /\ playlists' = [playlists EXCEPT ![p] = NoRow]
          /\ entries' = {e \in entries : e[1] # p}
          /\ shares' = {s \in shares : s.playlist # p}
          /\ strayed' = IF Holders(p) # {} THEN strayed \union {p} ELSE strayed
          /\ Done(r, q)
       \/ Fails(r, q) /\ UNCHANGED <<playlists, entries, shares, strayed>>
    /\ UNCHANGED <<created, images>>

-------------------------------------------------------------------------------
(* Covers.                                                                 *)

\* Mutant of LoadArtworkOwner: the row is deleted before its name is read.
LoadArtworkOwnerLate(r, q) ==
    LET p == CheckedPlaylist(q) IN
    /\ \/ q.op = "delete" /\ Go(r, [q EXCEPT !.at = "deleteRow"]) /\ NoFault
       \/ ~Exists(p) /\ q.op # "delete" /\ Answer(r, q, "notfound") /\ NoFault
       \/ /\ Exists(p) /\ q.op # "delete"
          /\ Go(r, [q EXCEPT !.at = "image", !.key = [id |-> p, name |-> playlists[p].name]])
          /\ NoFault
       \/ Fails(r, q)
    /\ UNCHANGED <<data, strayed>>

\* The key is made of the name that is read here.  A playlist that is not there
\* any more is deleted all the same.
LoadArtworkOwner(r, q) ==
    LET p == CheckedPlaylist(q) IN
    /\ \/ /\ ~Exists(p)
          /\ IF q.op = "delete" THEN Go(r, [q EXCEPT !.at = "deleteRow"])
                                ELSE Answer(r, q, "notfound")
          /\ NoFault
       \/ /\ Exists(p)
          /\ Go(r, [q EXCEPT !.at = "image", !.key = [id |-> p, name |-> playlists[p].name]])
          /\ NoFault
       \/ Fails(r, q)
    /\ UNCHANGED <<data, strayed>>

LoadForImage(r) == At(r, "load") /\ LoadArtworkOwner(r, req[r])

\* An image that cannot be converted is refused before it is stored.
PutImage(r) ==
    LET q == req[r] IN
    /\ At(r, "image") /\ q.op \in {"create", "uploadCover"}
    /\ \/ /\ images' = images \union {q.key}
          /\ strayed' = IF Deleters(q.key.id) # {} THEN strayed \union {q.key.id} ELSE strayed
          /\ Done(r, q)
       \/ Answer(r, q, "badparams") /\ NoFault /\ UNCHANGED <<images, strayed>>
       \/ Fails(r, q) /\ UNCHANGED <<images, strayed>>
    /\ UNCHANGED <<playlists, created, entries, shares>>

RemoveImage(r) ==
    LET q == req[r] IN
    /\ At(r, "image") /\ q.op \in {"delete", "deleteCover"}
    /\ \/ /\ images' = images \ {q.key}
          /\ \/ q.op = "delete" /\ Go(r, [q EXCEPT !.at = "deleteRow"]) /\ NoFault
             \/ q.op = "deleteCover" /\ Answer(r, q, "ok") /\ NoFault
             \/ Fails(r, q)
       \/ Fails(r, q) /\ UNCHANGED images
    /\ UNCHANGED <<playlists, created, entries, shares, strayed>>

GetImage(r) ==
    LET q == req[r] IN
    /\ At(r, "image") /\ q.op = "getCover"
    /\ \/ Answer(r, q, IF q.key \in images THEN "ok" ELSE "notfound") /\ NoFault
       \/ Fails(r, q)
    /\ UNCHANGED <<data, strayed>>

-------------------------------------------------------------------------------
(* Reading.                                                                *)

\* Get reads the row again, then the users it is shared with, then the tracks.
ReadPlaylist(r) ==
    LET q == req[r] IN
    /\ \/ /\ At(r, "row")
          /\ IF Exists(q.id) THEN Go(r, [q EXCEPT !.at = "users"]) ELSE Answer(r, q, "notfound")
          /\ NoFault
       \/ At(r, "users") /\ Go(r, [q EXCEPT !.at = "tracks"]) /\ NoFault
       \/ At(r, "tracks") /\ Answer(r, q, "ok") /\ NoFault
       \/ q.at \in {"row", "users", "tracks"} /\ Fails(r, q)
    /\ UNCHANGED <<data, strayed>>

GetUserPlaylists(r, q) ==
    /\ \/ Go(r, [q EXCEPT !.at = "public", !.owned = GetUserOwnedPlaylists(q.user)]) /\ NoFault
       \/ Fails(r, q)
    /\ UNCHANGED <<data, strayed>>

ReadPublic(r) ==
    LET q == req[r] IN
    /\ At(r, "public")
    /\ \/ Go(r, [q EXCEPT !.at = "shared", !.global = GetPublicPlaylists(q.user)]) /\ NoFault
       \/ Fails(r, q)
    /\ UNCHANGED <<data, strayed>>

\* Mutant of ReadShared: the public playlists are listed as they are.
ReadSharedAndAll(r) ==
    LET q == req[r] IN
    /\ At(r, "shared")
    /\ \/ Answer(r, [q EXCEPT !.shared = GetSharedPlaylists(q.user)], "ok") /\ NoFault
       \/ Fails(r, q)
    /\ UNCHANGED <<data, strayed>>

\* A public playlist that is shared with the user is listed as shared.
ReadShared(r) ==
    LET q == req[r]
        s == GetSharedPlaylists(q.user)
    IN
    /\ At(r, "shared")
    /\ \/ Answer(r, [q EXCEPT !.shared = s, !.global = @ \ s], "ok") /\ NoFault
       \/ Fails(r, q)
    /\ UNCHANGED <<data, strayed>>

-------------------------------------------------------------------------------
(* The specification.                                                      *)

\* What a client asks.
Checked ==
    [op : {"update"}, id : Ids, name : Names, public : BOOLEAN]
        \union [op : {"addTrack", "ensureTrack", "deleteTrack"}, id : Ids, track : Tracks]
        \union [op : {"share"}, id : Ids, with : Audiences, write : BOOLEAN]
        \union [op : {"revoke"}, id : Ids, with : {{u} : u \in Users}]
        \union [op : {"delete", "get", "uploadCover", "deleteCover"}, id : Ids]

Asked(user, ask) == [f \in DOMAIN Idle |->
    IF f = "user" THEN user ELSE IF f \in DOMAIN ask THEN ask[f] ELSE Idle[f]]

Begins(r) ==
    /\ begun < MaxRequests
    /\ begun' = begun + 1
    /\ req[r] = Idle
    /\ \E u \in Users :
          \/ \E ask \in Checked : ask.id <= created /\ CheckOwner(r, Asked(u, ask))
          \/ \E ask \in [op : {"create"}, name : Names, public : BOOLEAN, cover : BOOLEAN] :
                CreatePlaylist(r, Asked(u, ask))
          \/ GetUserPlaylists(r, Asked(u, [op |-> "list"]))
          \/ \E p \in 1..created : LoadArtworkOwner(r, Asked(u, [op |-> "getCover", id |-> p]))

Continues(r) ==
    /\ UNCHANGED begun
    /\ \/ CheckNewCover(r) \/ CheckPermission(r) \/ CheckAccess(r)
       \/ UpdatePlaylist(r) \/ AddTrackToPlaylist(r) \/ DeleteTrackFromPlaylist(r)
       \/ SharePlaylistWithMany(r) \/ RevokePlaylistAccess(r) \/ DeletePlaylist(r)
       \/ LoadForImage(r) \/ PutImage(r) \/ RemoveImage(r) \/ GetImage(r)
       \/ ReadPlaylist(r) \/ ReadPublic(r) \/ ReadShared(r)

\* What a request needs its user to be able to do, and what the user can do now.
Needed(op) == IF op \in {"addTrack", "ensureTrack"} THEN Rights ELSE {"playlist"}
MayAct(q) ==
    CASE q.op \in OwnerOps -> GetPlaylist(q.id).owner = q.user
      [] q.op \in ReadOps -> UserCanReadPlaylist(q.user, q.id)
      [] OTHER -> UserCanWritePlaylist(q.user, q.id)
Held(q) ==
    (IF MayAct(q) THEN {"playlist"} ELSE {}) \union
    (IF q.track # NoTrack /\ CanUserAccessTrack(q.user, q.track) THEN {"track"} ELSE {})

RecordRights ==
    allowed' = [r \in Requests |->
        IF req'[r] = Idle THEN {} ELSE allowed[r] \union Held(req[r])']

Next ==
    /\ \E r \in Requests : Begins(r) \/ Continues(r)
    /\ RecordRights

Spec == Init /\ [][Next]_vars

-------------------------------------------------------------------------------
(* Properties.                                                             *)

Content(p) ==
    <<playlists[p], {e \in entries : e[1] = p}, {s \in shares : s.playlist = p}>>

\* A playlist's row, tracks and shares change, and Get shows it, only by a request
\* about it whose user has had the right to that at some time since it began: the
\* owner for sharing and deleting, a writer for the rest, who for a track to be
\* added has had access to it.  So after a revocation no request that begins
\* changes anything, though one that was under way may.  A cover changes by such
\* requests too, or else by one of the user with the playlist's number: creating
\* a playlist with a cover and deleting a cover take one id for the other.
OnlyPermittedChanges ==
    [][\A r \in Requests : req'[r] # req[r] =>
          LET q == req[r]
              permitted == Needed(q.op) \subseteq allowed[r]
          IN
          /\ \A p \in Ids :
                /\ Exists(p) /\ Content(p)' # Content(p) => q.id = p /\ permitted
                /\ CoverOf(p)' # CoverOf(p) =>
                      (q.id = p /\ permitted) \/ (Swapped(q.op) /\ q.user = p)
          /\ reply'.status = 200 /\ q.op = "get" => permitted]_vars

\* An image in the bucket is the cover that its playlist shows: none is left
\* behind under a key that nothing reads, but for playlists that were renamed
\* with a cover or changed while a cover of theirs was being stored (the key
\* contains the name, ArtworkOwner.Key).
ImagesAreShown ==
    \A k \in images :
        k.id \in strayed \/ (Exists(k.id) /\ playlists[k.id].name = k.name)

\* What a request reports done is so when it answers, whatever other requests did
\* between its steps, and whatever it took for granted that did not fail.
DoneIsTrue(q) ==
    CASE q.op = "update" -> playlists[q.id].name = q.name /\ playlists[q.id].public = q.public
      [] q.op \in {"addTrack", "ensureTrack"} -> <<q.id, q.track>> \in entries
      [] q.op = "deleteTrack" -> <<q.id, q.track>> \notin entries
      [] q.op = "share" -> [playlist : {q.id}, user : q.with, write : {q.write}] \subseteq shares
      [] q.op = "revoke" -> q.with \intersect SharedWith(q.id) = {}
      [] q.op = "delete" -> ~Exists(q.id)
      [] q.op = "uploadCover" ->
            q.id \in strayed \/ [id |-> q.id, name |-> playlists[q.id].name] \in images
      [] OTHER -> TRUE
AnswersAreTrue == [][reply'.status \in {200, 201} => DoneIsTrue(reply.request)']_vars

\* A list names a playlist once, though it is put together from three statements,
\* unless its owner has shared it with himself (GetUserPlaylists).
ListedOnce ==
    [][reply'.status = 200 /\ reply'.request.op = "list" =>
          LET q == reply'.request IN
          /\ q.global \intersect (q.owned \union q.shared) = {}
          /\ \A p \in q.owned \intersect q.shared : q.user \in SharedWith(p)]_vars

===============================================================================
