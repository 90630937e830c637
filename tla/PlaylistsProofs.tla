---------------------------- MODULE PlaylistsProofs ----------------------------
(***************************************************************************)
(* Proofs about Playlists, for any number of users, tracks and requests    *)
(* served at once and every MaxRequests and MaxFaults.  Typed is the       *)
(* invariant that the others rest on; each section adds its own to it.     *)
(***************************************************************************)
EXTENDS Playlists, TLAPS

-------------------------------------------------------------------------------
(* What a request is at each step that it may reach.                       *)

TrackOps == {"addTrack", "ensureTrack", "deleteTrack"}
CheckedOps == {"update", "share", "revoke", "delete", "get", "uploadCover", "deleteCover"}
                  \union TrackOps
CoverOps == {"delete", "create", "uploadCover", "deleteCover"}

\* What a client asks about: a playlist, unless he creates one or asks for the list.
WellAsked(q) ==
    /\ q \in Request
    /\ q.op # "none" /\ q.user \in Users
    /\ q.op \notin {"create", "list"} => q.id \in Ids
    /\ q.op \in TrackOps => q.track \in Tracks
    /\ q.op \in {"create", "update"} => q.name \in Names

OpAt(op, at) ==
    \/ at = "check" /\ op = "create"
    \/ at = "permission" /\ op \in (CheckedOps \ OwnerOps) \union {"create"}
    \/ at = "access" /\ op \in {"addTrack", "ensureTrack"}
    \/ at = "write" /\ op \in {"update", "share", "revoke"} \union TrackOps
    \/ at = "load" /\ op \in CoverOps
    \/ at = "image" /\ op \in CoverOps \union {"getCover"}
    \/ at = "deleteRow" /\ op = "delete"
    \/ at \in {"row", "users", "tracks"} /\ op = "get"
    \/ at \in {"public", "shared"} /\ op = "list"

Underway(q) ==
    /\ WellAsked(q)
    /\ OpAt(q.op, q.at)
    /\ q.op = "create" => q.id \in Ids
    /\ q.at = "image" => q.key \in Key /\ q.key.id = CheckedPlaylist(q)

PlaceInv == \A r \in Requests : req[r] = Idle \/ Underway(req[r])

\* No request runs out of ids, and none is given out twice.
CountInv ==
    /\ created <= begun + 1
    /\ \A p \in Ids : playlists[p] # NoRow => p <= created

Typed == TypeOK /\ PlaceInv /\ CountInv

-------------------------------------------------------------------------------
(* Requests, and what one step makes of them.                              *)

To(q, at) == [q EXCEPT !.at = at]

\* What a client gives is taken, for the rest there is a default.
LEMMA AskedTypes ==
    ASSUME NEW u \in Users, NEW ask, DOMAIN ask \intersect {"at", "key", "owned", "global", "shared"} = {},
           "op" \in DOMAIN ask, ask.op \in Ops,
           "id" \in DOMAIN ask => ask.id \in Ids,
           "name" \in DOMAIN ask => ask.name \in Names,
           "public" \in DOMAIN ask => ask.public \in BOOLEAN,
           "track" \in DOMAIN ask => ask.track \in Tracks,
           "with" \in DOMAIN ask => ask.with \in SUBSET (0..NumUsers),
           "write" \in DOMAIN ask => ask.write \in BOOLEAN,
           "cover" \in DOMAIN ask => ask.cover \in BOOLEAN
    PROVE  LET q == Asked(u, ask) IN
           /\ q \in Request
           /\ q.user = u /\ q.op = ask.op /\ q.at = "idle" /\ q.key = NoKey
           /\ q.owned = {} /\ q.global = {} /\ q.shared = {}
           /\ "id" \in DOMAIN ask => q.id = ask.id
           /\ "id" \notin DOMAIN ask => q.id = 0
           /\ "track" \in DOMAIN ask => q.track = ask.track
           /\ "name" \in DOMAIN ask => q.name = ask.name
<1> DEFINE q == Asked(u, ask)
<1>1. DOMAIN Idle = {"op", "at", "user", "id", "name", "public", "track", "with", "write",
                     "cover", "key", "owned", "global", "shared"}
  BY DEF Idle
<1>2. q = [f \in DOMAIN Idle |->
             IF f = "user" THEN u ELSE IF f \in DOMAIN ask THEN ask[f] ELSE Idle[f]]
  BY DEF Asked
<1> HIDE DEF q
<1>3. /\ q.user = u /\ q.op = ask.op /\ q.at = "idle" /\ q.key = NoKey
      /\ q.owned = {} /\ q.global = {} /\ q.shared = {}
  BY <1>1, <1>2 DEF Idle
<1>4. /\ q.public \in BOOLEAN /\ q.write \in BOOLEAN /\ q.cover \in BOOLEAN
  <2>1. Idle.public \in BOOLEAN /\ Idle.write \in BOOLEAN /\ Idle.cover \in BOOLEAN
    BY DEF Idle
  <2>2. QED
    BY <1>1, <1>2, <2>1
<1>5. /\ q.op \in Ops /\ q.at \in Places /\ q.user \in 0..NumUsers /\ q.key \in Key \union {NoKey}
      /\ q.owned \in SUBSET Ids /\ q.global \in SUBSET Ids /\ q.shared \in SUBSET Ids
  BY <1>3, ConstantsAssumption DEF Places, Users
<1>6. /\ "id" \in DOMAIN ask => q.id = ask.id
      /\ "id" \notin DOMAIN ask => q.id = 0
      /\ "track" \in DOMAIN ask => q.track = ask.track
      /\ "name" \in DOMAIN ask => q.name = ask.name
      /\ q.track \in Tracks \union {NoTrack} /\ q.name \in Names \union {Unnamed}
      /\ q.with \in SUBSET (0..NumUsers)
  BY <1>1, <1>2 DEF Idle
<1>7. q.id \in Numbers
  BY <1>6, ConstantsAssumption DEF Ids, Numbers
<1>8. q = [op |-> q.op, at |-> q.at, user |-> q.user, id |-> q.id, name |-> q.name,
           public |-> q.public, track |-> q.track, with |-> q.with, write |-> q.write,
           cover |-> q.cover, key |-> q.key, owned |-> q.owned, global |-> q.global,
           shared |-> q.shared]
  BY <1>1, <1>2
<1>9. q \in Request
  <2>1. [op |-> q.op, at |-> q.at, user |-> q.user, id |-> q.id, name |-> q.name,
         public |-> q.public, track |-> q.track, with |-> q.with, write |-> q.write,
         cover |-> q.cover, key |-> q.key, owned |-> q.owned, global |-> q.global,
         shared |-> q.shared] \in Request
    BY ONLY <1>4, <1>5, <1>6, <1>7 DEF Request
  <2>2. QED
    BY ONLY <1>8, <2>1
<1>10. QED
  BY <1>3, <1>6, <1>9 DEF q

\* The types of the fields that a client leaves out.
LEMMA IdleTypes ==
    /\ Idle \in Request
    /\ Idle.op = "none" /\ Idle.at = "idle"
BY ConstantsAssumption DEF Idle, Request, Ops, Places, Numbers, NoKey

\* A request that begins with a permission check.
LEMMA CheckedAsk ==
    ASSUME NEW u \in Users, NEW ask \in Checked
    PROVE  /\ WellAsked(Asked(u, ask))
           /\ Asked(u, ask).user = u /\ Asked(u, ask).id = ask.id
           /\ Asked(u, ask).op = ask.op /\ ask.op \in CheckedOps /\ Asked(u, ask).at = "idle"
<1> DEFINE q == Asked(u, ask)
           given(f, S) == f \in DOMAIN ask => ask[f] \in S
<1>1. /\ ask.op \in CheckedOps /\ ask.id \in Ids /\ {"op", "id"} \subseteq DOMAIN ask
      /\ ask.op \in TrackOps => "track" \in DOMAIN ask
      /\ ask.op = "update" => "name" \in DOMAIN ask
      /\ given("name", Names) /\ given("public", BOOLEAN) /\ given("track", Tracks)
      /\ given("with", SUBSET (0..NumUsers)) /\ given("write", BOOLEAN)
      /\ DOMAIN ask \subseteq {"op", "id", "name", "public", "track", "with", "write"}
  <2>1. CASE ask \in [op : {"update"}, id : Ids, name : Names, public : BOOLEAN]
    <3>1. /\ DOMAIN ask = {"op", "id", "name", "public"} /\ ask.op = "update" /\ ask.id \in Ids
          /\ ask.name \in Names /\ ask.public \in BOOLEAN
      BY <2>1
    <3>2. QED
      BY <3>1 DEF CheckedOps, TrackOps
  <2>2. CASE ask \in [op : TrackOps, id : Ids, track : Tracks]
    <3>1. /\ DOMAIN ask = {"op", "id", "track"} /\ ask.op \in TrackOps /\ ask.id \in Ids
          /\ ask.track \in Tracks
      BY <2>2
    <3>2. QED
      BY <3>1 DEF CheckedOps, TrackOps
  <2>3. CASE ask \in [op : {"share"}, id : Ids, with : Audiences, write : BOOLEAN]
    <3>1. /\ DOMAIN ask = {"op", "id", "with", "write"} /\ ask.op = "share" /\ ask.id \in Ids
          /\ ask.with \in Audiences /\ ask.write \in BOOLEAN
      BY <2>3
    <3>2. QED
      BY <3>1, ConstantsAssumption DEF CheckedOps, TrackOps
  <2>4. CASE ask \in [op : {"revoke"}, id : Ids, with : {{v} : v \in Users}]
    <3>1. /\ DOMAIN ask = {"op", "id", "with"} /\ ask.op = "revoke" /\ ask.id \in Ids
          /\ ask.with \in {{v} : v \in Users}
      BY <2>4
    <3>2. ask.with \in SUBSET (0..NumUsers)
      BY <3>1, ConstantsAssumption DEF Users
    <3>3. QED
      BY <3>1, <3>2 DEF CheckedOps, TrackOps
  <2>5. CASE ask \in [op : {"delete", "get", "uploadCover", "deleteCover"}, id : Ids]
    <3>1. /\ DOMAIN ask = {"op", "id"} /\ ask.id \in Ids
          /\ ask.op \in {"delete", "get", "uploadCover", "deleteCover"}
      BY <2>5
    <3>2. QED
      BY <3>1 DEF CheckedOps, TrackOps
  <2>6. QED
    BY <2>1, <2>2, <2>3, <2>4, <2>5 DEF Checked, TrackOps
<1>2. /\ q \in Request /\ q.user = u /\ q.op = ask.op /\ q.id = ask.id /\ q.at = "idle"
      /\ q.op \in TrackOps => q.track = ask.track
      /\ q.op = "update" => q.name = ask.name
  <2>1. ask.op \in Ops
    BY <1>1 DEF CheckedOps, TrackOps, Ops
  <2>2. QED
    BY <1>1, <2>1, AskedTypes
<1>3. QED
  BY <1>1, <1>2 DEF WellAsked, CheckedOps, TrackOps

\* A client's request, and the check, statement or call that it begins with.
Opens(r, q) ==
    /\ WellAsked(q) /\ q.at = "idle"
    /\ \/ q.op \in CheckedOps /\ q.id <= created /\ CheckOwner(r, q)
       \/ q.op = "create" /\ q.id = 0 /\ CreatePlaylist(r, q)
       \/ q.op = "list" /\ GetUserPlaylists(r, q)
       \/ q.op = "getCover" /\ LoadArtworkOwner(r, q)

\* A request that begins opens with what a client asks.
LEMMA Opening ==
    ASSUME NEW r \in Requests, Begins(r), created \in Ids \union {0}
    PROVE  \E q : Opens(r, q)
<1>1. PICK u \in Users :
          \/ \E ask \in Checked : ask.id <= created /\ CheckOwner(r, Asked(u, ask))
          \/ \E ask \in [op : {"create"}, name : Names, public : BOOLEAN, cover : BOOLEAN] :
                CreatePlaylist(r, Asked(u, ask))
          \/ GetUserPlaylists(r, Asked(u, [op |-> "list"]))
          \/ \E p \in 1..created : LoadArtworkOwner(r, Asked(u, [op |-> "getCover", id |-> p]))
  BY DEF Begins
<1>2. ASSUME NEW ask \in Checked, ask.id <= created, CheckOwner(r, Asked(u, ask))
      PROVE  Opens(r, Asked(u, ask))
  BY <1>2, CheckedAsk DEF Opens
<1>3. ASSUME NEW ask \in [op : {"create"}, name : Names, public : BOOLEAN, cover : BOOLEAN],
             CreatePlaylist(r, Asked(u, ask))
      PROVE  Opens(r, Asked(u, ask))
  <2>1. /\ DOMAIN ask = {"op", "name", "public", "cover"} /\ ask.op = "create"
        /\ ask.name \in Names /\ ask.public \in BOOLEAN /\ ask.cover \in BOOLEAN
    BY <1>3
  <2>2. /\ Asked(u, ask) \in Request /\ Asked(u, ask).user = u /\ Asked(u, ask).op = "create"
        /\ Asked(u, ask).at = "idle" /\ Asked(u, ask).id = 0 /\ Asked(u, ask).name = ask.name
    BY <2>1, AskedTypes DEF Ops
  <2>3. QED
    BY <1>3, <2>1, <2>2 DEF Opens, WellAsked, TrackOps
<1>4. ASSUME GetUserPlaylists(r, Asked(u, [op |-> "list"]))
      PROVE  Opens(r, Asked(u, [op |-> "list"]))
  <2> DEFINE q == Asked(u, [op |-> "list"])
  <2>1. q \in Request /\ q.user = u /\ q.op = "list" /\ q.at = "idle"
    BY AskedTypes DEF Ops
  <2>2. QED
    BY <1>4, <2>1 DEF Opens, WellAsked, TrackOps
<1>5. ASSUME NEW p \in 1..created, LoadArtworkOwner(r, Asked(u, [op |-> "getCover", id |-> p]))
      PROVE  \E q : Opens(r, q)
  <2> DEFINE q == Asked(u, [op |-> "getCover", id |-> p])
  <2>1. p \in Ids
    BY ConstantsAssumption DEF Ids
  <2>2. q \in Request /\ q.user = u /\ q.op = "getCover" /\ q.at = "idle" /\ q.id = p
    BY <2>1, AskedTypes DEF Ops
  <2>3. QED
    BY <1>5, <2>1, <2>2 DEF Opens, WellAsked, TrackOps
<1>6. QED
  BY <1>1, <1>2, <1>3, <1>4, <1>5

\* A request that has got somewhere.
LEMMA Current ==
    ASSUME PlaceInv, NEW r \in Requests, req[r].at # "idle"
    PROVE  Underway(req[r])
BY IdleTypes DEF PlaceInv

\* Only its place changes.
LEMMA Moved ==
    ASSUME NEW q \in Request, NEW at \in Places
    PROVE  LET m == To(q, at) IN
           /\ m \in Request
           /\ m.at = at /\ m.op = q.op /\ m.user = q.user /\ m.id = q.id /\ m.name = q.name
           /\ m.track = q.track /\ m.with = q.with /\ m.key = q.key /\ m.owned = q.owned
           /\ m.global = q.global /\ m.shared = q.shared
BY DEF To, Request

\* It takes the key of an image.
LEMMA KeyTaken ==
    ASSUME NEW q \in Request, NEW k \in Key
    PROVE  LET m == [q EXCEPT !.at = "image", !.key = k] IN
           /\ m \in Request
           /\ m.at = "image" /\ m.op = q.op /\ m.user = q.user /\ m.id = q.id /\ m.name = q.name
           /\ m.track = q.track /\ m.key = k
BY DEF Request, Places

\* It takes the number of the playlist that it has created.
LEMMA NumberTaken ==
    ASSUME NEW q \in Request, NEW p \in Ids
    PROVE  LET m == [q EXCEPT !.at = "check", !.id = p] IN
           /\ m \in Request
           /\ m.at = "check" /\ m.op = q.op /\ m.user = q.user /\ m.id = p /\ m.name = q.name
           /\ m.track = q.track
<1>1. p \in Numbers
  BY ConstantsAssumption DEF Ids, Numbers
<1>2. QED
  BY <1>1 DEF Request, Places

\* It takes one of the three parts of a list.
LEMMA OwnedTaken ==
    ASSUME NEW q \in Request, NEW S \in SUBSET Ids
    PROVE  LET m == [q EXCEPT !.at = "public", !.owned = S] IN
           /\ m \in Request /\ m.at = "public" /\ m.op = q.op /\ m.user = q.user
           /\ m.id = q.id /\ m.track = q.track /\ m.owned = S
BY DEF Request, Places

\* The second part: the public playlists of others.
LEMMA GlobalTaken ==
    ASSUME NEW q \in Request, NEW S \in SUBSET Ids
    PROVE  LET m == [q EXCEPT !.at = "shared", !.global = S] IN
           /\ m \in Request /\ m.at = "shared" /\ m.op = q.op /\ m.user = q.user
           /\ m.id = q.id /\ m.track = q.track /\ m.owned = q.owned /\ m.global = S
BY DEF Request, Places

\* The third part: the shared ones, which are taken out of the public ones.
LEMMA SharedTaken ==
    ASSUME NEW q \in Request, NEW S \in SUBSET Ids
    PROVE  LET m == [q EXCEPT !.shared = S, !.global = @ \ S] IN
           /\ m \in Request /\ m.op = q.op /\ m.user = q.user /\ m.id = q.id
           /\ m.owned = q.owned /\ m.global = q.global \ S /\ m.shared = S
BY DEF Request, Places

\* A status is a number, and one of success only when there was no error.
LEMMA StatusType ==
    ASSUME NEW op \in Ops \ {"none"}, NEW err
    PROVE  /\ Status(op, err) \in Nat \ {0}
           /\ err # "ok" => Status(op, err) \notin {200, 201}
<1>1. CASE op \in {"create", "update", "delete", "get", "list"}
  BY <1>1 DEF Status, CreatePlaylistStatus, UpdatePlaylistStatus, DeletePlaylistStatus,
              GetPlaylistStatus, GetPlaylistsStatus
<1>2. CASE op \in {"addTrack", "ensureTrack", "deleteTrack"}
  BY <1>2 DEF Status, AddTrackToPlaylistStatus, PutTrackToPlaylistStatus,
              DeleteTrackFromPlaylistStatus
<1>3. CASE op \in {"share", "revoke", "uploadCover", "deleteCover", "getCover"}
  BY <1>3 DEF Status, SharePlaylistStatus, RevokePlaylistStatus, UploadPlaylistCoverStatus,
              DeletePlaylistCoverStatus, GetPlaylistCoverStatus
<1>4. QED
  BY <1>1, <1>2, <1>3 DEF Ops

-------------------------------------------------------------------------------
(* Where a step leads: to an answer, or to one of the steps of A.          *)

Follows(q, m) ==
    /\ Underway(m)
    /\ m.op = q.op /\ m.user = q.user /\ m.track = q.track
    /\ q.op # "create" => m.id = q.id

Leads(r, q, A) ==
    /\ reply' \in [request : Request, status : Nat]
    /\ \E m : /\ req' = [req EXCEPT ![r] = m]
              /\ m = Idle \/ (Follows(q, m) /\ m.at \in A)

\* An answer ends the request.
LEMMA AnswerLeads ==
    ASSUME NEW r, NEW q \in Request, q.op # "none", NEW err, NEW A, Answer(r, q, err)
    PROVE  Leads(r, q, A)
<1>1. q.op \in Ops \ {"none"}
  BY DEF Request
<1>2. Status(q.op, IF q.op = "create" /\ q.id # 0 THEN "ok" ELSE err) \in Nat
  BY <1>1, StatusType
<1>3. reply' \in [request : Request, status : Nat]
  BY <1>2 DEF Answer
<1>4. QED
  BY <1>3 DEF Answer, Leads

\* A request that goes on is at its next step.
LEMMA GoLeads ==
    ASSUME NEW r, NEW q, NEW A, NEW m, Go(r, m), Follows(q, m), m.at \in A
    PROVE  Leads(r, q, A)
<1>1. NoReply \in [request : Request, status : Nat]
  BY IdleTypes DEF NoReply
<1>2. QED
  BY <1>1 DEF Go, Leads

\* What is behind a request's check.
LEMMA BehindTheCheck ==
    ASSUME NEW op \in CheckedOps \union {"create"}
    PROVE  /\ AfterCheck(op) \in {"access", "write", "load", "row"}
           /\ OpAt(op, AfterCheck(op))
BY DEF CheckedOps, TrackOps, AfterCheck, OpAt, CoverOps

\* A request that only changes its place is still what was asked.
LEMMA MovedFollows ==
    ASSUME NEW q, WellAsked(q), q.op = "create" => q.id \in Ids,
           NEW at \in Places, OpAt(q.op, at), at = "image" => q.at = "image" /\ Underway(q)
    PROVE  Follows(q, To(q, at)) /\ To(q, at).at = at
<1> DEFINE m == To(q, at)
<1>1. /\ m \in Request
      /\ m.at = at /\ m.op = q.op /\ m.user = q.user /\ m.id = q.id /\ m.name = q.name
      /\ m.track = q.track /\ m.key = q.key
  BY Moved DEF WellAsked
<1> HIDE DEF m
<1>2. WellAsked(m)
  BY <1>1 DEF WellAsked
<1>3. at = "image" => m.key \in Key /\ m.key.id = CheckedPlaylist(m)
  BY <1>1 DEF Underway, CheckedPlaylist
<1>4. Underway(m)
  BY <1>1, <1>2, <1>3 DEF Underway
<1>5. QED
  BY <1>1, <1>4 DEF Follows, m

\* A request that has opened or has come to its check.
LEMMA CheckLeads ==
    ASSUME NEW r, NEW q, WellAsked(q), q.op \in CheckedOps \union {"create"},
           q.op = "create" => q.id \in Ids, CheckOwner(r, q)
    PROVE  Leads(r, q, {"permission", "access", "write", "load", "row"})
<1>1. q \in Request /\ q.op # "none"
  BY DEF WellAsked
<1>2. CASE Go(r, To(q, AfterCheck(q.op)))
  <2>1. AfterCheck(q.op) \in Places /\ AfterCheck(q.op) \in {"access", "write", "load", "row"}
    BY BehindTheCheck DEF Places
  <2>2. QED
    BY <1>2, <2>1, BehindTheCheck, MovedFollows, GoLeads
<1>3. CASE Go(r, To(q, "permission")) /\ q.op \notin OwnerOps
  <2>1. OpAt(q.op, "permission") /\ "permission" \in Places
    BY <1>3 DEF OpAt, Places
  <2>2. QED
    BY <1>3, <2>1, MovedFollows, GoLeads
<1>4. QED
  BY <1>1, <1>2, <1>3, AnswerLeads DEF CheckOwner, Fails, To

\* A user who is not the owner, behind the second half of the check.
LEMMA PermissionLeads ==
    ASSUME PlaceInv, NEW r \in Requests, CheckPermission(r)
    PROVE  Leads(r, req[r], {"access", "write", "load", "row"})
<1> DEFINE q == req[r]
<1>1. Underway(q) /\ q.at = "permission"
  BY Current DEF CheckPermission, At
<1> HIDE DEF q
<1>2. WellAsked(q) /\ q \in Request /\ q.op # "none" /\ q.op \in CheckedOps \union {"create"}
      /\ (q.op = "create" => q.id \in Ids)
  BY <1>1 DEF Underway, WellAsked, OpAt
<1>3. CASE Go(r, To(q, AfterCheck(q.op)))
  <2>1. AfterCheck(q.op) \in Places /\ AfterCheck(q.op) \in {"access", "write", "load", "row"}
    BY <1>2, BehindTheCheck DEF Places
  <2>2. QED
    BY <1>2, <1>3, <2>1, BehindTheCheck, MovedFollows, GoLeads DEF q
<1>4. QED
  BY <1>2, <1>3, AnswerLeads DEF CheckPermission, Fails, To, q

\* A track that the user can access is added next.
LEMMA AccessLeads ==
    ASSUME PlaceInv, NEW r \in Requests, CheckAccess(r)
    PROVE  Leads(r, req[r], {"write"})
<1> DEFINE q == req[r]
<1>1. Underway(q) /\ q.at = "access"
  BY Current DEF CheckAccess, At
<1> HIDE DEF q
<1>2. WellAsked(q) /\ q \in Request /\ q.op # "none" /\ q.op \in {"addTrack", "ensureTrack"}
  BY <1>1 DEF Underway, WellAsked, OpAt
<1>3. CASE Go(r, To(q, "write"))
  <2>1. OpAt(q.op, "write") /\ "write" \in Places
    BY <1>2 DEF OpAt, Places, TrackOps
  <2>2. QED
    BY <1>2, <1>3, <2>1, MovedFollows, GoLeads DEF q
<1>4. QED
  BY <1>2, <1>3, AnswerLeads DEF CheckAccess, Fails, To, q

\* A row that exists is a row.
LEMMA RowExists ==
    ASSUME TypeOK, NEW p, Exists(p)
    PROVE  /\ p \in Ids /\ playlists[p] \in Row
           /\ playlists[p].owner \in Users /\ playlists[p].name \in Names
<1>1. p \in Ids /\ playlists[p] \in Row
  BY DEF TypeOK, Exists, GetPlaylist
<1>2. QED
  BY <1>1 DEF Row

\* The key is that of the row that is read.
LEMMA LoadLeads ==
    ASSUME TypeOK, NEW r, NEW q, WellAsked(q), q.op \in CoverOps \union {"getCover"},
           q.op = "create" => q.id \in Ids, LoadArtworkOwner(r, q)
    PROVE  Leads(r, q, {"image", "deleteRow"})
<1> DEFINE p == CheckedPlaylist(q)
           k == [id |-> p, name |-> playlists[p].name]
           m == [q EXCEPT !.at = "image", !.key = k]
<1>1. q \in Request /\ q.op # "none"
  BY DEF WellAsked
<1>2. CASE Exists(p) /\ Go(r, m)
  <2>1. k \in Key
    BY <1>2, RowExists DEF Key
  <2>2. k.id = p
    OBVIOUS
  <2> HIDE DEF k
  <2>3. /\ m \in Request
        /\ m.at = "image" /\ m.op = q.op /\ m.user = q.user /\ m.id = q.id /\ m.name = q.name
        /\ m.track = q.track /\ m.key = k
    BY <1>1, <2>1, KeyTaken
  <2>4. Go(r, m)
    BY <1>2
  <2> HIDE DEF m
  <2>5. WellAsked(m) /\ OpAt(m.op, m.at)
    BY <2>3 DEF WellAsked, OpAt, CoverOps
  <2>6. Follows(q, m)
    BY <2>1, <2>2, <2>3, <2>5 DEF Follows, Underway, CheckedPlaylist
  <2>7. QED
    BY <2>3, <2>4, <2>6, GoLeads
<1>3. CASE q.op = "delete" /\ Go(r, To(q, "deleteRow"))
  <2>1. OpAt(q.op, "deleteRow") /\ "deleteRow" \in Places
    BY <1>3 DEF OpAt, Places
  <2>2. QED
    BY <1>3, <2>1, MovedFollows, GoLeads
<1>4. CASE \E err : Answer(r, q, err)
  BY <1>1, <1>4, AnswerLeads
<1>5. QED
  BY <1>2, <1>3, <1>4 DEF LoadArtworkOwner, Fails, To

\* Deleting a playlist goes on to its row, deleting a cover ends.
LEMMA RemoveLeads ==
    ASSUME PlaceInv, NEW r \in Requests, RemoveImage(r)
    PROVE  Leads(r, req[r], {"deleteRow"})
<1> DEFINE q == req[r]
<1>1. Underway(q) /\ q.op \in {"delete", "deleteCover"}
  BY Current DEF RemoveImage, At
<1>2. WellAsked(q) /\ q \in Request /\ q.op # "none" /\ q.op # "create"
  BY <1>1 DEF Underway, WellAsked
<1>3. (q.op = "delete" /\ Go(r, To(q, "deleteRow"))) \/ \E err : Answer(r, q, err)
  BY DEF RemoveImage, Fails, To
<1> HIDE DEF q
<1>4. CASE q.op = "delete" /\ Go(r, To(q, "deleteRow"))
  <2>1. OpAt(q.op, "deleteRow") /\ "deleteRow" \in Places
    BY <1>4 DEF OpAt, Places
  <2>2. QED
    BY <1>2, <1>4, <2>1, MovedFollows, GoLeads DEF q
<1>5. CASE \E err : Answer(r, q, err)
  BY <1>2, <1>5, AnswerLeads DEF q
<1>6. QED
  BY <1>3, <1>4, <1>5

\* The row, the users, the tracks.
LEMMA ReadLeads ==
    ASSUME PlaceInv, NEW r \in Requests, ReadPlaylist(r)
    PROVE  Leads(r, req[r], {"users", "tracks"})
<1> DEFINE q == req[r]
<1>1. Underway(q) /\ q.at \in {"row", "users", "tracks"}
  BY Current DEF ReadPlaylist, At
<1>2. WellAsked(q) /\ q \in Request /\ q.op = "get"
  BY <1>1 DEF Underway, WellAsked, OpAt
<1>3. \/ Go(r, To(q, "users")) \/ Go(r, To(q, "tracks")) \/ \E err : Answer(r, q, err)
  BY DEF ReadPlaylist, Fails, To
<1> HIDE DEF q
<1>4. OpAt(q.op, "users") /\ OpAt(q.op, "tracks") /\ "users" \in Places /\ "tracks" \in Places
  BY <1>2 DEF OpAt, Places
<1>5. Follows(q, To(q, "users")) /\ To(q, "users").at = "users"
  BY <1>2, <1>4, MovedFollows
<1>6. Follows(q, To(q, "tracks")) /\ To(q, "tracks").at = "tracks"
  BY <1>2, <1>4, MovedFollows
<1>7. CASE \E err : Answer(r, q, err)
  BY <1>2, <1>7, AnswerLeads DEF q
<1>8. QED
  BY <1>3, <1>5, <1>6, <1>7, GoLeads DEF q

\* The three statements of a list.
LEMMA ListLeads ==
    ASSUME NEW r, NEW q, WellAsked(q), q.op = "list", GetUserPlaylists(r, q)
    PROVE  Leads(r, q, {"public"})
<1> DEFINE S == GetUserOwnedPlaylists(q.user)
           m == [q EXCEPT !.at = "public", !.owned = S]
<1>1. q \in Request /\ q.op # "none" /\ S \in SUBSET Ids
  BY DEF WellAsked, GetUserOwnedPlaylists
<1>2. Go(r, m) \/ \E err : Answer(r, q, err)
  BY DEF GetUserPlaylists, Fails
<1> HIDE DEF S
<1>3. /\ m \in Request /\ m.at = "public" /\ m.op = q.op /\ m.user = q.user
      /\ m.id = q.id /\ m.track = q.track
  BY <1>1, OwnedTaken
<1> HIDE DEF m
<1>4. WellAsked(m) /\ OpAt(m.op, m.at)
  BY <1>3 DEF WellAsked, OpAt, TrackOps
<1>5. Follows(q, m)
  BY <1>3, <1>4 DEF Follows, Underway
<1>6. QED
  BY <1>1, <1>2, <1>3, <1>5, AnswerLeads, GoLeads

\* The second statement of a list.
LEMMA PublicLeads ==
    ASSUME PlaceInv, NEW r \in Requests, ReadPublic(r)
    PROVE  Leads(r, req[r], {"shared"})
<1> DEFINE q == req[r]
           S == GetPublicPlaylists(q.user)
           m == [q EXCEPT !.at = "shared", !.global = S]
<1>1. Underway(q) /\ q.at = "public"
  BY Current DEF ReadPublic, At
<1>2. WellAsked(q) /\ q \in Request /\ q.op = "list" /\ S \in SUBSET Ids
  BY <1>1 DEF Underway, WellAsked, OpAt, GetPublicPlaylists
<1>3. Go(r, m) \/ \E err : Answer(r, q, err)
  BY DEF ReadPublic, Fails
<1> HIDE DEF S
<1>4. /\ m \in Request /\ m.at = "shared" /\ m.op = q.op /\ m.user = q.user
      /\ m.id = q.id /\ m.track = q.track
  BY <1>2, GlobalTaken
<1> HIDE DEF m, q
<1>5. WellAsked(m) /\ OpAt(m.op, m.at)
  BY <1>2, <1>4 DEF WellAsked, OpAt, TrackOps
<1>6. Follows(q, m)
  BY <1>2, <1>4, <1>5 DEF Follows, Underway
<1>7. QED
  BY <1>2, <1>3, <1>4, <1>6, AnswerLeads, GoLeads DEF q

\* The third one ends it.
LEMMA SharedLeads ==
    ASSUME PlaceInv, NEW r \in Requests, ReadShared(r)
    PROVE  Leads(r, req[r], {})
<1> DEFINE q == req[r]
           S == GetSharedPlaylists(q.user)
           m == [q EXCEPT !.shared = S, !.global = @ \ S]
<1>1. Underway(q) /\ q.at = "shared"
  BY Current DEF ReadShared, At
<1>2. WellAsked(q) /\ q \in Request /\ q.op = "list" /\ S \in SUBSET Ids
  BY <1>1 DEF Underway, WellAsked, OpAt, GetSharedPlaylists
<1>3. Answer(r, m, "ok") \/ Answer(r, q, "db")
  BY DEF ReadShared, Fails
<1> HIDE DEF S
<1>4. m \in Request /\ m.op = q.op
  BY <1>2, SharedTaken
<1> HIDE DEF m, q
<1>5. Leads(r, m, {}) \/ Leads(r, q, {})
  BY <1>2, <1>3, <1>4, AnswerLeads
<1>6. QED
  BY <1>5 DEF Leads, q

\* Creating gives the request the next number.
LEMMA CreateLeads ==
    ASSUME TypeOK, NEW r, NEW q, WellAsked(q), q.op = "create", CreatePlaylist(r, q),
           created + 1 \in Ids
    PROVE  Leads(r, q, {"check"})
<1> DEFINE p == created + 1
           m == [q EXCEPT !.at = "check", !.id = p]
<1>1. q \in Request /\ q.op # "none"
  BY DEF WellAsked
<1>2. Go(r, m) \/ \E err : Answer(r, q, err)
  BY DEF CreatePlaylist, Fails
<1>3. /\ m \in Request
      /\ m.at = "check" /\ m.op = q.op /\ m.user = q.user /\ m.id = p /\ m.name = q.name
      /\ m.track = q.track
  BY <1>1, NumberTaken
<1> HIDE DEF m
<1>4. WellAsked(m) /\ OpAt(m.op, m.at)
  BY <1>3 DEF WellAsked, OpAt, TrackOps
<1>5. Follows(q, m)
  BY <1>3, <1>4 DEF Follows, Underway
<1>6. QED
  BY <1>1, <1>2, <1>3, <1>5, AnswerLeads, GoLeads

\* What the request makes of the statements that write and the calls that store.
LEMMA WriteLeads ==
    ASSUME PlaceInv, NEW r \in Requests,
           \/ UpdatePlaylist(r) \/ AddTrackToPlaylist(r) \/ DeleteTrackFromPlaylist(r)
           \/ SharePlaylistWithMany(r) \/ RevokePlaylistAccess(r) \/ DeletePlaylist(r)
           \/ PutImage(r) \/ GetImage(r)
    PROVE  Leads(r, req[r], {})
<1> DEFINE q == req[r]
<1>1. q.at \in {"write", "deleteRow", "image"}
  BY DEF UpdatePlaylist, AddTrackToPlaylist, DeleteTrackFromPlaylist, SharePlaylistWithMany,
         RevokePlaylistAccess, DeletePlaylist, PutImage, GetImage, At
<1>2. q \in Request /\ q.op # "none"
  BY <1>1, Current DEF Underway, WellAsked
<1>3. \E err : Answer(r, q, err)
  BY DEF UpdatePlaylist, AddTrackToPlaylist, DeleteTrackFromPlaylist, SharePlaylistWithMany,
         RevokePlaylistAccess, DeletePlaylist, PutImage, GetImage, Done, Fails
<1> HIDE DEF q
<1>4. QED
  BY <1>2, <1>3, AnswerLeads DEF q

\* A request that goes on stays the request that it is.
LEMMA ContinueLeads ==
    ASSUME Typed, NEW r \in Requests, Continues(r)
    PROVE  \E A : Leads(r, req[r], A)
<1> USE DEF Typed
<1>1. CASE CheckNewCover(r)
  <2>1. Underway(req[r]) /\ req[r].op = "create" /\ CheckOwner(r, req[r])
    BY <1>1, Current DEF CheckNewCover, At, Underway, OpAt
  <2>2. QED
    BY <2>1, CheckLeads DEF Underway
<1>2. CASE LoadForImage(r)
  <2>1. Underway(req[r]) /\ req[r].op \in CoverOps /\ LoadArtworkOwner(r, req[r])
    BY <1>2, Current DEF LoadForImage, At, Underway, OpAt
  <2>2. QED
    BY <2>1, LoadLeads DEF Underway
<1>3. QED
  BY <1>1, <1>2, PermissionLeads, AccessLeads, RemoveLeads, ReadLeads, PublicLeads, SharedLeads,
     WriteLeads DEF Continues

\* A request that begins.
LEMMA BeginLeads ==
    ASSUME Typed, NEW r \in Requests, Begins(r), NEW q, Opens(r, q)
    PROVE  \E A : Leads(r, q, A)
<1> USE DEF Typed
<1>1. CASE q.op \in CheckedOps /\ CheckOwner(r, q)
  BY <1>1, CheckLeads DEF Opens, CheckedOps, TrackOps
<1>2. CASE q.op = "create" /\ CreatePlaylist(r, q)
  <2>1. created + 1 \in Ids
    BY ConstantsAssumption DEF Begins, TypeOK, CountInv, Ids
  <2>2. QED
    BY <1>2, <2>1, CreateLeads DEF Opens
<1>3. CASE q.op = "list" /\ GetUserPlaylists(r, q)
  BY <1>3, ListLeads DEF Opens
<1>4. CASE q.op = "getCover" /\ LoadArtworkOwner(r, q)
  BY <1>4, LoadLeads DEF Opens
<1>5. QED
  BY <1>1, <1>2, <1>3, <1>4 DEF Opens

\* Whatever a step does, it leaves every request at a step that it may reach.
LEMMA StepLeads ==
    ASSUME Typed, NEW r \in Requests, Begins(r) \/ Continues(r)
    PROVE  \E q, A : Leads(r, q, A)
BY Opening, BeginLeads, ContinueLeads DEF Typed, TypeOK

-------------------------------------------------------------------------------
(* What a step makes of the data.                                          *)

\* The requests that only read, and those whose checks let them on.
Looks == UNCHANGED <<data, strayed>> /\ (Fault \/ NoFault)

\* The steps that leave the data alone.
LEMMA Looking ==
    ASSUME NEW r, NEW q,
           \/ CheckOwner(r, q) \/ LoadArtworkOwner(r, q) \/ GetUserPlaylists(r, q)
           \/ CheckNewCover(r) \/ CheckPermission(r) \/ CheckAccess(r) \/ LoadForImage(r)
           \/ GetImage(r) \/ ReadPlaylist(r) \/ ReadPublic(r) \/ ReadShared(r)
    PROVE  Looks
<1>1. ASSUME NEW x, CheckOwner(r, x) PROVE Looks
  BY <1>1 DEF CheckOwner, Looks, Fails
<1>2. ASSUME NEW x, LoadArtworkOwner(r, x) PROVE Looks
  BY <1>2 DEF LoadArtworkOwner, Looks, Fails
<1>3. CASE GetUserPlaylists(r, q)
  BY <1>3 DEF GetUserPlaylists, Looks, Fails
<1>4. CASE CheckPermission(r) \/ CheckAccess(r)
  BY <1>4 DEF CheckPermission, CheckAccess, Looks, Fails
<1>5. CASE GetImage(r) \/ ReadPlaylist(r) \/ ReadPublic(r) \/ ReadShared(r)
  BY <1>5 DEF GetImage, ReadPlaylist, ReadPublic, ReadShared, Looks, Fails
<1>6. QED
  BY <1>1, <1>2, <1>3, <1>4, <1>5 DEF CheckNewCover, LoadForImage

DataOK ==
    /\ playlists \in [Ids -> Row \union {NoRow}]
    /\ created \in Ids \union {0}
    /\ entries \subseteq Ids \X Tracks
    /\ shares \subseteq Shares
    /\ images \subseteq Key
    /\ faults \in 0..MaxFaults
    /\ strayed \subseteq Ids

\* No number is taken before it is given out.
Grows == \A p \in Ids : playlists[p] = NoRow => playlists'[p] = NoRow

\* A fault uses up one of those left.
LEMMA FaultType ==
    ASSUME DataOK, Fault \/ NoFault
    PROVE  faults' \in 0..MaxFaults
BY ConstantsAssumption DEF DataOK, Fault, NoFault

\* Steps that look keep the types.
LEMMA LooksData ==
    ASSUME DataOK, Looks
    PROVE  DataOK' /\ created' = created /\ Grows
<1>1. faults' \in 0..MaxFaults
  BY FaultType DEF Looks
<1>2. UNCHANGED <<playlists, created, entries, shares, images, strayed>>
  BY DEF Looks, data
<1>3. QED
  BY <1>1, <1>2 DEF DataOK, Grows

\* A row with another name is a row.
LEMMA RenamedRow ==
    ASSUME DataOK, NEW p, Exists(p), NEW n \in Names, NEW b \in BOOLEAN
    PROVE  [playlists EXCEPT ![p].name = n, ![p].public = b] \in [Ids -> Row \union {NoRow}]
<1>1. p \in Ids /\ playlists[p] \in Row
  BY DEF DataOK, Exists, GetPlaylist
<1>2. [playlists[p] EXCEPT !.name = n, !.public = b] \in Row
  BY <1>1 DEF Row
<1>3. [playlists EXCEPT ![p].name = n, ![p].public = b]
          = [playlists EXCEPT ![p] = [playlists[p] EXCEPT !.name = n, !.public = b]]
  BY <1>1 DEF DataOK, Row
<1>4. QED
  BY <1>1, <1>2, <1>3 DEF DataOK

\* However a statement ends, the faults left are counted.
LEMMA AnsweredFaults ==
    ASSUME DataOK, NEW r, NEW q, NEW err,
           (Answer(r, q, err) /\ NoFault) \/ Done(r, q) \/ Fails(r, q)
    PROVE  faults' \in 0..MaxFaults
BY FaultType DEF Done, Fails

\* The new row takes the number that is given out.
LEMMA CreateData ==
    ASSUME DataOK, NEW r, NEW q, WellAsked(q), q.op = "create", CreatePlaylist(r, q),
           created + 1 \in Ids
    PROVE  /\ DataOK' /\ created' \in {created, created + 1}
           /\ \A p \in Ids : playlists[p] = NoRow /\ playlists'[p] # NoRow => p = created'
<1>1. faults' \in 0..MaxFaults
  BY FaultType DEF CreatePlaylist, Fails
<1>2. created' \in {created, created + 1} /\ created' \in Ids \union {0}
      /\ UNCHANGED <<entries, shares, images, strayed>>
  BY DEF CreatePlaylist, DataOK
<1>3. CASE UNCHANGED playlists
  BY <1>1, <1>2, <1>3 DEF DataOK
<1>4. CASE /\ created' = created + 1
           /\ playlists' = [playlists EXCEPT
                ![created + 1] = [owner |-> q.user, name |-> q.name, public |-> q.public]]
  <2>1. q.user \in Users /\ q.name \in Names /\ q.public \in BOOLEAN
    BY DEF WellAsked, Request
  <2>2. [owner |-> q.user, name |-> q.name, public |-> q.public] \in Row
    BY <2>1 DEF Row
  <2>3. playlists' \in [Ids -> Row \union {NoRow}]
    BY <1>4, <2>2 DEF DataOK
  <2>4. \A p \in Ids : playlists[p] = NoRow /\ playlists'[p] # NoRow => p = created'
    BY <1>4 DEF DataOK
  <2>5. QED
    BY <1>1, <1>2, <2>3, <2>4 DEF DataOK
<1>5. QED
  BY <1>3, <1>4 DEF CreatePlaylist

\* Updating makes a row of a row.
LEMMA UpdateData ==
    ASSUME DataOK, PlaceInv, NEW r \in Requests, UpdatePlaylist(r)
    PROVE  DataOK' /\ created' = created /\ Grows
<1> DEFINE q == req[r]
           p == q.id
<1>1. Underway(q)
  BY Current DEF UpdatePlaylist, At
<1>2. q.name \in Names /\ q.public \in BOOLEAN
  BY <1>1 DEF UpdatePlaylist, Underway, WellAsked, Request
<1>3. faults' \in 0..MaxFaults
  BY AnsweredFaults DEF UpdatePlaylist
<1>4. UNCHANGED <<created, entries, shares, images>>
  BY DEF UpdatePlaylist
<1>5. CASE UNCHANGED <<playlists, strayed>>
  BY <1>3, <1>4, <1>5 DEF DataOK, Grows
<1>6. CASE /\ Exists(p)
           /\ playlists' = [playlists EXCEPT ![p].name = q.name, ![p].public = q.public]
           /\ strayed' \in {strayed, strayed \union {p}}
  <2>1. p \in Ids /\ playlists[p] # NoRow
    BY <1>6 DEF Exists, GetPlaylist
  <2>2. playlists' \in [Ids -> Row \union {NoRow}]
    BY <1>2, <1>6, RenamedRow
  <2>3. Grows
    BY <1>6, <2>1 DEF Grows, DataOK
  <2>4. QED
    BY <1>3, <1>4, <1>6, <2>1, <2>2, <2>3 DEF DataOK
<1>7. QED
  BY <1>5, <1>6 DEF UpdatePlaylist

\* The track and the playlist of an entry are those of the request.
LEMMA EntriesData ==
    ASSUME DataOK, PlaceInv, NEW r \in Requests, AddTrackToPlaylist(r) \/ DeleteTrackFromPlaylist(r)
    PROVE  DataOK' /\ created' = created /\ Grows
<1> DEFINE q == req[r]
<1>1. Underway(q) /\ q.op \in TrackOps
  BY Current DEF AddTrackToPlaylist, DeleteTrackFromPlaylist, At, TrackOps
<1>2. q.id \in Ids /\ q.track \in Tracks
  BY <1>1 DEF Underway, WellAsked, TrackOps
<1>3. faults' \in 0..MaxFaults
  BY AnsweredFaults DEF AddTrackToPlaylist, DeleteTrackFromPlaylist
<1>4. UNCHANGED <<playlists, created, shares, images, strayed>>
  BY DEF AddTrackToPlaylist, DeleteTrackFromPlaylist
<1>5. entries' \subseteq entries \union {<<q.id, q.track>>}
  BY DEF AddTrackToPlaylist, DeleteTrackFromPlaylist
<1>6. QED
  BY <1>2, <1>3, <1>4, <1>5 DEF DataOK, Grows

\* User number 0 is never given a share.
LEMMA SharesData ==
    ASSUME DataOK, PlaceInv, NEW r \in Requests,
           SharePlaylistWithMany(r) \/ RevokePlaylistAccess(r)
    PROVE  DataOK' /\ created' = created /\ Grows
<1> DEFINE q == req[r]
<1>1. Underway(q) /\ q.op \in {"share", "revoke"}
  BY Current DEF SharePlaylistWithMany, RevokePlaylistAccess, At
<1>2. q.id \in Ids /\ q.with \in SUBSET (0..NumUsers) /\ q.write \in BOOLEAN
  BY <1>1 DEF Underway, WellAsked, Request
<1>3. faults' \in 0..MaxFaults
  BY AnsweredFaults DEF SharePlaylistWithMany, RevokePlaylistAccess
<1>4. UNCHANGED <<playlists, created, entries, images, strayed>>
  BY DEF SharePlaylistWithMany, RevokePlaylistAccess
<1>5. CASE shares' \subseteq shares
  BY <1>3, <1>4, <1>5 DEF DataOK, Grows
<1>6. CASE 0 \notin q.with
           /\ shares' = shares \union [playlist : {q.id}, user : q.with, write : {q.write}]
  <2>1. q.with \subseteq Users
    BY <1>2, <1>6, ConstantsAssumption DEF Users
  <2>2. [playlist : {q.id}, user : q.with, write : {q.write}] \subseteq Shares
    BY <1>2, <2>1 DEF Shares
  <2>3. QED
    BY <1>3, <1>4, <1>6, <2>2 DEF DataOK, Grows
<1>7. QED
  BY <1>5, <1>6 DEF SharePlaylistWithMany, RevokePlaylistAccess

\* Deleting takes away only.
LEMMA DeleteData ==
    ASSUME DataOK, PlaceInv, NEW r \in Requests, DeletePlaylist(r)
    PROVE  DataOK' /\ created' = created /\ Grows
<1> DEFINE q == req[r]
<1>1. Underway(q) /\ q.op = "delete"
  BY Current DEF DeletePlaylist, At, Underway, OpAt
<1>2. q.id \in Ids
  BY <1>1 DEF Underway, WellAsked
<1>3. faults' \in 0..MaxFaults
  BY AnsweredFaults DEF DeletePlaylist
<1>4. /\ UNCHANGED <<created, images>> /\ entries' \subseteq entries /\ shares' \subseteq shares
      /\ strayed' \subseteq strayed \union {q.id}
      /\ playlists' = playlists \/ playlists' = [playlists EXCEPT ![q.id] = NoRow]
  BY DEF DeletePlaylist
<1>5. playlists' \in [Ids -> Row \union {NoRow}] /\ Grows
  BY <1>4 DEF DataOK, Grows
<1>6. QED
  BY <1>2, <1>3, <1>4, <1>5 DEF DataOK

\* An image is stored under a key that was made of a row.
LEMMA ImagesData ==
    ASSUME DataOK, PlaceInv, NEW r \in Requests, PutImage(r) \/ RemoveImage(r)
    PROVE  DataOK' /\ created' = created /\ Grows
<1> DEFINE k == req[r].key
<1>1. k \in Key /\ k.id \in Ids
  BY Current DEF PutImage, RemoveImage, At, Underway, Key
<1>2. faults' \in 0..MaxFaults
  BY AnsweredFaults, FaultType DEF PutImage, RemoveImage, Fails
<1>3. /\ UNCHANGED <<playlists, created, entries, shares>>
      /\ images' \subseteq images \union {k} /\ strayed' \subseteq strayed \union {k.id}
  BY DEF PutImage, RemoveImage
<1>4. QED
  BY <1>1, <1>2, <1>3 DEF DataOK, Grows

-------------------------------------------------------------------------------
(* Type correctness.                                                       *)

\* What a step does to the data, and the next number when a request creates a playlist.
LEMMA StepData ==
    ASSUME Typed, NEW r \in Requests, Begins(r) \/ Continues(r)
    PROVE  DataOK' /\ CountInv' /\ begun' \in 0..MaxRequests
<1> USE DEF Typed
<1>1. DataOK /\ created \in Nat /\ begun \in Nat
  BY ConstantsAssumption DEF TypeOK, DataOK, Ids
<1>2. /\ begun' \in 0..MaxRequests /\ begun' >= begun
      /\ Begins(r) => created + 1 \in Ids /\ begun' = begun + 1
  BY ConstantsAssumption DEF Begins, Continues, TypeOK, CountInv, Ids
<1>3. ASSUME DataOK' /\ created' = created /\ Grows
      PROVE  CountInv'
  <2>1. created' <= begun' + 1
    <3>1. created <= begun + 1 /\ begun' >= begun /\ begun' \in Nat /\ created' = created
      BY <1>2, <1>3 DEF CountInv
    <3>2. ASSUME NEW c \in Nat, NEW b \in Nat, NEW n \in Nat, c <= b + 1, n >= b
          PROVE  c <= n + 1
      BY <3>2
    <3>3. QED
      BY <1>1, <3>1, <3>2
  <2>2. \A p \in Ids : playlists'[p] # NoRow => p <= created'
    BY <1>3 DEF Grows, CountInv
  <2>3. QED
    BY <2>1, <2>2 DEF CountInv
<1>4. CASE Begins(r)
  <2>1. PICK q : Opens(r, q)
    BY <1>4, Opening DEF TypeOK
  <2>2. CASE q.op = "create" /\ CreatePlaylist(r, q)
    <3>1. /\ DataOK' /\ created' \in {created, created + 1}
          /\ \A p \in Ids : playlists[p] = NoRow /\ playlists'[p] # NoRow => p = created'
      BY <1>1, <1>2, <1>4, <2>1, <2>2, CreateData DEF Opens
    <3>2. created' <= begun' + 1
      BY <1>1, <1>2, <1>4, <3>1 DEF CountInv
    <3>3. ASSUME NEW p \in Ids, playlists'[p] # NoRow
          PROVE  p <= created'
      <4>1. p \in Nat /\ (p = created' \/ p <= created)
        BY <3>1, <3>3, ConstantsAssumption DEF CountInv, Ids
      <4>2. QED
        BY <1>1, <3>1, <4>1
    <3>4. QED
      BY <1>2, <3>1, <3>2, <3>3 DEF CountInv
  <2>3. CASE CheckOwner(r, q) \/ GetUserPlaylists(r, q) \/ LoadArtworkOwner(r, q)
    BY <1>1, <1>2, <1>3, <2>3, Looking, LooksData
  <2>4. QED
    BY <2>1, <2>2, <2>3 DEF Opens
<1>5. CASE Continues(r)
  <2>1. DataOK' /\ created' = created /\ Grows
    BY <1>1, <1>5, Looking, LooksData, UpdateData, EntriesData, SharesData, DeleteData, ImagesData
       DEF Continues
  <2>2. QED
    BY <1>2, <1>3, <2>1
<1>6. QED
  BY <1>4, <1>5

\* What is recorded of a request are rights.
LEMMA RightsType ==
    ASSUME TypeOK, RecordRights
    PROVE  allowed' \in [Requests -> SUBSET Rights]
<1>1. ASSUME NEW r \in Requests
      PROVE  (IF req'[r] = Idle THEN {} ELSE allowed[r] \union Held(req[r])') \in SUBSET Rights
  <2>1. Held(req[r])' \subseteq Rights
    BY DEF Held, Rights
  <2>2. QED
    BY <2>1 DEF TypeOK
<1>2. QED
  BY <1>1 DEF RecordRights

\* The service starts without requests.
LEMMA TypedInit ==
    ASSUME Init
    PROVE  Typed
<1>1. PICK row \in Founding :
          /\ playlists = [p \in Ids |-> IF p = 1 THEN row ELSE NoRow]
          /\ created = IF row = NoRow THEN 0 ELSE 1
          /\ images = {[id |-> 1, name |-> row.name]} \intersect Key
          /\ entries = {1} \X {t \in Tracks : row # NoRow /\ UploadedBy[t] = row.owner}
  BY DEF Init
<1>2. row \in Row \union {NoRow} /\ 1 \in Ids
  <2>1. [owner : Users, name : Names, public : {FALSE}] \subseteq Row
    BY DEF Row
  <2>2. 1 \in Ids
    BY ConstantsAssumption DEF Ids
  <2>3. QED
    BY <2>1, <2>2 DEF Founding
<1>3. NoReply \in [request : Request, status : Nat]
  BY IdleTypes DEF NoReply
<1>4. /\ playlists \in [Ids -> Row \union {NoRow}] /\ created \in Ids \union {0}
      /\ entries \subseteq Ids \X Tracks /\ images \subseteq Key
  BY <1>1, <1>2
<1>5. /\ shares = {} /\ req = [r \in Requests |-> Idle] /\ reply = NoReply /\ begun = 0
      /\ faults = MaxFaults /\ allowed = [r \in Requests |-> {}] /\ strayed = {}
  BY DEF Init
<1>6. TypeOK
  BY <1>3, <1>4, <1>5, IdleTypes, ConstantsAssumption DEF TypeOK
<1>7. PlaceInv
  BY <1>5 DEF PlaceInv
<1>8. CountInv
  BY <1>1, <1>5, ConstantsAssumption DEF CountInv, Ids
<1>9. QED
  BY <1>6, <1>7, <1>8 DEF Typed

\* No step breaks the types.
LEMMA TypedStep ==
    ASSUME Typed, [Next]_vars
    PROVE  Typed'
<1>1. CASE UNCHANGED vars
  BY <1>1 DEF vars, data, Typed, TypeOK, PlaceInv, CountInv
<1>2. CASE Next
  <2>1. PICK r \in Requests : Begins(r) \/ Continues(r)
    BY <1>2 DEF Next
  <2>2. DataOK' /\ CountInv' /\ begun' \in 0..MaxRequests
    BY <2>1, StepData
  <2>3. allowed' \in [Requests -> SUBSET Rights]
    BY <1>2, RightsType DEF Next, Typed
  <2>4. /\ reply' \in [request : Request, status : Nat]
        /\ \E m : req' = [req EXCEPT ![r] = m] /\ (m = Idle \/ Underway(m))
    BY <2>1, StepLeads DEF Leads, Follows
  <2>5. PICK m : req' = [req EXCEPT ![r] = m] /\ (m = Idle \/ Underway(m))
    BY <2>4
  <2>6. m \in Request
    BY <2>5, IdleTypes DEF Underway, WellAsked
  <2>7. req' \in [Requests -> Request]
    BY <2>5, <2>6 DEF Typed, TypeOK
  <2>8. TypeOK'
    BY <2>2, <2>3, <2>4, <2>7 DEF TypeOK, DataOK
  <2>9. ASSUME NEW s \in Requests
        PROVE  req'[s] = Idle \/ Underway(req'[s])
    BY <2>5 DEF Typed, TypeOK, PlaceInv
  <2>10. PlaceInv'
    BY <2>9 DEF PlaceInv
  <2>11. QED
    BY <2>2, <2>8, <2>10 DEF Typed
<1>3. QED
  BY <1>1, <1>2

\* So they hold throughout.
LEMMA TypedAlways == Spec => []Typed
BY TypedInit, TypedStep, PTL DEF Spec

\* Every request is at a step that its operation has, about a playlist, a user and a
\* track that there are, and the data have their types.
THEOREM TypeCorrect == Spec => []TypeOK
<1>1. Typed => TypeOK
  BY DEF Typed
<1>2. QED
  BY <1>1, TypedAlways, PTL

-------------------------------------------------------------------------------
(* The images.  A key that a request holds is one that its playlist shows, *)
(* and a request about to delete a row has left no image to be shown.      *)

Shown(k) == k.id \in strayed \/ (Exists(k.id) /\ playlists[k.id].name = k.name)

HeldInv == \A r \in Requests : At(r, "image") => Shown(req[r].key)
LeftInv ==
    \A r \in Requests : At(r, "deleteRow") =>
       \A k \in images : k.id = req[r].id => k.id \in strayed

ImageInv == ImagesAreShown /\ HeldInv /\ LeftInv

Known(k) == k \in images \/ \E s \in Requests : At(s, "image") /\ req[s].key = k

\* Images and the keys that requests hold are known alike.
LEMMA KnownIsShown ==
    ASSUME ImageInv, NEW k, Known(k)
    PROVE  Shown(k)
BY DEF ImageInv, ImagesAreShown, HeldInv, Known, Shown

\* A step that leaves the rows alone.
LEMMA ShownAlike ==
    ASSUME NEW k, Shown(k), playlists' = playlists, strayed \subseteq strayed'
    PROVE  Shown(k)'
BY DEF Shown, Exists, GetPlaylist

\* A row that is made has a new number.
LEMMA ShownWhileCreated ==
    ASSUME Typed, NEW r, NEW q, CreatePlaylist(r, q), NEW k, Shown(k)
    PROVE  Shown(k)'
<1>1. strayed' = strayed
  BY DEF CreatePlaylist
<1>2. CASE UNCHANGED playlists
  BY <1>1, <1>2, ShownAlike
<1>3. CASE \E row : playlists' = [playlists EXCEPT ![created + 1] = row]
  <2>1. CASE k.id \in strayed
    BY <1>1, <2>1 DEF Shown
  <2>2. CASE Exists(k.id) /\ playlists[k.id].name = k.name
    <3>1. k.id \in Ids /\ k.id <= created
      BY <2>2 DEF Exists, GetPlaylist, Typed, CountInv
    <3>2. k.id # created + 1
      BY <3>1, ConstantsAssumption DEF Typed, TypeOK, Ids
    <3>3. playlists'[k.id] = playlists[k.id]
      BY <1>3, <3>1, <3>2 DEF Typed, TypeOK
    <3>4. QED
      BY <2>2, <3>1, <3>3 DEF Shown, Exists, GetPlaylist
  <2>3. QED
    BY <2>1, <2>2 DEF Shown
<1>4. QED
  BY <1>2, <1>3 DEF CreatePlaylist

\* A playlist that is renamed has strayed, if it has an image or one is on its way.
LEMMA ShownWhileUpdated ==
    ASSUME Typed, NEW r \in Requests, UpdatePlaylist(r), NEW k, Known(k), Shown(k),
           k \in Key
    PROVE  Shown(k)'
<1> DEFINE p == req[r].id
           n == req[r].name
<1>1. CASE UNCHANGED <<playlists, strayed>>
  BY <1>1, ShownAlike
<1>2. CASE /\ Exists(p)
           /\ playlists' = [playlists EXCEPT ![p].name = n, ![p].public = req[r].public]
           /\ strayed' = IF n # playlists[p].name /\ CoverOf(p) \union Holders(p) # {}
                         THEN strayed \union {p} ELSE strayed
  <2>1. CASE k.id \in strayed
    BY <1>2, <2>1 DEF Shown
  <2>2. CASE k.id # p /\ Exists(k.id) /\ playlists[k.id].name = k.name
    BY <1>2, <2>2 DEF Shown, Exists, GetPlaylist, Typed, TypeOK
  <2>3. CASE k.id = p /\ playlists[k.id].name = k.name /\ n # k.name
    <3>1. CoverOf(p) \union Holders(p) # {}
      BY <2>3 DEF Known, CoverOf, Holders
    <3>2. QED
      BY <1>2, <2>3, <3>1 DEF Shown
  <2>4. CASE k.id = p /\ playlists[k.id].name = k.name /\ n = k.name
    <3>1. p \in Ids /\ playlists[p] \in Row
      BY <1>2, RowExists DEF Typed
    <3>2. playlists'[p].name = n
      BY <1>2, <3>1 DEF Row, Typed, TypeOK
    <3>3. playlists'[p] # NoRow
      <4>1. n \in Names
        BY <2>4 DEF Key
      <4>2. QED
        BY <3>2, <4>1, ConstantsAssumption DEF NoRow
    <3>4. QED
      BY <2>4, <3>1, <3>2, <3>3 DEF Shown, Exists, GetPlaylist
  <2>5. QED
    BY <2>1, <2>2, <2>3, <2>4 DEF Shown
<1>3. QED
  BY <1>1, <1>2 DEF UpdatePlaylist

\* A playlist that is deleted has strayed, if an image of it is there or on its way.
LEMMA ShownWhileDeleted ==
    ASSUME Typed, LeftInv, NEW r \in Requests, DeletePlaylist(r), NEW k, Known(k), Shown(k)
    PROVE  Shown(k)'
<1> DEFINE p == req[r].id
<1>1. CASE UNCHANGED <<playlists, strayed>>
  BY <1>1, ShownAlike
<1>2. CASE /\ playlists' = [playlists EXCEPT ![p] = NoRow]
           /\ strayed' = IF Holders(p) # {} THEN strayed \union {p} ELSE strayed
  <2>1. CASE k.id \in strayed
    BY <1>2, <2>1 DEF Shown
  <2>2. CASE k.id # p /\ Exists(k.id) /\ playlists[k.id].name = k.name
    BY <1>2, <2>2 DEF Shown, Exists, GetPlaylist, Typed, TypeOK
  <2>3. CASE k.id = p /\ k \in images
    BY <2>1, <2>3 DEF LeftInv, DeletePlaylist
  <2>4. CASE k.id = p /\ k \notin images
    <3>1. Holders(p) # {}
      BY <2>4 DEF Known, Holders
    <3>2. QED
      BY <1>2, <2>4, <3>1 DEF Shown
  <2>5. QED
    BY <2>1, <2>2, <2>3, <2>4 DEF Shown
<1>3. QED
  BY <1>1, <1>2 DEF DeletePlaylist

\* The rest leave the rows as they are.
LEMMA RowsStay ==
    ASSUME NEW r, NEW q,
           \/ Looks \/ AddTrackToPlaylist(r) \/ DeleteTrackFromPlaylist(r)
           \/ SharePlaylistWithMany(r) \/ RevokePlaylistAccess(r)
           \/ PutImage(r) \/ RemoveImage(r)
    PROVE  playlists' = playlists /\ strayed \subseteq strayed'
BY DEF Looks, data, AddTrackToPlaylist, DeleteTrackFromPlaylist, SharePlaylistWithMany,
   RevokePlaylistAccess, PutImage, RemoveImage

\* They are keys.
LEMMA KnownIsKey ==
    ASSUME Typed, NEW k, Known(k)
    PROVE  k \in Key
BY Current DEF Known, Typed, TypeOK, Underway, At

\* What was shown stays so.
LEMMA KnownStaysShown ==
    ASSUME Typed, ImageInv, NEW r \in Requests, Begins(r) \/ Continues(r), NEW k, Known(k)
    PROVE  Shown(k)'
<1>1. Shown(k) /\ k \in Key
  BY KnownIsShown, KnownIsKey
<1>2. CASE Begins(r)
  <2>1. PICK q : Opens(r, q)
    BY <1>2, Opening DEF Typed, TypeOK
  <2>2. CASE CreatePlaylist(r, q)
    BY <1>1, <2>2, ShownWhileCreated
  <2>3. CASE CheckOwner(r, q) \/ GetUserPlaylists(r, q) \/ LoadArtworkOwner(r, q)
    BY <1>1, <2>3, Looking, RowsStay, ShownAlike
  <2>4. QED
    BY <2>1, <2>2, <2>3 DEF Opens
<1>3. CASE Continues(r)
  <2>1. CASE UpdatePlaylist(r)
    BY <1>1, <2>1, ShownWhileUpdated
  <2>2. CASE DeletePlaylist(r)
    BY <1>1, <2>2, ShownWhileDeleted DEF ImageInv
  <2>3. CASE /\ ~UpdatePlaylist(r)
             /\ ~DeletePlaylist(r)
    <3>1. playlists' = playlists /\ strayed \subseteq strayed'
      BY <1>3, <2>3, Looking, RowsStay DEF Continues
    <3>2. QED
      BY <1>1, <3>1, ShownAlike
  <2>4. QED
    BY <2>1, <2>2, <2>3
<1>4. QED
  BY <1>2, <1>3

\* The rows of the other requests stay, and a request comes to an image or to deleting
\* a row only from loading the row or from removing the image.
LEMMA Reaches ==
    ASSUME Typed, NEW r \in Requests, Begins(r) \/ Continues(r)
    PROVE  /\ \A s \in Requests : s # r => req'[s] = req[s]
           /\ req'[r].at \in {"image", "deleteRow"} =>
                 \/ RemoveImage(r)
                 \/ \E q : /\ WellAsked(q) /\ q.op \in CoverOps \union {"getCover"}
                           /\ LoadArtworkOwner(r, q)
<1> USE DEF Typed
<1>1. ASSUME NEW q, NEW A, Leads(r, q, A)
      PROVE  /\ \A s \in Requests : s # r => req'[s] = req[s]
             /\ req'[r].at \in A \union {"idle"}
  BY <1>1, IdleTypes DEF Leads, TypeOK
<1>2. \A s \in Requests : s # r => req'[s] = req[s]
  BY <1>1, StepLeads
<1>3. ASSUME req'[r].at \in {"image", "deleteRow"}, Begins(r)
      PROVE  \E q : /\ WellAsked(q) /\ q.op \in CoverOps \union {"getCover"}
                    /\ LoadArtworkOwner(r, q)
  <2>1. PICK q : Opens(r, q)
    BY <1>3, Opening DEF TypeOK
  <2>2. CASE q.op \in CheckedOps /\ CheckOwner(r, q)
    <3>1. req'[r].at \in {"permission", "access", "write", "load", "row", "idle"}
      BY <1>1, <2>1, <2>2, CheckLeads DEF Opens, CheckedOps, TrackOps
    <3>2. QED
      BY <1>3, <3>1
  <2>3. CASE q.op = "create" /\ CreatePlaylist(r, q)
    <3>1. created + 1 \in Ids
      BY <1>3, ConstantsAssumption DEF Begins, TypeOK, CountInv, Ids
    <3>2. req'[r].at \in {"check", "idle"}
      BY <1>1, <2>1, <2>3, <3>1, CreateLeads DEF Opens
    <3>3. QED
      BY <1>3, <3>2
  <2>4. CASE q.op = "list" /\ GetUserPlaylists(r, q)
    <3>1. req'[r].at \in {"public", "idle"}
      BY <1>1, <2>1, <2>4, ListLeads DEF Opens
    <3>2. QED
      BY <1>3, <3>1
  <2>5. QED
    BY <2>1, <2>2, <2>3, <2>4 DEF Opens
<1>4. ASSUME req'[r].at \in {"image", "deleteRow"}, Continues(r)
      PROVE  \/ RemoveImage(r)
             \/ \E q : /\ WellAsked(q) /\ q.op \in CoverOps \union {"getCover"}
                       /\ LoadArtworkOwner(r, q)
  <2>1. ASSUME NEW A, Leads(r, req[r], A), A \intersect {"image", "deleteRow"} = {} PROVE FALSE
    BY <1>1, <1>4, <2>1
  <2>2. CASE CheckNewCover(r)
    <3>1. Underway(req[r]) /\ req[r].op = "create" /\ CheckOwner(r, req[r])
      BY <2>2, Current DEF CheckNewCover, At, Underway, OpAt
    <3>2. QED
      BY <2>1, <3>1, CheckLeads DEF Underway
  <2>3. CASE LoadForImage(r)
    BY <2>3, Current DEF LoadForImage, At, Underway, OpAt
  <2>4. CASE CheckPermission(r)
    BY <2>1, <2>4, PermissionLeads
  <2>5. CASE CheckAccess(r)
    BY <2>1, <2>5, AccessLeads
  <2>6. CASE ReadPlaylist(r)
    BY <2>1, <2>6, ReadLeads
  <2>7. CASE ReadPublic(r)
    BY <2>1, <2>7, PublicLeads
  <2>8. QED
    BY <1>4, <2>1, <2>2, <2>3, <2>4, <2>5, <2>6, <2>7, SharedLeads, WriteLeads DEF Continues
<1>5. QED
  BY <1>2, <1>3, <1>4

\* Loading the row: the request takes its key, or there is no row to be deleted.
LEMMA Loaded ==
    ASSUME Typed, NEW r \in Requests, NEW q, WellAsked(q), LoadArtworkOwner(r, q)
    PROVE  /\ req'[r].at = "image" => Shown(req'[r].key)
           /\ req'[r].at = "deleteRow" => q.op = "delete" /\ req'[r].id = q.id /\ ~Exists(q.id)
<1> DEFINE p == CheckedPlaylist(q)
           k == [id |-> p, name |-> playlists[p].name]
           m == [q EXCEPT !.at = "image", !.key = k]
<1>1. q \in Request
  BY DEF WellAsked
<1>2. CASE Exists(p) /\ Go(r, m)
  <2>1. k \in Key
    BY <1>2, RowExists DEF Key, Typed
  <2>2. k.id = p /\ k.name = playlists[p].name
    OBVIOUS
  <2> HIDE DEF k
  <2>3. m.at = "image" /\ m.key = k
    BY <1>1, <2>1, KeyTaken
  <2>4. req'[r] = m
    BY <1>2 DEF Go, Typed, TypeOK
  <2>5. QED
    BY <1>2, <2>2, <2>3, <2>4 DEF Shown
<1>3. CASE q.op = "delete" /\ ~Exists(p) /\ Go(r, To(q, "deleteRow"))
  <2>1. p = q.id
    BY <1>3 DEF CheckedPlaylist, Swapped
  <2>2. req'[r] = To(q, "deleteRow")
    BY <1>3 DEF Go, Typed, TypeOK
  <2>3. To(q, "deleteRow").at = "deleteRow" /\ To(q, "deleteRow").id = q.id
    BY <1>1, Moved DEF Places
  <2>4. QED
    BY <1>3, <2>1, <2>2, <2>3
<1>4. CASE \E err : Answer(r, q, err)
  BY <1>4, IdleTypes DEF Answer, Typed, TypeOK
<1>5. QED
  BY <1>2, <1>3, <1>4 DEF LoadArtworkOwner, Fails, To

\* Removing the image on the way to the row: only that image could be shown.
LEMMA Removed ==
    ASSUME Typed, ImageInv, NEW r \in Requests, RemoveImage(r), req'[r].at = "deleteRow",
           NEW k \in images', k.id = req'[r].id
    PROVE  k.id \in strayed
<1> DEFINE q == req[r]
<1>1. Underway(q) /\ q.at = "image"
  BY Current DEF RemoveImage, At, Typed
<1>2. q \in Request /\ q.key \in Key /\ q.key.id = CheckedPlaylist(q)
  BY <1>1 DEF Underway, WellAsked
<1>3. req'[r] = Idle \/ (q.op = "delete" /\ req'[r] = To(q, "deleteRow"))
  BY DEF RemoveImage, Fails, Answer, Go, To, Typed, TypeOK
<1>4. q.op = "delete" /\ req'[r].id = q.id
  BY <1>2, <1>3, IdleTypes, Moved DEF Places
<1>5. images' = images \ {q.key}
  <2>1. Go(r, To(q, "deleteRow")) \/ req'[r] = Idle
    BY DEF RemoveImage, Fails, Answer, To, Typed, TypeOK
  <2>2. CASE Fails(r, q)
    BY <2>2, IdleTypes DEF Fails, Answer, Typed, TypeOK
  <2>3. QED
    BY <2>2 DEF RemoveImage
<1>6. k \in images /\ k # q.key /\ k.id = q.key.id
  BY <1>2, <1>4, <1>5 DEF CheckedPlaylist, Swapped
<1>7. Shown(k) /\ Shown(q.key)
  BY <1>1, <1>6, KnownIsShown DEF Known, At
<1>8. k \in Key
  BY <1>6 DEF Typed, TypeOK
<1>9. k.name # q.key.name
  BY <1>2, <1>6, <1>8 DEF Key
<1>10. QED
  BY <1>6, <1>7, <1>9 DEF Shown

\* The first playlist starts with its cover.
LEMMA ImageInit ==
    ASSUME Init
    PROVE  ImageInv
<1>1. PICK row \in Founding :
          /\ playlists = [p \in Ids |-> IF p = 1 THEN row ELSE NoRow]
          /\ images = {[id |-> 1, name |-> row.name]} \intersect Key
  BY DEF Init
<1>2. req = [r \in Requests |-> Idle]
  BY DEF Init
<1>3. HeldInv /\ LeftInv
  BY <1>2, IdleTypes DEF HeldInv, LeftInv, At
<1>4. ASSUME NEW k \in images
      PROVE  k.id \in strayed \/ (Exists(k.id) /\ playlists[k.id].name = k.name)
  <2>1. k = [id |-> 1, name |-> row.name] /\ k \in Key /\ 1 \in Ids
    BY <1>1, <1>4, ConstantsAssumption DEF Ids
  <2>2. k.id = 1 /\ k.name = row.name /\ row.name \in Names /\ playlists[1] = row
    BY <1>1, <2>1 DEF Key
  <2>3. row # NoRow
    BY <2>2, ConstantsAssumption DEF NoRow
  <2>4. QED
    BY <2>1, <2>2, <2>3 DEF Exists, GetPlaylist
<1>5. QED
  BY <1>3, <1>4 DEF ImageInv, ImagesAreShown

\* Every image after a step was there before, or is the one that a request held.
LEMMA ImagesKnown ==
    ASSUME Typed, NEW r \in Requests, Begins(r) \/ Continues(r)
    PROVE  /\ strayed \subseteq strayed'
           /\ \A k \in images' : Known(k)
           /\ \A k \in images' \ images : PutImage(r) /\ k = req[r].key
<1>1. ASSUME UNCHANGED images
      PROVE  \A k \in images' : Known(k) /\ k \in images
  BY <1>1 DEF Known
<1>2. CASE Begins(r)
  <2>1. PICK q : Opens(r, q)
    BY <1>2, Opening DEF Typed, TypeOK
  <2>2. UNCHANGED <<images, strayed>>
    BY <2>1, Looking DEF Opens, CreatePlaylist, Looks, data
  <2>3. QED
    BY <1>1, <2>2
<1>3. CASE Continues(r)
  <2>1. CASE PutImage(r)
    BY <2>1 DEF PutImage, Known
  <2>2. CASE ~PutImage(r)
    <3>1. images' \subseteq images /\ strayed \subseteq strayed'
      BY <1>3, <2>2, Looking DEF Continues, Looks, data, UpdatePlaylist, AddTrackToPlaylist,
         DeleteTrackFromPlaylist, SharePlaylistWithMany, RevokePlaylistAccess, DeletePlaylist,
         RemoveImage
    <3>2. QED
      BY <3>1 DEF Known
  <2>3. QED
    BY <2>1, <2>2
<1>4. QED
  BY <1>2, <1>3

\* Every step keeps images and keys shown, and deletes no row before its image.
LEMMA ImageStep ==
    ASSUME Typed, ImageInv, [Next]_vars
    PROVE  ImageInv'
<1>1. CASE UNCHANGED vars
  BY <1>1 DEF vars, data, ImageInv, ImagesAreShown, HeldInv, LeftInv, Shown, At, Exists, GetPlaylist
<1>2. CASE Next
  <2>1. PICK r \in Requests : Begins(r) \/ Continues(r)
    BY <1>2 DEF Next
  <2>2. /\ strayed \subseteq strayed'
        /\ \A k \in images' : Known(k)
        /\ \A k \in images' \ images : PutImage(r) /\ k = req[r].key
    BY <2>1, ImagesKnown
  <2>3. ImagesAreShown'
    <3>1. \A k \in images' : Shown(k)'
      BY <2>1, <2>2, KnownStaysShown
    <3>2. QED
      BY <3>1 DEF ImagesAreShown, Shown
  <2>4. ASSUME NEW s \in Requests, At(s, "image")', NEW k, k = req'[s].key
        PROVE  Shown(k)'
    <3>1. CASE s # r
      <4>1. req'[s] = req[s]
        BY <2>1, <3>1, Reaches
      <4>2. Known(k)
        BY <2>4, <4>1 DEF Known, At
      <4>3. QED
        BY <2>1, <4>1, <4>2, KnownStaysShown
    <3>2. CASE s = r
      <4>1. req'[r].at = "image"
        BY <2>4, <3>2 DEF At
      <4>2. ~RemoveImage(r)
        BY <4>1, IdleTypes, RemoveLeads DEF Typed, TypeOK, Leads
      <4>3. PICK q : /\ WellAsked(q) /\ q.op \in CoverOps \union {"getCover"}
                     /\ LoadArtworkOwner(r, q)
        BY <2>1, <4>1, <4>2, Reaches
      <4>4. Shown(k)
        BY <2>4, <3>2, <4>1, <4>3, Loaded
      <4>5. QED
        BY <3>2, <4>3, <4>4, Looking, RowsStay, ShownAlike
    <3>3. QED
      BY <3>1, <3>2
  <2>5. HeldInv'
    BY <2>4 DEF HeldInv, Shown
  <2>6. ASSUME NEW s \in Requests, At(s, "deleteRow")', NEW k \in images', k.id = req'[s].id
        PROVE  k.id \in strayed'
    <3>1. CASE s # r
      <4>1. req'[s] = req[s] /\ At(s, "deleteRow")
        BY <2>1, <2>6, <3>1, Reaches DEF At
      <4>2. CASE k \in images
        BY <2>2, <2>6, <4>1, <4>2 DEF ImageInv, LeftInv
      <4>3. CASE k \notin images
        <5>1. PutImage(r) /\ k = req[r].key
          BY <2>2, <2>6, <4>3
        <5>2. Deleters(k.id) # {}
          BY <2>6, <4>1 DEF Deleters
        <5>3. QED
          BY <4>3, <2>6, <5>1, <5>2 DEF PutImage
      <4>4. QED
        BY <4>2, <4>3
    <3>2. CASE s = r
      <4>1. req'[r].at = "deleteRow"
        BY <2>6, <3>2 DEF At
      <4>2. CASE RemoveImage(r)
        BY <2>2, <2>6, <3>2, <4>1, <4>2, Removed
      <4>3. CASE \E q : /\ WellAsked(q) /\ q.op \in CoverOps \union {"getCover"}
                        /\ LoadArtworkOwner(r, q)
        <5>1. PICK q : WellAsked(q) /\ LoadArtworkOwner(r, q)
          BY <4>3
        <5>2. k.id = q.id /\ ~Exists(q.id)
          BY <2>6, <3>2, <4>1, <5>1, Loaded
        <5>3. k \in images
          BY <2>6, <5>1, Looking DEF Looks, data
        <5>4. Shown(k)
          BY <5>3, KnownIsShown DEF Known
        <5>5. QED
          BY <2>2, <5>2, <5>4 DEF Shown
      <4>4. QED
        BY <2>1, <4>1, <4>2, <4>3, Reaches
    <3>3. QED
      BY <3>1, <3>2
  <2>7. LeftInv'
    BY <2>6 DEF LeftInv
  <2>8. QED
    BY <2>3, <2>5, <2>7 DEF ImageInv
<1>3. QED
  BY <1>1, <1>2

\* An image in the bucket is the cover that its playlist shows, but for the playlists that
\* were renamed or deleted with a cover there or on its way: an image is stored under the
\* key that was read before, and deleting a playlist removes its image first.
THEOREM CoversAreShown == Spec => []ImagesAreShown
<1>1. Init => Typed /\ ImageInv
  BY TypedInit, ImageInit
<1>2. Typed /\ ImageInv /\ [Next]_vars => (Typed /\ ImageInv)'
  BY TypedStep, ImageStep
<1>3. Typed /\ ImageInv => ImagesAreShown
  BY DEF ImageInv
<1>4. QED
  BY <1>1, <1>2, <1>3, PTL DEF Spec

-------------------------------------------------------------------------------
(* What the answers say.                                                   *)

Tells == reply'.status \in {200, 201} => \A q : q = reply'.request => DoneIsTrue(q)'

\* A step that goes on answers nothing.
LEMMA TellsNothing ==
    ASSUME NEW r, NEW m, Go(r, m)
    PROVE  Tells
BY DEF Go, NoReply, Tells

\* Reading, and what changes only covers by a swapped check, reports nothing done.
LEMMA NothingToTell ==
    ASSUME NEW q, q.op \in {"create", "get", "list", "deleteCover", "getCover"}
    PROVE  DoneIsTrue(q)'
BY DEF DoneIsTrue

\* An answer is true when what it reports is done.
LEMMA TellsDone ==
    ASSUME NEW r, NEW q, NEW err, Answer(r, q, err), DoneIsTrue(q)'
    PROVE  Tells
BY DEF Answer, Tells

\* An error is told as one, but for that of a cover once its playlist is created.
LEMMA TellsRefusal ==
    ASSUME NEW r, NEW q \in Request, q.op # "none", NEW err, err # "ok", Answer(r, q, err)
    PROVE  Tells
<1>1. CASE q.op = "create"
  BY <1>1, NothingToTell, TellsDone
<1>2. CASE q.op # "create"
  <2>1. q.op \in Ops \ {"none"} /\ reply'.status = Status(q.op, err)
    BY <1>2 DEF Answer, Request
  <2>2. reply'.status \notin {200, 201}
    BY <2>1, StatusType
  <2>3. QED
    BY <2>2 DEF Tells
<1>3. QED
  BY <1>1, <1>2

\* A failure is told as one.
LEMMA FailsTells ==
    ASSUME NEW r, NEW q \in Request, q.op # "none", Fails(r, q)
    PROVE  Tells
BY TellsRefusal DEF Fails

\* A statement is answered when it is done, or not at all.
LEMMA DoneTells ==
    ASSUME NEW r, NEW q \in Request, q.op # "none", Done(r, q), DoneIsTrue(q)'
    PROVE  Tells
BY TellsDone DEF Done, Fails

\* The checks refuse.
LEMMA CheckTells ==
    ASSUME NEW r, NEW q \in Request, q.op # "none", CheckOwner(r, q)
    PROVE  Tells
BY TellsNothing, TellsRefusal, FailsTells DEF CheckOwner

\* A playlist that is not there is told as such.
LEMMA LoadTells ==
    ASSUME NEW r, NEW q \in Request, q.op # "none", LoadArtworkOwner(r, q)
    PROVE  Tells
BY TellsNothing, TellsRefusal, FailsTells DEF LoadArtworkOwner

\* A request that begins.
LEMMA OpeningTells ==
    ASSUME NEW r, NEW q, Opens(r, q)
    PROVE  Tells
<1>1. q \in Request /\ q.op # "none"
  BY DEF Opens, WellAsked
<1>2. CASE CheckOwner(r, q)
  BY <1>1, <1>2, CheckTells
<1>3. CASE q.op = "create" /\ CreatePlaylist(r, q)
  <2>1. (\E m : Go(r, m)) \/ \E err : Answer(r, q, err)
    BY <1>3 DEF CreatePlaylist, Fails
  <2>2. QED
    BY <1>3, <2>1, TellsNothing, NothingToTell, TellsDone
<1>4. CASE GetUserPlaylists(r, q)
  BY <1>1, <1>4, TellsNothing, FailsTells DEF GetUserPlaylists
<1>5. CASE LoadArtworkOwner(r, q)
  BY <1>1, <1>5, LoadTells
<1>6. QED
  BY <1>2, <1>3, <1>4, <1>5 DEF Opens

\* The other checks refuse likewise.
LEMMA PermissionTells ==
    ASSUME PlaceInv, NEW r \in Requests, CheckPermission(r) \/ CheckAccess(r)
    PROVE  Tells
<1>1. req[r] \in Request /\ req[r].op # "none"
  BY Current DEF CheckPermission, CheckAccess, At, Underway, WellAsked
<1>2. QED
  BY <1>1, TellsNothing, TellsRefusal, FailsTells DEF CheckPermission, CheckAccess

\* Reading a playlist, a list or an image.
LEMMA ReadTells ==
    ASSUME PlaceInv, NEW r \in Requests,
           ReadPlaylist(r) \/ ReadPublic(r) \/ ReadShared(r) \/ GetImage(r)
    PROVE  Tells
<1>1. Underway(req[r]) /\ req[r].op \in {"get", "list", "getCover"} /\ req[r] \in Request
  BY Current DEF ReadPlaylist, ReadPublic, ReadShared, GetImage, At, Underway, OpAt, WellAsked
<1>2. CASE ReadShared(r)
  <2> DEFINE q == req[r]
             S == GetSharedPlaylists(q.user)
             m == [q EXCEPT !.shared = S, !.global = @ \ S]
  <2>1. S \in SUBSET Ids
    BY DEF GetSharedPlaylists
  <2>2. Answer(r, m, "ok") \/ Answer(r, q, "db")
    BY <1>2 DEF ReadShared, Fails
  <2> HIDE DEF S
  <2>3. m.op = q.op
    BY <1>1, <2>1, SharedTaken
  <2> HIDE DEF m
  <2>4. PICK x, y : x = m /\ y = q /\ (Answer(r, x, "ok") \/ Answer(r, y, "db"))
    BY <2>2
  <2>5. QED
    BY <1>1, <2>3, <2>4, NothingToTell, TellsDone
<1>3. CASE ReadPlaylist(r) \/ ReadPublic(r) \/ GetImage(r)
  <2>1. PICK q : q = req[r]
    OBVIOUS
  <2>2. (\E m : Go(r, m)) \/ \E err : Answer(r, q, err)
    BY <1>3, <2>1 DEF ReadPlaylist, ReadPublic, GetImage, Fails
  <2>3. QED
    BY <1>1, <2>1, <2>2, TellsNothing, NothingToTell, TellsDone
<1>4. QED
  BY <1>2, <1>3

\* The row has what was asked when its update is answered.
LEMMA UpdateTells ==
    ASSUME Typed, NEW r \in Requests, UpdatePlaylist(r)
    PROVE  Tells
<1>1. PICK q : q = req[r]
  OBVIOUS
<1>2. q \in Request /\ q.op = "update" /\ q.public \in BOOLEAN
  BY <1>1 DEF UpdatePlaylist, Typed, TypeOK, Request
<1>3. CASE (\E err : err # "ok" /\ Answer(r, q, err)) \/ Fails(r, q)
  BY <1>2, <1>3, TellsRefusal, FailsTells
<1>4. CASE /\ Exists(q.id) /\ Done(r, q)
           /\ playlists' = [playlists EXCEPT ![q.id].name = q.name, ![q.id].public = q.public]
  <2>1. q.id \in Ids /\ playlists[q.id] \in Row
    BY <1>4, RowExists DEF Typed
  <2>2. playlists'[q.id] = [playlists[q.id] EXCEPT !.name = q.name, !.public = q.public]
    BY <1>4, <2>1 DEF Typed, TypeOK, Row
  <2>3. playlists'[q.id].name = q.name
    BY <2>1, <2>2 DEF Row
  <2>4. playlists'[q.id].public = q.public
    BY <2>1, <2>2 DEF Row
  <2>5. DoneIsTrue(q)'
    BY <1>2, <2>3, <2>4 DEF DoneIsTrue
  <2>6. QED
    BY <1>2, <1>4, <2>5, DoneTells
<1>5. QED
  BY <1>1, <1>3, <1>4 DEF UpdatePlaylist

\* The track is in the playlist, or out of it.
LEMMA EntriesTell ==
    ASSUME Typed, NEW r \in Requests, AddTrackToPlaylist(r) \/ DeleteTrackFromPlaylist(r)
    PROVE  Tells
<1>1. PICK q : q = req[r]
  OBVIOUS
<1>2. q \in Request /\ q.op \in TrackOps
  BY <1>1 DEF AddTrackToPlaylist, DeleteTrackFromPlaylist, TrackOps, Typed, TypeOK
<1>3. CASE (\E err : err # "ok" /\ Answer(r, q, err)) \/ Fails(r, q)
  BY <1>2, <1>3, TellsRefusal, FailsTells DEF TrackOps
<1>4. CASE /\ q.op \in {"addTrack", "ensureTrack"} /\ <<q.id, q.track>> \in entries'
           /\ (\E err : Answer(r, q, err)) \/ Done(r, q)
  <2>1. DoneIsTrue(q)'
    BY <1>4 DEF DoneIsTrue
  <2>2. QED
    BY <1>2, <1>4, <2>1, TellsDone, DoneTells DEF TrackOps
<1>5. CASE /\ q.op = "deleteTrack" /\ <<q.id, q.track>> \notin entries' /\ Done(r, q)
  <2>1. DoneIsTrue(q)'
    BY <1>5 DEF DoneIsTrue
  <2>2. QED
    BY <1>2, <1>5, <2>1, DoneTells
<1>6. QED
  BY <1>1, <1>3, <1>4, <1>5 DEF AddTrackToPlaylist, DeleteTrackFromPlaylist

\* All the users have their share, or none of them has one.
LEMMA SharesTell ==
    ASSUME Typed, NEW r \in Requests, SharePlaylistWithMany(r) \/ RevokePlaylistAccess(r)
    PROVE  Tells
<1>1. PICK q : q = req[r]
  OBVIOUS
<1>2. q \in Request /\ q.op \in {"share", "revoke"}
  BY <1>1 DEF SharePlaylistWithMany, RevokePlaylistAccess, Typed, TypeOK
<1>3. CASE (\E err : err # "ok" /\ Answer(r, q, err)) \/ Fails(r, q)
  BY <1>2, <1>3, TellsRefusal, FailsTells
<1>4. CASE /\ q.op = "share" /\ Done(r, q)
           /\ shares' = shares \union [playlist : {q.id}, user : q.with, write : {q.write}]
  <2>1. DoneIsTrue(q)'
    BY <1>4 DEF DoneIsTrue
  <2>2. QED
    BY <1>2, <1>4, <2>1, DoneTells
<1>5. CASE /\ q.op = "revoke" /\ Done(r, q)
           /\ shares' = {s \in shares : ~(s.playlist = q.id /\ s.user \in q.with)}
  <2>1. q.with \intersect SharedWith(q.id)' = {}
    BY <1>5 DEF SharedWith
  <2>2. DoneIsTrue(q)'
    BY <1>5, <2>1 DEF DoneIsTrue
  <2>3. QED
    BY <1>2, <1>5, <2>2, DoneTells
<1>6. QED
  BY <1>1, <1>3, <1>4, <1>5 DEF SharePlaylistWithMany, RevokePlaylistAccess

\* The row is gone.
LEMMA DeleteTells ==
    ASSUME Typed, NEW r \in Requests, DeletePlaylist(r)
    PROVE  Tells
<1>1. PICK q : q = req[r]
  OBVIOUS
<1>2. Underway(q) /\ q.op = "delete" /\ q \in Request /\ q.id \in Ids
  BY <1>1, Current DEF DeletePlaylist, At, Underway, OpAt, WellAsked, Typed
<1>3. CASE Fails(r, q)
  BY <1>2, <1>3, FailsTells
<1>4. CASE Done(r, q) /\ playlists' = [playlists EXCEPT ![q.id] = NoRow]
  <2>1. playlists'[q.id] = NoRow
    BY <1>2, <1>4 DEF Typed, TypeOK
  <2>2. DoneIsTrue(q)'
    BY <1>2, <2>1 DEF DoneIsTrue, Exists, GetPlaylist
  <2>3. QED
    BY <1>2, <1>4, <2>2, DoneTells
<1>5. QED
  BY <1>1, <1>3, <1>4 DEF DeletePlaylist

\* The cover is stored under the key that the playlist shows.
LEMMA CoverTells ==
    ASSUME Typed, ImageInv, NEW r \in Requests, PutImage(r) \/ RemoveImage(r)
    PROVE  Tells
<1>1. PICK q : q = req[r]
  OBVIOUS
<1>2. Underway(q) /\ q.at = "image" /\ q \in Request /\ q.op \in CoverOps
  BY <1>1, Current DEF PutImage, RemoveImage, At, Underway, WellAsked, CoverOps, Typed
<1>3. q.op # "none"
  BY <1>2 DEF CoverOps
<1>4. CASE (\E err : err # "ok" /\ Answer(r, q, err)) \/ Fails(r, q)
  BY <1>2, <1>3, <1>4, TellsRefusal, FailsTells
<1>5. CASE \E m : Go(r, m)
  BY <1>5, TellsNothing
<1>6. CASE q.op \in {"create", "deleteCover"} /\ ((\E err : Answer(r, q, err)) \/ Done(r, q))
  BY <1>2, <1>3, <1>6, NothingToTell, TellsDone, DoneTells
<1>7. CASE PutImage(r) /\ q.op = "uploadCover" /\ Done(r, q) /\ images' = images \union {q.key}
  <2>1. Shown(q.key)
    BY <1>1, <1>2, KnownIsShown DEF Known, At
  <2>2. q.key \in Key /\ q.key.id = q.id
    BY <1>2, <1>7 DEF Underway, CheckedPlaylist, Swapped
  <2>3. playlists' = playlists /\ strayed \subseteq strayed'
    BY <1>7, RowsStay
  <2>4. q.key = [id |-> q.key.id, name |-> q.key.name]
    BY <2>2 DEF Key
  <2>5. q.id \in strayed' \/ [id |-> q.id, name |-> playlists'[q.id].name] \in images'
    BY <1>7, <2>1, <2>2, <2>3, <2>4 DEF Shown
  <2>6. DoneIsTrue(q)'
    BY <1>7, <2>5 DEF DoneIsTrue
  <2>7. QED
    BY <1>2, <1>3, <1>7, <2>6, DoneTells
<1>8. QED
  BY <1>1, <1>4, <1>5, <1>6, <1>7 DEF PutImage, RemoveImage

\* What is answered to have been done is so, whatever the other requests did between its
\* steps: the statement that writes finds the row, the entry or the share as it is then.
THEOREM RepliesAreTrue == Spec => AnswersAreTrue
<1>1. ASSUME Typed, ImageInv, [Next]_vars
      PROVE  [reply'.status \in {200, 201} => DoneIsTrue(reply.request)']_vars
  <2>1. CASE Next
    <3>1. PICK r \in Requests : Begins(r) \/ Continues(r)
      BY <2>1 DEF Next
    <3>2. ASSUME Begins(r) PROVE Tells
      BY <1>1, <3>2, Opening, OpeningTells DEF Typed, TypeOK
    <3>3. ASSUME CheckNewCover(r) \/ LoadForImage(r) PROVE Tells
      <4>1. req[r] \in Request /\ req[r].op # "none"
        BY <1>1, <3>3, Current DEF CheckNewCover, LoadForImage, At, Underway, WellAsked, Typed
      <4>2. QED
        BY <3>3, <4>1, CheckTells, LoadTells DEF CheckNewCover, LoadForImage
    <3>4. Tells
      BY <1>1, <3>1, <3>2, <3>3, PermissionTells, ReadTells, UpdateTells, EntriesTell, SharesTell,
         DeleteTells, CoverTells DEF Continues, Typed
    <3>5. QED
      BY <3>4 DEF Tells, DoneIsTrue
  <2>2. CASE UNCHANGED vars
    BY <2>2
  <2>3. QED
    BY <1>1, <2>1, <2>2
<1>2. Init => Typed /\ ImageInv
  BY TypedInit, ImageInit
<1>3. Typed /\ ImageInv /\ [Next]_vars => (Typed /\ ImageInv)'
  BY TypedStep, ImageStep
<1>4. QED
  BY <1>1, <1>2, <1>3, PTL DEF Spec, AnswersAreTrue

-------------------------------------------------------------------------------
(* Permissions.  A request behind its checks has had the rights that they  *)
(* are for.  Deleting a cover checks a playlist that is not the one it is  *)
(* asked about, and is left out here.                                      *)

Behind == {"access", "write", "load", "image", "deleteRow", "row", "users", "tracks"}
Guarded == CheckedOps \ {"deleteCover"}

RightInv ==
    \A r \in Requests :
       req[r].op \in Guarded /\ req[r].at \in Behind => "playlist" \in allowed[r]
AccessInv ==
    \A r \in Requests :
       req[r].op \in {"addTrack", "ensureTrack"} /\ At(r, "write") => "track" \in allowed[r]

PermInv == RightInv /\ AccessInv

\* What a user may do depends on the data alone.
LEMMA SameRights ==
    ASSUME UNCHANGED data, NEW q
    PROVE  /\ MayAct(q) => MayAct(q)'
           /\ CanUserAccessTrack(q.user, q.track) => CanUserAccessTrack(q.user, q.track)'
BY DEF data, MayAct, GetPlaylist, UserCanReadPlaylist, UserCanWritePlaylist, SharedWith, Exists,
       CanUserAccessTrack

\* A check that lets a request on, whichever it is.
LEMMA OwnerPasses ==
    ASSUME Typed, NEW r \in Requests, NEW q, WellAsked(q), q.op \in Guarded, CheckOwner(r, q),
           req'[r].at \in Behind
    PROVE  MayAct(q) /\ req'[r] = To(q, AfterCheck(q.op)) /\ UNCHANGED data
<1>1. q \in Request /\ CheckedPlaylist(q) = q.id /\ CheckedUser(q) = q.user
  BY DEF WellAsked, Guarded, CheckedOps, TrackOps, CheckedPlaylist, CheckedUser, Swapped
<1>2. ASSUME NEW err, Answer(r, q, err) PROVE FALSE
  BY <1>2, IdleTypes DEF Answer, Typed, TypeOK, Behind
<1>3. ASSUME Go(r, To(q, "permission")) PROVE FALSE
  <2>1. req'[r] = To(q, "permission")
    BY <1>3 DEF Go, Typed, TypeOK
  <2>2. To(q, "permission").at = "permission"
    BY <1>1, Moved DEF Places
  <2>3. QED
    BY <2>1, <2>2 DEF Behind
<1>4. /\ Exists(q.id) /\ playlists[q.id].owner = q.user
      /\ Go(r, To(q, AfterCheck(q.op)))
      /\ UNCHANGED data
  BY <1>1, <1>2, <1>3 DEF CheckOwner, Fails, To
<1>5. q.id \in Ids
  BY <1>4 DEF Exists, GetPlaylist
<1>6. MayAct(q)
  BY <1>4, <1>5 DEF MayAct, GetPlaylist, UserCanReadPlaylist, UserCanWritePlaylist
<1>7. QED
  BY <1>4, <1>6 DEF Go, Typed, TypeOK

\* The same for a user who is not the owner.
LEMMA OtherPasses ==
    ASSUME Typed, NEW r \in Requests, NEW q, q = req[r], q.op \in Guarded, CheckPermission(r),
           req'[r].at \in Behind
    PROVE  MayAct(q) /\ req'[r] = To(q, AfterCheck(q.op)) /\ UNCHANGED data
<1>1. Underway(q) /\ q.at = "permission"
  BY Current DEF CheckPermission, At, Typed
<1>2. q \in Request /\ CheckedPlaylist(q) = q.id /\ CheckedUser(q) = q.user /\ q.op \notin OwnerOps
  BY <1>1 DEF Underway, WellAsked, OpAt, Guarded, CheckedOps, TrackOps, CheckedPlaylist,
              CheckedUser, Swapped, OwnerOps
<1>3. ASSUME NEW err, Answer(r, q, err) PROVE FALSE
  BY <1>3, IdleTypes DEF Answer, Typed, TypeOK, Behind
<1>4. /\ IF q.op \in ReadOps THEN UserCanReadPlaylist(q.user, q.id)
                             ELSE UserCanWritePlaylist(q.user, q.id)
      /\ Go(r, To(q, AfterCheck(q.op)))
      /\ UNCHANGED data
  BY <1>2, <1>3 DEF CheckPermission, Fails, To
<1>5. MayAct(q)
  BY <1>2, <1>4 DEF MayAct
<1>6. QED
  BY <1>4, <1>5 DEF Go, Typed, TypeOK

\* The check of the right to the track.
LEMMA AccessPasses ==
    ASSUME Typed, NEW r \in Requests, NEW q, q = req[r], CheckAccess(r), req'[r].at = "write"
    PROVE  /\ CanUserAccessTrack(q.user, q.track) /\ q.track \in Tracks
           /\ req'[r] = To(q, "write") /\ UNCHANGED data
<1>1. Underway(q) /\ q.at = "access"
  BY Current DEF CheckAccess, At, Typed
<1>2. q.track \in Tracks
  BY <1>1 DEF Underway, WellAsked, OpAt, TrackOps
<1>3. ASSUME NEW err, Answer(r, q, err) PROVE FALSE
  BY <1>3, IdleTypes DEF Answer, Typed, TypeOK
<1>4. CanUserAccessTrack(q.user, q.track) /\ Go(r, To(q, "write")) /\ UNCHANGED data
  BY <1>3 DEF CheckAccess, Fails, To
<1>5. QED
  BY <1>2, <1>4 DEF Go, Typed, TypeOK

\* What is recorded of a request that goes on.
LEMMA Recorded ==
    ASSUME RecordRights, NEW r \in Requests, NEW m, m = req'[r], m # Idle
    PROVE  allowed[r] \subseteq allowed'[r] /\ Held(m)' \subseteq allowed'[r]
<1>1. allowed'[r] = allowed[r] \union Held(req[r])'
  BY DEF RecordRights
<1>2. Held(req[r])' = Held(m)'
  BY DEF Held, MayAct, GetPlaylist, UserCanReadPlaylist, UserCanWritePlaylist, SharedWith,
         Exists, CanUserAccessTrack
<1>3. QED
  BY <1>1, <1>2

\* A right that the check finds is recorded as it finds it.
LEMMA HeldRights ==
    ASSUME NEW q \in Request, NEW at \in Places, UNCHANGED data
    PROVE  /\ MayAct(q) => "playlist" \in Held(To(q, at))'
           /\ CanUserAccessTrack(q.user, q.track) /\ q.track \in Tracks
                 => "track" \in Held(To(q, at))'
<1>1. PICK m : m = To(q, at)
  OBVIOUS
<1>2. m.op = q.op /\ m.user = q.user /\ m.id = q.id /\ m.track = q.track
  BY <1>1, Moved
<1>3. MayAct(q) => MayAct(m)
  BY <1>2 DEF MayAct
<1>4. MayAct(q) => "playlist" \in Held(m)'
  BY <1>3, SameRights DEF Held
<1>5. CanUserAccessTrack(q.user, q.track) /\ q.track \in Tracks => "track" \in Held(m)'
  <2>1. CanUserAccessTrack(m.user, m.track) => CanUserAccessTrack(m.user, m.track)'
    BY SameRights
  <2>2. QED
    BY <1>2, <2>1, ConstantsAssumption DEF Held
<1>6. QED
  BY <1>1, <1>4, <1>5

\* What a step leads to, for the request that takes it.
LEMMA LedTo ==
    ASSUME Typed, NEW r \in Requests, NEW q, NEW A, Leads(r, q, A), req'[r] # Idle
    PROVE  Follows(q, req'[r]) /\ req'[r].at \in A
BY DEF Leads, Typed, TypeOK

\* A request that comes behind its check has the right that the check is for.
LEMMA ChecksPass ==
    ASSUME Typed, NEW r \in Requests, Begins(r) \/ Continues(r), NEW m, m = req'[r],
           m.op \in Guarded, m.at \in Behind,
           ~(Continues(r) /\ req[r].at \in Behind)
    PROVE  "playlist" \in Held(m)' /\ m.at = AfterCheck(m.op)
<1> USE DEF Typed
<1>1. m # Idle
  BY IdleTypes DEF Guarded, CheckedOps, TrackOps
<1>2. ASSUME NEW q, WellAsked(q), q.op \in Guarded,
             MayAct(q) /\ m = To(q, AfterCheck(q.op)) /\ UNCHANGED data
      PROVE  "playlist" \in Held(m)' /\ m.at = AfterCheck(m.op)
  <2>1. AfterCheck(q.op) \in Places /\ q \in Request
    BY <1>2, BehindTheCheck DEF Guarded, Places, WellAsked
  <2>2. m.at = AfterCheck(q.op) /\ m.op = q.op
    BY <1>2, <2>1, Moved
  <2>3. "playlist" \in Held(m)'
    BY <1>2, <2>1, HeldRights
  <2>4. QED
    BY <2>2, <2>3
<1>3. CASE Begins(r)
  <2>1. PICK q : Opens(r, q)
    BY <1>3, Opening DEF TypeOK
  <2>2. q.op = m.op
    BY <1>1, <1>3, <2>1, BeginLeads, LedTo DEF Follows
  <2>3. CheckOwner(r, q) /\ WellAsked(q)
    BY <2>1, <2>2 DEF Opens, Guarded, CheckedOps, TrackOps
  <2>4. QED
    BY <1>2, <2>2, <2>3, OwnerPasses
<1>4. CASE Continues(r)
  <2>1. PICK q : q = req[r]
    OBVIOUS
  <2>2. Follows(q, m)
    BY <1>1, <1>4, <2>1, ContinueLeads, LedTo
  <2>3. q.op = m.op /\ q.at \notin Behind
    BY <1>4, <2>1, <2>2 DEF Follows
  <2>4. q.at # "idle"
    BY <1>4, <2>1 DEF Continues, CheckNewCover, CheckPermission, CheckAccess, UpdatePlaylist,
       AddTrackToPlaylist, DeleteTrackFromPlaylist, SharePlaylistWithMany, RevokePlaylistAccess,
       DeletePlaylist, LoadForImage, PutImage, RemoveImage, GetImage, ReadPlaylist, ReadPublic,
       ReadShared, At
  <2>5. Underway(q)
    BY <2>1, <2>4, Current
  <2>6. q.at = "permission"
    BY <2>3, <2>5 DEF Underway, OpAt, Guarded, CheckedOps, TrackOps, Behind
  <2>7. CheckPermission(r)
    BY <1>4, <2>1, <2>6 DEF Continues, CheckNewCover, CheckAccess, UpdatePlaylist,
       AddTrackToPlaylist, DeleteTrackFromPlaylist, SharePlaylistWithMany, RevokePlaylistAccess,
       DeletePlaylist, LoadForImage, PutImage, RemoveImage, GetImage, ReadPlaylist, ReadPublic,
       ReadShared, At
  <2>8. QED
    BY <1>2, <2>1, <2>3, <2>5, <2>7, OtherPasses DEF Underway
<1>5. QED
  BY <1>3, <1>4

\* A track is added only by way of the check of the right to the track.
LEMMA AccessPass ==
    ASSUME Typed, NEW r \in Requests, Begins(r) \/ Continues(r), NEW m, m = req'[r],
           m.op \in {"addTrack", "ensureTrack"}, m.at = "write"
    PROVE  "track" \in Held(m)'
<1> USE DEF Typed
<1>1. m # Idle /\ m.op \in Guarded /\ m.at \in Behind
  BY IdleTypes DEF Guarded, CheckedOps, TrackOps, Behind
<1>2. AfterCheck(m.op) = "access"
  BY DEF AfterCheck
<1>3. Continues(r) /\ req[r].at \in Behind
  BY <1>1, <1>2, ChecksPass
<1>4. CheckAccess(r)
  <2>1. ASSUME NEW A, Leads(r, req[r], A), "write" \notin A PROVE FALSE
    BY <1>1, <2>1, LedTo
  <2>2. ~CheckPermission(r) /\ ~CheckNewCover(r)
    BY <1>3 DEF CheckPermission, CheckNewCover, At, Behind
  <2>3. ~LoadForImage(r)
    <3>1. ASSUME LoadForImage(r) PROVE FALSE
      <4>1. Underway(req[r]) /\ req[r].op \in CoverOps /\ LoadArtworkOwner(r, req[r])
        BY <3>1, Current DEF LoadForImage, At, Underway, OpAt
      <4>2. QED
        BY <2>1, <4>1, LoadLeads DEF Underway
    <3>2. QED
      BY <3>1
  <2>4. QED
    BY <1>3, <2>1, <2>2, <2>3, RemoveLeads, ReadLeads, PublicLeads, SharedLeads, WriteLeads
       DEF Continues
<1>5. PICK q : q = req[r]
  OBVIOUS
<1>6. /\ CanUserAccessTrack(q.user, q.track) /\ q.track \in Tracks
      /\ m = To(q, "write") /\ UNCHANGED data
  BY <1>4, <1>5, AccessPasses
<1>7. QED
  BY <1>5, <1>6, HeldRights DEF TypeOK, Places

\* At the start no request has had a right, or needs one.
LEMMA PermInit ==
    ASSUME Init
    PROVE  PermInv
BY IdleTypes DEF Init, PermInv, RightInv, AccessInv, Guarded, CheckedOps, TrackOps

\* Every step keeps the rights of the requests behind their checks.
LEMMA PermStep ==
    ASSUME Typed, PermInv, [Next]_vars
    PROVE  PermInv'
<1>1. CASE UNCHANGED vars
  BY <1>1 DEF vars, PermInv, RightInv, AccessInv, At
<1>2. CASE Next
  <2>1. PICK r \in Requests : Begins(r) \/ Continues(r)
    BY <1>2 DEF Next
  <2>2. RecordRights
    BY <1>2 DEF Next
  <2>3. ASSUME NEW s \in Requests, NEW m, m = req'[s], m # Idle
        PROVE  allowed[s] \subseteq allowed'[s] /\ Held(m)' \subseteq allowed'[s]
    BY <2>2, <2>3, Recorded
  <2>4. ASSUME NEW s \in Requests, NEW m, m = req'[s], m.op \in Guarded, m.at \in Behind
        PROVE  "playlist" \in allowed'[s]
    <3>1. m # Idle
      BY <2>4, IdleTypes DEF Guarded, CheckedOps, TrackOps
    <3>2. CASE s # r
      <4>1. req'[s] = req[s]
        BY <2>1, <3>2, Reaches
      <4>2. QED
        BY <2>3, <2>4, <3>1, <4>1 DEF PermInv, RightInv
    <3>3. CASE s = r /\ Continues(r) /\ req[r].at \in Behind
      <4>1. Follows(req[r], m)
        BY <2>4, <3>1, <3>3, ContinueLeads, LedTo
      <4>2. "playlist" \in allowed[r]
        BY <2>4, <3>3, <4>1 DEF PermInv, RightInv, Follows
      <4>3. QED
        BY <2>3, <2>4, <3>1, <3>3, <4>2
    <3>4. CASE s = r /\ ~(Continues(r) /\ req[r].at \in Behind)
      <4>1. "playlist" \in Held(m)'
        BY <2>1, <2>4, <3>4, ChecksPass
      <4>2. QED
        BY <2>3, <2>4, <3>1, <4>1
    <3>5. QED
      BY <3>2, <3>3, <3>4
  <2>5. RightInv'
    BY <2>4 DEF RightInv
  <2>6. ASSUME NEW s \in Requests, NEW m, m = req'[s], m.op \in {"addTrack", "ensureTrack"},
               m.at = "write"
        PROVE  "track" \in allowed'[s]
    <3>1. m # Idle
      BY <2>6, IdleTypes
    <3>2. CASE s # r
      <4>1. req'[s] = req[s]
        BY <2>1, <3>2, Reaches
      <4>2. QED
        BY <2>3, <2>6, <3>1, <4>1 DEF PermInv, AccessInv, At
    <3>3. CASE s = r
      <4>1. "track" \in Held(m)'
        BY <2>1, <2>6, <3>3, AccessPass
      <4>2. QED
        BY <2>3, <2>6, <3>1, <4>1
    <3>4. QED
      BY <3>2, <3>3
  <2>7. AccessInv'
    BY <2>6 DEF AccessInv, At
  <2>8. QED
    BY <2>5, <2>7 DEF PermInv
<1>3. QED
  BY <1>1, <1>2

\* A step of a request changes a playlist only by what the operation writes, behind its check.
Kept(p) == Content(p)' = Content(p)

\* A playlist whose row, entries and shares stay is kept.
LEMMA KeptAlike ==
    ASSUME NEW p, playlists'[p] = playlists[p], {e \in entries' : e[1] = p} = {e \in entries : e[1] = p},
           {s \in shares' : s.playlist = p} = {s \in shares : s.playlist = p}
    PROVE  Kept(p)
BY DEF Kept, Content

\* What a step may change, for the request that takes it.
Allows(r) ==
    LET q == req[r]
        permitted == Needed(q.op) \subseteq allowed[r]
    IN
    /\ \A p \in Ids :
          /\ Exists(p) => Kept(p) \/ (q.id = p /\ permitted)
          /\ \/ CoverOf(p)' = CoverOf(p)
             \/ q.id = p /\ permitted
             \/ Swapped(q.op) /\ q.user = p
    /\ reply'.status = 200 /\ q.op = "get" => permitted

\* A request behind its check is permitted to act.
LEMMA Permitted ==
    ASSUME PermInv, NEW r \in Requests, req[r].op \in Guarded, req[r].at \in Behind,
           req[r].op \in {"addTrack", "ensureTrack"} => req[r].at = "write"
    PROVE  Needed(req[r].op) \subseteq allowed[r]
BY DEF PermInv, RightInv, AccessInv, Needed, Rights, At

\* Without a change of the bucket no cover changes.
LEMMA CoverKept ==
    ASSUME NEW p, images' = images
    PROVE  CoverOf(p)' = CoverOf(p)
BY DEF CoverOf

\* A step that only looks changes nothing, and is allowed unless it shows a playlist.
LEMMA LooksAllow ==
    ASSUME Typed, NEW r \in Requests, Looks, reply'.status = 200 => req[r].op # "get"
    PROVE  Allows(r)
<1>1. UNCHANGED <<playlists, created, entries, shares, images>>
  BY DEF Looks, data
<1>2. \A p : Kept(p) /\ CoverOf(p)' = CoverOf(p)
  BY <1>1 DEF Kept, Content, CoverOf
<1>3. QED
  BY <1>2 DEF Allows

\* Reading: what is shown is shown behind the check.
LEMMA ReadAllows ==
    ASSUME Typed, PermInv, NEW r \in Requests, Continues(r), Looks
    PROVE  Allows(r)
<1>1. CASE ReadPlaylist(r)
  <2>1. req[r].op = "get" /\ req[r].at \in Behind
    BY <1>1, Current DEF ReadPlaylist, At, Underway, OpAt, Behind, Typed
  <2>2. Needed(req[r].op) \subseteq allowed[r]
    BY <2>1, Permitted DEF Guarded, CheckedOps
  <2>3. UNCHANGED <<playlists, created, entries, shares, images>>
    BY DEF Looks, data
  <2>4. \A p : Kept(p) /\ CoverOf(p)' = CoverOf(p)
    BY <2>3 DEF Kept, Content, CoverOf
  <2>5. QED
    BY <2>2, <2>4 DEF Allows
<1>2. CASE ~ReadPlaylist(r)
  <2>1. ASSUME reply'.status = 200, req[r].op = "get" PROVE FALSE
    <3>1. CASE req[r].at = "permission"
      <4>1. CheckPermission(r)
        BY <3>1 DEF Continues, CheckNewCover, CheckAccess, UpdatePlaylist,
           AddTrackToPlaylist, DeleteTrackFromPlaylist, SharePlaylistWithMany,
           RevokePlaylistAccess, DeletePlaylist, LoadForImage, PutImage, RemoveImage, GetImage,
           ReadPlaylist, ReadPublic, ReadShared, At
      <4>2. PICK q : q = req[r]
        OBVIOUS
      <4>3. (\E m : Go(r, m)) \/ \E err : err # "ok" /\ Answer(r, q, err)
        BY <4>1, <4>2 DEF CheckPermission, Fails
      <4>4. CASE \E m : Go(r, m)
        BY <2>1, <4>4 DEF Go, NoReply
      <4>5. CASE \E err : err # "ok" /\ Answer(r, q, err)
        <5>1. PICK err : err # "ok" /\ Answer(r, q, err)
          BY <4>5
        <5>2. reply'.status = Status("get", err)
          BY <2>1, <4>2, <5>1 DEF Answer
        <5>3. QED
          BY <2>1, <5>1, <5>2, StatusType DEF Ops
      <4>6. QED
        BY <4>3, <4>4, <4>5
    <3>2. CASE req[r].at # "permission"
      <4>1. req[r].at # "idle"
        BY <1>2 DEF Continues, CheckNewCover, CheckPermission, CheckAccess, UpdatePlaylist,
           AddTrackToPlaylist, DeleteTrackFromPlaylist, SharePlaylistWithMany,
           RevokePlaylistAccess, DeletePlaylist, LoadForImage, PutImage, RemoveImage, GetImage,
           ReadPublic, ReadShared, At
      <4>2. req[r].at \in {"row", "users", "tracks"}
        BY <2>1, <3>2, <4>1, Current DEF Typed, Underway, OpAt, CoverOps, TrackOps
      <4>3. QED
        BY <1>2, <4>2 DEF Continues, CheckNewCover, CheckPermission, CheckAccess, UpdatePlaylist,
           AddTrackToPlaylist, DeleteTrackFromPlaylist, SharePlaylistWithMany,
           RevokePlaylistAccess, DeletePlaylist, LoadForImage, PutImage, RemoveImage, GetImage,
           ReadPublic, ReadShared, At
    <3>3. QED
      BY <3>1, <3>2
  <2>2. QED
    BY <2>1, LooksAllow
<1>3. QED
  BY <1>1, <1>2

\* The statements that write a playlist's row, its tracks and its shares.
LEMMA WriteAllows ==
    ASSUME Typed, PermInv, NEW r \in Requests,
           \/ UpdatePlaylist(r) \/ AddTrackToPlaylist(r) \/ DeleteTrackFromPlaylist(r)
           \/ SharePlaylistWithMany(r) \/ RevokePlaylistAccess(r) \/ DeletePlaylist(r)
    PROVE  Allows(r)
<1>1. PICK q : q = req[r]
  OBVIOUS
<1>2. /\ Underway(q) /\ q.at \in Behind
      /\ q.op \in {"addTrack", "ensureTrack"} => q.at = "write"
  BY <1>1, Current DEF UpdatePlaylist, AddTrackToPlaylist, DeleteTrackFromPlaylist,
     SharePlaylistWithMany, RevokePlaylistAccess, DeletePlaylist, At, Behind, Typed,
     Underway, OpAt
<1>3. q.op \in {"update", "share", "revoke", "delete"} \union TrackOps
  BY <1>1, <1>2 DEF UpdatePlaylist, AddTrackToPlaylist, DeleteTrackFromPlaylist,
     SharePlaylistWithMany, RevokePlaylistAccess, DeletePlaylist, At, Underway, OpAt
<1>4. Needed(q.op) \subseteq allowed[r]
  BY <1>1, <1>2, <1>3, Permitted DEF Guarded, CheckedOps, TrackOps
<1>5. images' = images
  BY DEF UpdatePlaylist, AddTrackToPlaylist, DeleteTrackFromPlaylist, SharePlaylistWithMany,
     RevokePlaylistAccess, DeletePlaylist
<1>6. ASSUME NEW p \in Ids, p # q.id
      PROVE  Kept(p)
  <2>1. playlists'[p] = playlists[p]
    BY <1>1, <1>6 DEF UpdatePlaylist, AddTrackToPlaylist, DeleteTrackFromPlaylist,
       SharePlaylistWithMany, RevokePlaylistAccess, DeletePlaylist, Typed, TypeOK
  <2>2. {e \in entries' : e[1] = p} = {e \in entries : e[1] = p}
    BY <1>1, <1>6 DEF UpdatePlaylist, AddTrackToPlaylist, DeleteTrackFromPlaylist,
       SharePlaylistWithMany, RevokePlaylistAccess, DeletePlaylist
  <2>3. {s \in shares' : s.playlist = p} = {s \in shares : s.playlist = p}
    BY <1>1, <1>6 DEF UpdatePlaylist, AddTrackToPlaylist, DeleteTrackFromPlaylist,
       SharePlaylistWithMany, RevokePlaylistAccess, DeletePlaylist
  <2>4. QED
    BY <2>1, <2>2, <2>3, KeptAlike
<1>7. QED
  BY <1>1, <1>3, <1>4, <1>5, <1>6, CoverKept DEF Allows, TrackOps

\* The calls that store and remove a cover.
LEMMA CoverAllows ==
    ASSUME Typed, PermInv, NEW r \in Requests, PutImage(r) \/ RemoveImage(r)
    PROVE  Allows(r)
<1>1. PICK q : q = req[r]
  OBVIOUS
<1>2. Underway(q) /\ q.at = "image" /\ q.op \in CoverOps /\ q.key.id = CheckedPlaylist(q)
  BY <1>1, Current DEF PutImage, RemoveImage, At, Typed, Underway, CoverOps
<1>3. UNCHANGED <<playlists, entries, shares>>
  BY DEF PutImage, RemoveImage
<1>4. \A p : Kept(p)
  BY <1>3 DEF Kept, Content
<1>5. \A p : p # q.key.id => CoverOf(p)' = CoverOf(p)
  BY <1>1 DEF PutImage, RemoveImage, CoverOf
<1>6. CASE q.op \in {"create", "deleteCover"}
  <2>1. Swapped(q.op) /\ q.key.id = q.user
    BY <1>2, <1>6 DEF Swapped, CheckedPlaylist
  <2>2. QED
    BY <1>1, <1>4, <1>5, <1>6, <2>1 DEF Allows
<1>7. CASE q.op \in {"delete", "uploadCover"}
  <2>1. q.key.id = q.id
    BY <1>2, <1>7 DEF Swapped, CheckedPlaylist
  <2>2. Needed(q.op) \subseteq allowed[r]
    BY <1>1, <1>2, <1>7, Permitted DEF Guarded, CheckedOps, Behind
  <2>3. QED
    BY <1>1, <1>4, <1>5, <1>7, <2>1, <2>2 DEF Allows
<1>8. QED
  BY <1>2, <1>6, <1>7 DEF CoverOps

\* A request that begins changes no playlist that there is.
LEMMA BeginAllows ==
    ASSUME Typed, NEW r \in Requests, Begins(r)
    PROVE  Allows(r)
<1>1. req[r] = Idle /\ Idle.op = "none"
  BY IdleTypes DEF Begins
<1>2. PICK q : Opens(r, q)
  BY Opening DEF Typed, TypeOK
<1>3. CASE CheckOwner(r, q) \/ GetUserPlaylists(r, q) \/ LoadArtworkOwner(r, q)
  BY <1>1, <1>3, Looking, LooksAllow
<1>4. CASE CreatePlaylist(r, q)
  <2>1. UNCHANGED <<entries, shares, images>>
    BY <1>4 DEF CreatePlaylist
  <2>2. ASSUME NEW p \in Ids, Exists(p) PROVE playlists'[p] = playlists[p]
    <3>1. p # created + 1
      BY <2>2, ConstantsAssumption DEF Exists, GetPlaylist, Typed, TypeOK, CountInv, Ids
    <3>2. QED
      BY <1>4, <3>1 DEF CreatePlaylist, Typed, TypeOK
  <2>3. ASSUME NEW p \in Ids, Exists(p) PROVE Kept(p)
    BY <2>1, <2>2, <2>3, KeptAlike
  <2>4. QED
    BY <1>1, <2>1, <2>3, CoverKept DEF Allows
<1>5. QED
  BY <1>2, <1>3, <1>4 DEF Opens

\* No step does what its request is not allowed.
LEMMA StepAllows ==
    ASSUME Typed, PermInv, NEW r \in Requests, Begins(r) \/ Continues(r)
    PROVE  Allows(r)
<1>1. CASE Begins(r)
  BY <1>1, BeginAllows
<1>2. CASE Continues(r)
  BY <1>2, Looking, ReadAllows, WriteAllows, CoverAllows DEF Continues
<1>3. QED
  BY <1>1, <1>2

\* A playlist's row, tracks, shares and cover change, and it is shown, only by a request
\* about it whose user has had the right to that at some time since it began.
THEOREM ChangesArePermitted == Spec => OnlyPermittedChanges
<1>1. ASSUME Typed, PermInv, [Next]_vars
      PROVE  [\A r \in Requests : req'[r] # req[r] =>
                LET q == req[r]
                    permitted == Needed(q.op) \subseteq allowed[r]
                IN
                /\ \A p \in Ids :
                      /\ Exists(p) /\ Content(p)' # Content(p) => q.id = p /\ permitted
                      /\ CoverOf(p)' # CoverOf(p) =>
                            (q.id = p /\ permitted) \/ (Swapped(q.op) /\ q.user = p)
                /\ reply'.status = 200 /\ q.op = "get" => permitted]_vars
  <2>1. CASE Next
    <3>1. PICK r \in Requests : Begins(r) \/ Continues(r)
      BY <2>1 DEF Next
    <3>2. Allows(r)
      BY <1>1, <3>1, StepAllows
    <3>3. \A s \in Requests : req'[s] # req[s] => s = r
      BY <1>1, <3>1, Reaches
    <3>4. QED
      BY <3>2, <3>3 DEF Allows, Kept
  <2>2. CASE UNCHANGED vars
    BY <2>2
  <2>3. QED
    BY <1>1, <2>1, <2>2
<1>2. Init => Typed /\ PermInv
  BY TypedInit, PermInit
<1>3. Typed /\ PermInv /\ [Next]_vars => (Typed /\ PermInv)'
  BY TypedStep, PermStep
<1>4. QED
  BY <1>1, <1>2, <1>3, PTL DEF Spec, OnlyPermittedChanges

-------------------------------------------------------------------------------
(* Lists.  What a request has read as its user's own stays so, or is       *)
(* deleted: no later step gives the number or the row to another user.     *)

Owns(u, p) == p <= created /\ (Exists(p) => playlists[p].owner = u)

OwnInv ==
    \A r \in Requests : req[r].op = "list" =>
       \A p \in req[r].owned : Owns(req[r].user, p)
ApartInv ==
    \A r \in Requests : req[r].op = "list" /\ At(r, "shared") =>
       req[r].owned \intersect req[r].global = {}

ListInv == OwnInv /\ ApartInv

\* A number that was given out goes to nobody else.
LEMMA OwnsStays ==
    ASSUME Typed, NEW r \in Requests, Begins(r) \/ Continues(r), NEW u, NEW p \in Ids, Owns(u, p)
    PROVE  Owns(u, p)'
<1>1. CASE playlists' = playlists /\ created' = created
  BY <1>1 DEF Owns, Exists, GetPlaylist
<1>2. CASE \E q : CreatePlaylist(r, q)
  <2>1. p # created + 1 /\ p <= created' /\ p <= created
    BY <1>2, ConstantsAssumption DEF Owns, CreatePlaylist, Typed, TypeOK, Ids
  <2>2. playlists'[p] = playlists[p]
    BY <1>2, <2>1 DEF CreatePlaylist, Typed, TypeOK
  <2>3. QED
    BY <2>1, <2>2 DEF Owns, Exists, GetPlaylist
<1>3. CASE UpdatePlaylist(r)
  <2>1. PICK q : q = req[r]
    OBVIOUS
  <2>2. CASE UNCHANGED playlists
    BY <1>1, <1>3, <2>2 DEF UpdatePlaylist
  <2>3. CASE /\ Exists(q.id)
             /\ playlists' = [playlists EXCEPT ![q.id].name = q.name, ![q.id].public = q.public]
    <3>1. q.id \in Ids /\ playlists[q.id] \in Row
      BY <2>3, RowExists DEF Typed
    <3>2. playlists'[q.id].owner = playlists[q.id].owner
      BY <2>3, <3>1 DEF Row, Typed, TypeOK
    <3>3. p # q.id => playlists'[p] = playlists[p]
      BY <2>3 DEF Typed, TypeOK
    <3>4. created' = created
      BY <1>3 DEF UpdatePlaylist
    <3>5. QED
      BY <2>3, <3>2, <3>3, <3>4 DEF Owns, Exists, GetPlaylist
  <2>4. QED
    BY <1>3, <2>1, <2>2, <2>3 DEF UpdatePlaylist
<1>4. CASE DeletePlaylist(r)
  BY <1>4 DEF DeletePlaylist, Owns, Exists, GetPlaylist, Typed, TypeOK
<1>5. CASE Begins(r)
  <2>1. PICK q : Opens(r, q)
    BY <1>5, Opening DEF Typed, TypeOK
  <2>2. CASE CheckOwner(r, q) \/ GetUserPlaylists(r, q) \/ LoadArtworkOwner(r, q)
    BY <1>1, <2>2, Looking DEF Looks, data
  <2>3. QED
    BY <1>2, <2>1, <2>2 DEF Opens
<1>6. CASE Continues(r) /\ ~UpdatePlaylist(r) /\ ~DeletePlaylist(r)
  <2>1. playlists' = playlists /\ created' = created
    BY <1>6, Looking DEF Continues, Looks, data, AddTrackToPlaylist, DeleteTrackFromPlaylist,
       SharePlaylistWithMany, RevokePlaylistAccess, PutImage, RemoveImage
  <2>2. QED
    BY <1>1, <2>1
<1>7. QED
  BY <1>3, <1>4, <1>5, <1>6

\* The user's own playlists are read first.
LEMMA OwnedRead ==
    ASSUME Typed, NEW r \in Requests, NEW q, WellAsked(q), GetUserPlaylists(r, q), NEW m, m = req'[r],
           m # Idle
    PROVE  /\ m.user = q.user /\ m.at = "public"
           /\ \A p \in m.owned : p \in Ids /\ Owns(m.user, p)
<1> DEFINE S == GetUserOwnedPlaylists(q.user)
           x == [q EXCEPT !.at = "public", !.owned = S]
<1>1. S \in SUBSET Ids /\ q \in Request
  BY DEF GetUserOwnedPlaylists, WellAsked
<1>2. \A p \in S : Owns(q.user, p)
  BY DEF GetUserOwnedPlaylists, Owns, Exists, GetPlaylist, Typed, CountInv
<1>3. m = x
  <2>1. Go(r, x) \/ \E err : Answer(r, q, err)
    BY DEF GetUserPlaylists, Fails
  <2> HIDE DEF x
  <2>2. CASE Go(r, x)
    BY <2>2 DEF Go, Typed, TypeOK
  <2>3. CASE \E err : Answer(r, q, err)
    BY <2>3 DEF Answer, Typed, TypeOK
  <2>4. QED
    BY <2>1, <2>2, <2>3
<1> HIDE DEF S
<1>4. x.user = q.user /\ x.owned = S /\ x.at = "public"
  BY <1>1, OwnedTaken
<1> HIDE DEF x
<1>5. QED
  BY <1>1, <1>2, <1>3, <1>4

\* The public playlists are those of others.
LEMMA PublicRead ==
    ASSUME Typed, ListInv, NEW r \in Requests, ReadPublic(r), NEW m, m = req'[r], m # Idle,
           NEW q, q = req[r]
    PROVE  /\ m.user = q.user /\ m.owned = q.owned
           /\ m.owned \intersect m.global = {}
<1> DEFINE S == GetPublicPlaylists(q.user)
           x == [q EXCEPT !.at = "shared", !.global = S]
<1>1. S \in SUBSET Ids /\ q \in Request
  BY DEF GetPublicPlaylists, Typed, TypeOK
<1>2. q.op = "list"
  BY Current DEF ReadPublic, At, Underway, OpAt, Typed
<1>3. \A p \in q.owned : p \notin S
  BY <1>2 DEF ListInv, OwnInv, Owns, GetPublicPlaylists
<1>4. m = x
  <2>1. Go(r, x) \/ \E err : Answer(r, q, err)
    BY DEF ReadPublic, Fails
  <2> HIDE DEF x
  <2>2. CASE Go(r, x)
    BY <2>2 DEF Go, Typed, TypeOK
  <2>3. CASE \E err : Answer(r, q, err)
    BY <2>3 DEF Answer, Typed, TypeOK
  <2>4. QED
    BY <2>1, <2>2, <2>3
<1> HIDE DEF S
<1>5. x.user = q.user /\ x.owned = q.owned /\ x.global = S
  BY ONLY <1>1, GlobalTaken
<1> HIDE DEF x
<1>6. m.user = q.user /\ m.owned = q.owned /\ m.global = S
  BY <1>4, <1>5
<1>7. q.owned \intersect S = {}
  BY <1>3
<1>8. QED
  BY <1>6, <1>7

\* No list is under way at the start.
LEMMA ListInit ==
    ASSUME Init
    PROVE  ListInv
BY IdleTypes DEF Init, ListInv, OwnInv, ApartInv

\* A request for a list goes on by reading the public playlists.
LEMMA ListContinues ==
    ASSUME Typed, NEW r \in Requests, Continues(r), req[r].op = "list", req'[r] # Idle
    PROVE  ReadPublic(r)
<1>1. req[r].at # "idle"
  BY DEF Continues, CheckNewCover, CheckPermission, CheckAccess, UpdatePlaylist,
     AddTrackToPlaylist, DeleteTrackFromPlaylist, SharePlaylistWithMany, RevokePlaylistAccess,
     DeletePlaylist, LoadForImage, PutImage, RemoveImage, GetImage, ReadPlaylist, ReadPublic,
     ReadShared, At
<1>2. req[r].at \in {"public", "shared"}
  BY <1>1, Current DEF Typed, Underway, OpAt, CheckedOps, CoverOps, TrackOps
<1>3. ReadPublic(r) \/ ReadShared(r)
  BY <1>2 DEF Continues, CheckNewCover, CheckPermission, CheckAccess, UpdatePlaylist,
     AddTrackToPlaylist, DeleteTrackFromPlaylist, SharePlaylistWithMany, RevokePlaylistAccess,
     DeletePlaylist, LoadForImage, PutImage, RemoveImage, GetImage, ReadPlaylist, At
<1>4. ~ReadShared(r)
  BY SharedLeads, LedTo DEF Typed
<1>5. QED
  BY <1>3, <1>4

\* Every step keeps the parts of a list apart.
LEMMA ListStep ==
    ASSUME Typed, ListInv, [Next]_vars
    PROVE  ListInv'
<1>1. CASE UNCHANGED vars
  BY <1>1 DEF vars, data, ListInv, OwnInv, ApartInv, Owns, Exists, GetPlaylist, At
<1>2. CASE Next
  <2>1. PICK r \in Requests : Begins(r) \/ Continues(r)
    BY <1>2 DEF Next
  <2>2. ASSUME NEW s \in Requests, NEW m, m = req'[s], m.op = "list"
        PROVE  /\ \A p \in m.owned : Owns(m.user, p)'
               /\ m.at = "shared" => m.owned \intersect m.global = {}
    <3>1. m # Idle
      BY <2>2, IdleTypes
    <3>2. CASE s # r
      <4>1. m = req[s] /\ m \in Request
        BY <2>1, <2>2, <3>2, Reaches DEF Typed, TypeOK
      <4>2. \A p \in m.owned : p \in Ids /\ Owns(m.user, p)
        BY <2>2, <4>1 DEF ListInv, OwnInv, Request
      <4>3. QED
        BY <2>1, <2>2, <4>1, <4>2, OwnsStays DEF ListInv, ApartInv, At
    <3>3. CASE s = r /\ Begins(r)
      <4>1. PICK q : Opens(r, q)
        BY <3>3, Opening DEF Typed, TypeOK
      <4>2. q.op = "list"
        BY <2>2, <3>1, <3>3, <4>1, BeginLeads, LedTo DEF Follows
      <4>3. GetUserPlaylists(r, q) /\ WellAsked(q)
        BY <4>1, <4>2 DEF Opens, CheckedOps, TrackOps
      <4>4. m.at = "public" /\ \A p \in m.owned : p \in Ids /\ Owns(m.user, p)
        BY <2>2, <3>1, <3>3, <4>3, OwnedRead
      <4>5. QED
        BY <2>1, <4>4, OwnsStays
    <3>4. CASE s = r /\ Continues(r)
      <4>1. PICK q : q = req[r]
        OBVIOUS
      <4>2. Follows(q, m)
        BY <2>2, <3>1, <3>4, <4>1, ContinueLeads, LedTo
      <4>3. q.op = "list" /\ q \in Request
        BY <2>2, <4>1, <4>2 DEF Follows, Typed, TypeOK
      <4>4. ReadPublic(r)
        BY <2>2, <3>1, <3>4, <4>1, <4>3, ListContinues
      <4>5. /\ m.user = q.user /\ m.owned = q.owned
            /\ m.owned \intersect m.global = {}
        BY <2>2, <3>1, <3>4, <4>1, <4>4, PublicRead
      <4>6. \A p \in m.owned : p \in Ids /\ Owns(m.user, p)
        BY <4>1, <4>3, <4>5 DEF ListInv, OwnInv, Request
      <4>7. QED
        BY <2>1, <4>5, <4>6, OwnsStays
    <3>5. QED
      BY <2>1, <3>2, <3>3, <3>4
  <2>3. OwnInv'
    BY <2>2 DEF OwnInv, Owns
  <2>4. ApartInv'
    BY <2>2 DEF ApartInv, At
  <2>5. QED
    BY <2>3, <2>4 DEF ListInv
<1>3. QED
  BY <1>1, <1>2

\* What the answer to a request for a list says.
ListTold ==
    reply'.status = 200 /\ reply'.request.op = "list" =>
       LET q == reply'.request IN
       /\ q.global \intersect (q.owned \union q.shared) = {}
       /\ \A p \in q.owned \intersect q.shared : q.user \in SharedWith(p)

\* The answers that are not lists, and those of lists that failed.
LEMMA AnswerOfAnother ==
    ASSUME NEW r, NEW q, NEW err,
           q.op # "list" \/ (q \in Request /\ err # "ok"), Answer(r, q, err)
    PROVE  ListTold
<1>1. reply'.request = q
  BY DEF Answer
<1>2. CASE q.op # "list"
  BY <1>1, <1>2 DEF ListTold
<1>3. CASE q.op = "list" /\ err # "ok"
  <2>1. reply'.status = Status("list", err)
    BY <1>3 DEF Answer
  <2>2. reply'.status # 200
    BY <1>3, <2>1, StatusType DEF Ops
  <2>3. QED
    BY <2>2 DEF ListTold
<1>4. QED
  BY <1>2, <1>3

\* A step that goes on answers no list.
LEMMA NoAnswer ==
    ASSUME NEW r, NEW m, Go(r, m)
    PROVE  ListTold
BY DEF Go, NoReply, ListTold

\* The list as it is answered: what is shared is taken out of what is public.
LEMMA SharedAnswer ==
    ASSUME Typed, ListInv, NEW r \in Requests, ReadShared(r)
    PROVE  ListTold
<1> DEFINE S == GetSharedPlaylists(req[r].user)
           x == [req[r] EXCEPT !.shared = S, !.global = @ \ S]
<1>1. Underway(req[r]) /\ At(r, "shared")
  BY Current DEF ReadShared, At, Typed
<1>2. S \in SUBSET Ids /\ req[r] \in Request /\ req[r].op = "list"
  BY <1>1 DEF GetSharedPlaylists, Underway, WellAsked, OpAt, At
<1>3. Answer(r, x, "ok") \/ Answer(r, req[r], "db")
  BY DEF ReadShared, Fails
<1>4. req[r].owned \intersect req[r].global = {}
  BY <1>1, <1>2 DEF ListInv, ApartInv
<1>5. \A p \in S : req[r].user \in SharedWith(p)'
  BY DEF GetSharedPlaylists, SharedWith, ReadShared, data
<1> HIDE DEF S
<1>6. /\ x.op = "list" /\ x.user = req[r].user /\ x.owned = req[r].owned
      /\ x.global = req[r].global \ S /\ x.shared = S
  BY <1>2, SharedTaken
<1> HIDE DEF x
<1>7. PICK y : y = x
  OBVIOUS
<1>8. CASE Answer(r, req[r], "db")
  <2>1. PICK q : q = req[r]
    OBVIOUS
  <2>2. QED
    BY <1>2, <1>8, <2>1, AnswerOfAnother
<1>9. CASE Answer(r, x, "ok")
  <2>1. reply'.request = x
    BY <1>9 DEF Answer
  <2>2. shares' = shares
    BY DEF ReadShared, data
  <2>3. \A p \in S : req[r].user \in SharedWith(p)
    BY <1>5, <2>2 DEF SharedWith
  <2>4. x.global \intersect (x.owned \union x.shared) = {}
    BY <1>4, <1>6
  <2>5. \A p \in x.owned \intersect x.shared : x.user \in SharedWith(p)
    BY <1>6, <2>3
  <2>6. QED
    BY <2>1, <2>4, <2>5 DEF ListTold
<1>10. QED
  BY <1>3, <1>8, <1>9

\* Every answer is one of those.
LEMMA StepToldList ==
    ASSUME Typed, ListInv, NEW r \in Requests, Begins(r) \/ Continues(r)
    PROVE  ListTold
<1>1. CASE Begins(r)
  <2>1. PICK q : Opens(r, q)
    BY <1>1, Opening DEF Typed, TypeOK
  <2>2. q \in Request
    BY <2>1 DEF Opens, WellAsked
  <2>3. \/ \E m : Go(r, m)
        \/ \E err : (q.op # "list" \/ err # "ok") /\ Answer(r, q, err)
    <3>1. CASE q.op = "list"
      BY <2>1, <3>1 DEF Opens, GetUserPlaylists, Fails, CheckedOps, TrackOps
    <3>2. CASE q.op # "list"
      BY <2>1, <3>2 DEF Opens, CheckOwner, CreatePlaylist, LoadArtworkOwner, Fails
    <3>3. QED
      BY <3>1, <3>2
  <2>4. QED
    BY <2>2, <2>3, NoAnswer, AnswerOfAnother
<1>2. CASE Continues(r) /\ req[r].op # "list"
  <2>1. PICK q : q = req[r]
    OBVIOUS
  <2>2. ~ReadShared(r)
    BY <1>2, Current DEF ReadShared, At, Typed, Underway, OpAt
  <2>3. (\E m : Go(r, m)) \/ \E err : Answer(r, q, err)
    BY <1>2, <2>1, <2>2 DEF Continues, CheckNewCover, CheckOwner, CheckPermission, CheckAccess,
       UpdatePlaylist, AddTrackToPlaylist, DeleteTrackFromPlaylist, SharePlaylistWithMany,
       RevokePlaylistAccess, DeletePlaylist, LoadForImage, LoadArtworkOwner, PutImage,
       RemoveImage, GetImage, ReadPlaylist, ReadPublic, Done, Fails
  <2>4. QED
    BY <1>2, <2>1, <2>3, NoAnswer, AnswerOfAnother
<1>3. CASE Continues(r) /\ req[r].op = "list"
  <2>1. ReadPublic(r) \/ ReadShared(r)
    <3>1. CASE req'[r] # Idle
      BY <1>3, <3>1, ListContinues
    <3>2. CASE req[r].at \in {"public", "shared"}
      BY <1>3, <3>2 DEF Continues, CheckNewCover, CheckPermission, CheckAccess, UpdatePlaylist,
         AddTrackToPlaylist, DeleteTrackFromPlaylist, SharePlaylistWithMany,
         RevokePlaylistAccess, DeletePlaylist, LoadForImage, PutImage, RemoveImage, GetImage,
         ReadPlaylist, At
    <3>3. req[r] # Idle
      BY <1>3, IdleTypes
    <3>4. Underway(req[r])
      BY <3>3 DEF Typed, PlaceInv
    <3>5. req[r].at \in {"public", "shared"}
      BY <1>3, <3>4 DEF Underway, OpAt, CheckedOps, CoverOps, TrackOps
    <3>6. QED
      BY <3>2, <3>5
  <2>2. CASE ReadPublic(r)
    <3>1. PICK q : q = req[r]
      OBVIOUS
    <3>2. q \in Request
      BY <3>1 DEF Typed, TypeOK
    <3>3. (\E m : Go(r, m)) \/ Answer(r, q, "db")
      BY <2>2, <3>1 DEF ReadPublic, Fails
    <3>4. QED
      BY <3>2, <3>3, NoAnswer, AnswerOfAnother
  <2>3. QED
    BY <2>1, <2>2, SharedAnswer
<1>4. QED
  BY <1>1, <1>2, <1>3

\* A list names a playlist once, though it is put together from three statements: what was
\* the user's own when the first one read it belongs to nobody else by the second.
THEOREM ListsNameOnce == Spec => ListedOnce
<1>1. ASSUME Typed, ListInv, [Next]_vars
      PROVE  [reply'.status = 200 /\ reply'.request.op = "list" =>
                LET q == reply'.request IN
                /\ q.global \intersect (q.owned \union q.shared) = {}
                /\ \A p \in q.owned \intersect q.shared : q.user \in SharedWith(p)]_vars
  <2>1. CASE Next
    <3>1. ListTold
      BY <1>1, <2>1, StepToldList DEF Next
    <3>2. QED
      BY <3>1 DEF ListTold
  <2>2. CASE UNCHANGED vars
    BY <2>2
  <2>3. QED
    BY <1>1, <2>1, <2>2
<1>2. Init => Typed /\ ListInv
  BY TypedInit, ListInit
<1>3. Typed /\ ListInv /\ [Next]_vars => (Typed /\ ListInv)'
  BY TypedStep, ListStep
<1>4. QED
  BY <1>1, <1>2, <1>3, PTL DEF Spec, ListedOnce
================================================================================
