----------------------------- MODULE MediaShare -----------------------------
(***************************************************************************)
(* An image on its way to a post. PUT /media/uploads/:uploadId streams it  *)
(* under a grant to a temporary file, renames that to its hash and inserts *)
(* a row (apps/api/src/routes/media.ts, packages/media/src/store.ts).      *)
(* createShare (apps/api/src/linkedin/share-with-media.ts), which the      *)
(* publication pipeline calls to create a post with an image, uploads the  *)
(* bytes to LinkedIn the first time and caches the asset URN in the row.   *)
(* Uploads and shares of one image overlap at every await.                 *)
(*                                                                         *)
(* Abstracted: one workspace; an image stands for its bytes, their hash    *)
(* and its row's id; a grant, which nobody else can sign, is its mime and  *)
(* expiry; a LinkedIn asset is its place in the order of registration. The *)
(* temporary file of an upload has a random name that no other code looks  *)
(* for. It is left out, and so is whether one stays behind: an upload that *)
(* fails tries to unlink it, and ignores that this fails (store.ts:62).    *)
(***************************************************************************)
EXTENDS Naturals, Sequences

CONSTANTS
  Images, Mimes,
  MimeOf,      \* what sniffMediaMime makes of an image
  TooLarge,    \* images over maxBytesForMime
  Uploads,     \* upload requests being served
  Shares,      \* createShare calls being served
  Members,
  Ttl,         \* life of a grant
  LastTime,    \* bound: the clock stops there
  MaxAssets,   \* bound: assets registered at LinkedIn
  None

Times == 0..LastTime
Grants == [mime: Mimes, expiresAt: Nat]
Rows == [urn: Nat \cup {None}]   \* linkedin_asset_urn
Assets == [owner: Members, image: Images \cup {None}]
Posts == [author: Members, image: Images, asset: Nat]
Tasks == [image: Images, grant: Grants]
Calls == [author: Members, image: Images, asset: Nat \cup {None}, fresh: BOOLEAN]

ASSUME MediaAssumption ==
  /\ MimeOf \in [Images -> Mimes \cup {None}]
  /\ TooLarge \subseteq Images
  /\ Ttl \in Nat /\ LastTime \in Nat /\ MaxAssets \in Nat
  /\ None \notin Nat \cup Images \cup Rows \cup Tasks \cup Calls

VARIABLES
  grants,    \* the grants given out
  files,     \* the images under their hash in rootDir
  rows,      \* media_assets
  up, task,  \* where each upload stands, and what it works on
  at, call,  \* where each share stands, and what it has in memory
  hosted,    \* LinkedIn's assets; image is None until the bytes are put
  posts,     \* LinkedIn's posts with an image
  now

uploading == <<grants, files, up, task>>
sharing == <<at, call, hosted, posts>>
vars == <<uploading, rows, sharing, now>>

Init ==
  /\ grants = {} /\ files = {}
  /\ rows = [i \in Images |-> None]
  /\ up = [u \in Uploads |-> "idle"]
  /\ task = [u \in Uploads |-> None]
  /\ at = [r \in Shares |-> "idle"]
  /\ call = [r \in Shares |-> None]
  /\ hosted = <<>>
  /\ posts = {}
  /\ now = 0

-----------------------------------------------------------------------------
\* The upload routes and storeMediaStream.

createMediaUploadGrant(mime) ==
  /\ grants' = grants \cup {[mime |-> mime, expiresAt |-> now + Ttl]}
  /\ UNCHANGED <<files, up, task, rows, sharing, now>>

\* verifyMediaUploadGrant: refused, an upload changes nothing. A grant is not
\* used up, so it may come again until it expires.
StartUpload(u, grant, i) ==
  /\ up[u] = "idle"
  /\ grant \in grants /\ now < grant.expiresAt
  /\ up' = [up EXCEPT ![u] = "stream"]
  /\ task' = [task EXCEPT ![u] = [image |-> i, grant |-> grant]]
  /\ UNCHANGED <<grants, files, rows, sharing, now>>

EndUpload(u) ==
  /\ up' = [up EXCEPT ![u] = "idle"]
  /\ task' = [task EXCEPT ![u] = None]

\* A plausible bug: the size is looked at, the bytes are not.
acceptsBySize(j) == j.image \notin TooLarge

\* The bytes are what the grant said, and no more than it said.
accepts(j) == j.image \notin TooLarge /\ MimeOf[j.image] = j.grant.mime

\* The last chunk: the temporary file, closed, takes the hash for its name.
FinishStream(u) ==
  /\ up[u] = "stream" /\ accepts(task[u])
  /\ files' = files \cup {task[u].image}
  /\ up' = [up EXCEPT ![u] = "insert"]
  /\ UNCHANGED <<grants, task, rows, sharing, now>>

\* More bytes than granted, or others: the stream throws and the route answers 400.
RefuseStream(u) ==
  /\ up[u] = "stream" /\ ~accepts(task[u])
  /\ EndUpload(u)
  /\ UNCHANGED <<grants, files, rows, sharing, now>>

\* insertMediaAsset: `on conflict do update` leaves linkedin_asset_urn alone.
insertMediaAsset(u) ==
  LET i == task[u].image IN
  /\ up[u] = "insert"
  /\ rows' = [rows EXCEPT ![i] = IF @ = None THEN [urn |-> None] ELSE @]
  /\ EndUpload(u)
  /\ UNCHANGED <<grants, files, sharing, now>>

\* The client goes away, the disk or the statement fails, or the process dies.
\* A file under its hash stays, with no row if the row was not made.
AbandonUpload(u) ==
  /\ up[u] # "idle"
  /\ EndUpload(u)
  /\ UNCHANGED <<grants, files, rows, sharing, now>>

-----------------------------------------------------------------------------
\* createShare, and createLinkedInTextShare with an image.

Goto(r, from, to) == at[r] = from /\ at' = [at EXCEPT ![r] = to]

\* The pipeline has a command with an image, and loadAsset looks for its row:
\* with the URN cached the post can be made at once, else the bytes are read.
\* An image without row or file ends the call with 404.
loadAsset(r, m, i) ==
  /\ rows[i] # None
  /\ Goto(r, "idle", IF rows[i].urn = None THEN "read" ELSE "ugc")
  /\ call' = [call EXCEPT ![r] = [author |-> m, image |-> i, asset |-> rows[i].urn, fresh |-> FALSE]]
  /\ UNCHANGED <<uploading, rows, hosted, posts, now>>

readBytes(r) ==
  /\ Goto(r, "read", "register")
  /\ call[r].image \in files
  /\ UNCHANGED <<uploading, rows, call, hosted, posts, now>>

registerLinkedInImageUpload(r) ==
  /\ Goto(r, "register", "put")
  /\ Len(hosted) < MaxAssets
  /\ hosted' = Append(hosted, [owner |-> call[r].author, image |-> None])
  /\ call' = [call EXCEPT ![r].asset = Len(hosted) + 1, ![r].fresh = TRUE]
  /\ UNCHANGED <<uploading, rows, posts, now>>

\* A plausible bug: the answer to the upload of the bytes is not looked at.
putUnchecked(r) ==
  /\ Goto(r, "put", "ugc")
  /\ \E stored \in BOOLEAN :
       hosted' = IF stored THEN [hosted EXCEPT ![call[r].asset].image = call[r].image] ELSE hosted
  /\ UNCHANGED <<uploading, rows, call, posts, now>>

putLinkedInImage(r) ==
  /\ Goto(r, "put", "ugc")
  /\ hosted' = [hosted EXCEPT ![call[r].asset].image = call[r].image]
  /\ UNCHANGED <<uploading, rows, call, posts, now>>

\* LinkedIn makes the post or not: the URN of a fresh asset is kept whatever
\* the answer was.
createPost(r, accepted) ==
  /\ Goto(r, "ugc", IF call[r].fresh THEN "save" ELSE "idle")
  /\ call' = IF call[r].fresh THEN call ELSE [call EXCEPT ![r] = None]
  /\ posts' = IF accepted
              THEN posts \cup {[author |-> call[r].author, image |-> call[r].image,
                                asset |-> call[r].asset]}
              ELSE posts
  /\ UNCHANGED <<uploading, rows, hosted, now>>

\* A plausible bug: the last share to come by caches its asset.
setUrnAlways(r) ==
  /\ Goto(r, "save", "idle")
  /\ rows' = [rows EXCEPT ![call[r].image].urn = call[r].asset]
  /\ call' = [call EXCEPT ![r] = None]
  /\ UNCHANGED <<uploading, hosted, posts, now>>

\* A plausible bug: an answered share is not let go.
setUrnKeeping(r) ==
  /\ Goto(r, "save", "idle")
  /\ rows' = [rows EXCEPT ![call[r].image].urn = IF @ = None THEN call[r].asset ELSE @]
  /\ UNCHANGED <<uploading, call, hosted, posts, now>>

\* setMediaLinkedInAssetUrn, `where linkedin_asset_urn is null`.
setMediaLinkedInAssetUrn(r) ==
  /\ Goto(r, "save", "idle")
  /\ rows' = [rows EXCEPT ![call[r].image].urn = IF @ = None THEN call[r].asset ELSE @]
  /\ call' = [call EXCEPT ![r] = None]
  /\ UNCHANGED <<uploading, hosted, posts, now>>

\* A refusal of the upload ends the call with its status; a call throws, or the
\* process dies.
AbandonShare(r) ==
  /\ at[r] # "idle"
  /\ at' = [at EXCEPT ![r] = "idle"]
  /\ call' = [call EXCEPT ![r] = None]
  /\ UNCHANGED <<uploading, rows, hosted, posts, now>>

Tick ==
  /\ now < LastTime
  /\ now' = now + 1
  /\ UNCHANGED <<uploading, rows, sharing>>

Upload(u) ==
  \/ \E grant \in grants, i \in Images : StartUpload(u, grant, i)
  \/ FinishStream(u) \/ RefuseStream(u) \/ insertMediaAsset(u) \/ AbandonUpload(u)

Share(r) ==
  \/ \E m \in Members, i \in Images : loadAsset(r, m, i)
  \/ readBytes(r) \/ registerLinkedInImageUpload(r) \/ putLinkedInImage(r)
  \/ \E accepted \in BOOLEAN : createPost(r, accepted)
  \/ setMediaLinkedInAssetUrn(r) \/ AbandonShare(r)

Next ==
  \/ \E mime \in Mimes : createMediaUploadGrant(mime)
  \/ \E u \in Uploads : Upload(u)
  \/ \E r \in Shares : Share(r)
  \/ Tick

Spec == Init /\ [][Next]_vars

-----------------------------------------------------------------------------
\* Properties.

\* Types; and a request has in memory what it works on exactly while served.
TypeOK ==
  /\ \A u \in Uploads : up[u] = "idle" <=> task[u] = None
  /\ \A r \in Shares : at[r] = "idle" <=> call[r] = None
  /\ grants \subseteq Grants
  /\ files \subseteq Images
  /\ rows \in [Images -> Rows \cup {None}]
  /\ up \in [Uploads -> {"idle", "stream", "insert"}]
  /\ task \in [Uploads -> Tasks \cup {None}]
  /\ at \in [Shares -> {"idle", "read", "register", "put", "ugc", "save"}]
  /\ call \in [Shares -> Calls \cup {None}]
  /\ hosted \in Seq(Assets)
  /\ posts \subseteq Posts
  /\ now \in Times

\* Whatever uploads overlap or break off, a row has its file, of a kind and
\* size that a grant was given for, so that a share of it can read the bytes.
RowsHaveFiles ==
  \A i \in Images : rows[i] # None =>
    i \in files \ TooLarge /\ \E grant \in grants : grant.mime = MimeOf[i]

\* Every post shows the image it was asked to, with all its bytes, and so will
\* every later post from the cached URN, however shares of one image race.
PostsShowTheirImage ==
  /\ \A p \in posts : hosted[p.asset].image = p.image
  /\ \A i \in Images : rows[i] # None /\ rows[i].urn # None => hosted[rows[i].urn].image = i

\* A cached URN is never replaced nor lost, by a share that lost the race or by
\* another upload of the image (media-store.ts:75, share-with-media.test.ts:5).
CachedUrnStays ==
  [][\A i \in Images : rows[i] # None /\ rows[i].urn # None => rows'[i] = rows[i]]_rows
=============================================================================
