-------------------------- MODULE MediaShareProofs --------------------------
(***************************************************************************)
(* What holds of images, rows and posts for every set of uploads, shares   *)
(* and images, however they overlap or break off. The inductive invariant  *)
(* says where an image is checked: an upload that is about to insert its   *)
(* row has its file already, and a share that is about to make a post has  *)
(* put its image's bytes under the asset it names.                         *)
(***************************************************************************)
EXTENDS MediaShare, TLAPS

\* An upload works under a grant that was given out, and inserts a row only for
\* a file it has checked and renamed.
UploadsChecked ==
  \A u \in Uploads : up[u] # "idle" =>
    /\ task[u].grant \in grants
    /\ up[u] = "insert" => task[u].image \in files /\ accepts(task[u])

\* A share works on an image that has a row.
SharesHaveRows == \A r \in Shares : at[r] # "idle" => rows[call[r].image] # None

\* The asset a number stands for is registered and shows the image.
Shows(n, i) == n \in 1..Len(hosted) /\ hosted[n].image = i

\* Rows, posts and the shares past the upload of the bytes name assets that show
\* their image; a share before it has an asset of its own, without an image.
AssetsShow ==
  /\ \A i \in Images : rows[i] # None /\ rows[i].urn # None => Shows(rows[i].urn, i)
  /\ \A p \in posts : Shows(p.asset, p.image)
  /\ \A r \in Shares : at[r] \in {"ugc", "save"} => Shows(call[r].asset, call[r].image)
  /\ \A r \in Shares : at[r] = "put" => Shows(call[r].asset, None)
  /\ \A q, r \in Shares : at[q] = "put" /\ at[r] = "put" /\ q # r => call[q].asset # call[r].asset

Inv ==
  /\ TypeOK /\ UploadsChecked /\ SharesHaveRows
  /\ RowsHaveFiles /\ AssetsShow

-----------------------------------------------------------------------------
\* Types.

\* An asset that a share or a row names is a number, and putting its bytes keeps
\* LinkedIn's assets a sequence of assets.
LEMMA PutKeepsAssets ==
  ASSUME hosted \in Seq(Assets), NEW n, NEW i \in Images
  PROVE  /\ [hosted EXCEPT ![n].image = i] \in Seq(Assets)
         /\ Len([hosted EXCEPT ![n].image = i]) = Len(hosted)
         /\ \A m \in 1..Len(hosted) :
              [hosted EXCEPT ![n].image = i][m].image = IF m = n THEN i ELSE hosted[m].image
<1> DEFINE after == [hosted EXCEPT ![n].image = i]
<1>1. /\ DOMAIN after = 1..Len(hosted)
      /\ \A m \in 1..Len(hosted) : /\ hosted[m] \in Assets
                                    /\ after[m] = IF m = n THEN [hosted[m] EXCEPT !.image = i] ELSE hosted[m]
  OBVIOUS
<1>2. \A m \in 1..Len(hosted) : after[m] \in Assets
  BY <1>1 DEF Assets
<1>3. after \in [1..Len(hosted) -> Assets]
  BY <1>1, <1>2
<1>4. after \in Seq(Assets) /\ Len(after) = Len(hosted)
  BY <1>3
<1>5. \A m \in 1..Len(hosted) : after[m].image = IF m = n THEN i ELSE hosted[m].image
  BY <1>1 DEF Assets
<1>6. QED
  BY <1>4, <1>5

\* The types, and that every share's image has a row, hold initially.
LEMMA TypedInit == Init => TypeOK /\ SharesHaveRows
BY MediaAssumption DEF Init, TypeOK, SharesHaveRows, Times, Rows

\* A step of the upload routes or of the clock keeps the types.
LEMMA UploadTyped ==
  ASSUME TypeOK, SharesHaveRows,
         \/ \E mime \in Mimes : createMediaUploadGrant(mime)
         \/ \E u \in Uploads : Upload(u)
         \/ Tick
  PROVE  (TypeOK /\ SharesHaveRows)'
<1> USE MediaAssumption DEF TypeOK, SharesHaveRows, uploading, sharing
<1>1. ASSUME NEW mime \in Mimes, createMediaUploadGrant(mime) PROVE (TypeOK /\ SharesHaveRows)'
  BY <1>1 DEF createMediaUploadGrant, Grants, Times
<1>2. CASE Tick
  BY <1>2 DEF Tick, Times
<1>3. ASSUME NEW u \in Uploads, NEW grant \in grants, NEW i \in Images, StartUpload(u, grant, i)
      PROVE  (TypeOK /\ SharesHaveRows)'
  <2>1. [image |-> i, grant |-> grant] \in Tasks
    BY DEF Tasks
  <2>2. QED
    BY <1>3, <2>1 DEF StartUpload
<1>4. ASSUME NEW u \in Uploads, FinishStream(u) PROVE (TypeOK /\ SharesHaveRows)'
  <2>1. task[u] \in Tasks
    BY <1>4 DEF FinishStream
  <2>2. QED
    BY <1>4, <2>1 DEF FinishStream, Tasks
<1>5. ASSUME NEW u \in Uploads, RefuseStream(u) \/ AbandonUpload(u) PROVE (TypeOK /\ SharesHaveRows)'
  BY <1>5 DEF RefuseStream, AbandonUpload, EndUpload
<1>6. ASSUME NEW u \in Uploads, insertMediaAsset(u) PROVE (TypeOK /\ SharesHaveRows)'
  <2>1. [urn |-> None] \in Rows
    BY DEF Rows
  <2>2. rows' \in [Images -> Rows \cup {None}] /\ \A i \in Images : rows[i] # None => rows'[i] # None
    BY <1>6, <2>1 DEF insertMediaAsset
  <2>3. \A r \in Shares : at[r] # "idle" => call[r].image \in Images
    BY DEF Calls
  <2>4. QED
    BY <1>6, <2>2, <2>3 DEF insertMediaAsset, EndUpload
<1>7. QED
  BY <1>1, <1>2, <1>3, <1>4, <1>5, <1>6 DEF Upload

\* A step of a share keeps the types.
LEMMA ShareTyped ==
  ASSUME TypeOK, SharesHaveRows, AssetsShow, NEW r \in Shares, Share(r)
  PROVE  (TypeOK /\ SharesHaveRows)'
<1> USE MediaAssumption DEF TypeOK, SharesHaveRows, uploading, sharing, Goto
<1>1. at[r] # "idle" => call[r] \in Calls
  OBVIOUS
<1>2. ASSUME NEW m \in Members, NEW i \in Images, loadAsset(r, m, i) PROVE (TypeOK /\ SharesHaveRows)'
  <2>1. [author |-> m, image |-> i, asset |-> rows[i].urn, fresh |-> FALSE] \in Calls
    BY <1>2 DEF loadAsset, Calls, Rows
  <2>2. QED
    BY <1>2, <2>1 DEF loadAsset
<1>3. CASE readBytes(r)
  BY <1>3 DEF readBytes
<1>4. CASE registerLinkedInImageUpload(r)
  <2>1. [owner |-> call[r].author, image |-> None] \in Assets
    BY <1>1, <1>4 DEF registerLinkedInImageUpload, Calls, Assets
  <2>2. hosted' \in Seq(Assets)
    BY <1>4, <2>1 DEF registerLinkedInImageUpload
  <2>3. /\ call' \in [Shares -> Calls \cup {None}]
        /\ call'[r] # None /\ call'[r].image = call[r].image
        /\ \A q \in Shares : q # r => call'[q] = call[q]
    <3> DEFINE c == [call[r] EXCEPT !.asset = Len(hosted) + 1, !.fresh = TRUE]
    <3>1. call[r] \in Calls /\ Len(hosted) + 1 \in Nat
      BY <1>1, <1>4 DEF registerLinkedInImageUpload
    <3>2. c \in Calls /\ c.image = call[r].image
      BY <3>1 DEF Calls
    <3>3. call' = [call EXCEPT ![r].asset = Len(hosted) + 1, ![r].fresh = TRUE]
      BY <1>4 DEF registerLinkedInImageUpload
    <3>4. DOMAIN call' = Shares /\ call'[r] = c /\ \A q \in Shares : q # r => call'[q] = call[q]
      BY <3>3
    <3>5. call' = [q \in Shares |-> call'[q]]
      BY <3>3
    <3> HIDE DEF c
    <3>6. QED
      BY <3>2, <3>4, <3>5
  <2>4. QED
    BY <1>4, <2>2, <2>3 DEF registerLinkedInImageUpload
<1>5. CASE putLinkedInImage(r)
  <2>1. call[r].image \in Images
    BY <1>1, <1>5 DEF putLinkedInImage, Calls
  <2>2. hosted' \in Seq(Assets)
    BY <1>5, <2>1, PutKeepsAssets DEF putLinkedInImage
  <2>3. QED
    BY <1>5, <2>2 DEF putLinkedInImage
<1>6. ASSUME NEW accepted \in BOOLEAN, createPost(r, accepted) PROVE (TypeOK /\ SharesHaveRows)'
  <2>1. at[r] = "ugc" /\ call[r] \in Calls /\ call[r].asset \in Nat
    BY <1>1, <1>6 DEF createPost, AssetsShow, Shows
  <2>2. [author |-> call[r].author, image |-> call[r].image, asset |-> call[r].asset] \in Posts
    BY <2>1 DEF Calls, Posts
  <2>3. posts' \subseteq Posts
    BY <1>6, <2>2 DEF createPost
  <2>4. QED
    BY <1>6, <2>1, <2>3 DEF createPost
<1>7. CASE setMediaLinkedInAssetUrn(r)
  <2>1. call[r].image \in Images /\ rows[call[r].image] \in Rows /\ call[r].asset \in Nat \cup {None}
    BY <1>1, <1>7 DEF setMediaLinkedInAssetUrn, Calls
  <2>2. rows' \in [Images -> Rows \cup {None}] /\ \A i \in Images : rows[i] # None => rows'[i] # None
    BY <1>7, <2>1 DEF setMediaLinkedInAssetUrn, Rows
  <2>3. \A q \in Shares : at[q] # "idle" => call[q].image \in Images
    BY DEF Calls
  <2>4. QED
    BY <1>7, <2>2, <2>3 DEF setMediaLinkedInAssetUrn
<1>8. CASE AbandonShare(r)
  BY <1>8 DEF AbandonShare
<1>9. QED
  BY <1>2, <1>3, <1>4, <1>5, <1>6, <1>7, <1>8 DEF Share
-----------------------------------------------------------------------------
\* Files.

Checked == UploadsChecked /\ RowsHaveFiles

\* Files and grants are never taken away, and only an upload that has checked
\* its file adds a row: every step keeps rows, files and uploads in agreement.
LEMMA CheckedStep ==
  ASSUME TypeOK, SharesHaveRows, Checked, [Next]_vars
  PROVE  Checked'
<1> USE MediaAssumption DEF TypeOK, Checked, UploadsChecked, RowsHaveFiles, accepts
<1>1. CASE UNCHANGED vars
  BY <1>1 DEF vars, uploading, sharing
<1>2. ASSUME NEW mime \in Mimes, createMediaUploadGrant(mime) PROVE Checked'
  BY <1>2 DEF createMediaUploadGrant, sharing
<1>3. CASE Tick
  BY <1>3 DEF Tick, uploading, sharing
<1>4. ASSUME NEW u \in Uploads, Upload(u) PROVE Checked'
  <2>1. ASSUME NEW grant \in grants, NEW i \in Images, StartUpload(u, grant, i) PROVE Checked'
    BY <2>1 DEF StartUpload, sharing
  <2>2. CASE FinishStream(u)
    BY <2>2 DEF FinishStream, sharing
  <2>3. CASE RefuseStream(u) \/ AbandonUpload(u)
    BY <2>3 DEF RefuseStream, AbandonUpload, EndUpload, sharing
  <2>4. CASE insertMediaAsset(u)
    <3>1. /\ up[u] = "insert"
          /\ task[u].image \in files \ TooLarge
          /\ task[u].grant \in grants /\ task[u].grant.mime = MimeOf[task[u].image]
          /\ \A i \in Images : rows'[i] # None => rows[i] # None \/ i = task[u].image
      BY <2>4 DEF insertMediaAsset
    <3>2. RowsHaveFiles'
      BY <2>4, <3>1 DEF insertMediaAsset
    <3>3. UploadsChecked'
      BY <2>4, <3>1 DEF insertMediaAsset, EndUpload
    <3>4. QED
      BY <3>2, <3>3
  <2>5. QED
    BY <1>4, <2>1, <2>2, <2>3, <2>4 DEF Upload
<1>5. ASSUME NEW r \in Shares, Share(r) PROVE Checked'
  <2>1. UNCHANGED uploading
    BY <1>5 DEF Share, loadAsset, readBytes, registerLinkedInImageUpload, putLinkedInImage, createPost,
                setMediaLinkedInAssetUrn, AbandonShare
  <2>2. \A i \in Images : rows'[i] # None => rows[i] # None
    <3>1. CASE setMediaLinkedInAssetUrn(r)
      <4>1. rows[call[r].image] # None
        BY <3>1 DEF setMediaLinkedInAssetUrn, SharesHaveRows, Goto
      <4>2. QED
        BY <3>1, <4>1 DEF setMediaLinkedInAssetUrn
    <3>2. CASE ~setMediaLinkedInAssetUrn(r)
      BY <1>5, <3>2 DEF Share, loadAsset, readBytes, registerLinkedInImageUpload, putLinkedInImage,
                        createPost, AbandonShare
    <3>3. QED
      BY <3>1, <3>2
  <2>3. QED
    BY <2>1, <2>2 DEF uploading
<1>6. QED
  BY <1>1, <1>2, <1>3, <1>4, <1>5 DEF Next

-----------------------------------------------------------------------------
\* Assets.

ShowsAfter(n, i) == n \in 1..Len(hosted') /\ hosted'[n].image = i

\* What a step has to see to.
LEMMA AssetsAfter ==
  ASSUME \A i \in Images : rows'[i] # None /\ rows'[i].urn # None => ShowsAfter(rows'[i].urn, i),
         \A p \in posts' : ShowsAfter(p.asset, p.image),
         \A r \in Shares : at'[r] \in {"ugc", "save"} => ShowsAfter(call'[r].asset, call'[r].image),
         \A r \in Shares : at'[r] = "put" => ShowsAfter(call'[r].asset, None),
         \A q, r \in Shares : at'[q] = "put" /\ at'[r] = "put" /\ q # r => call'[q].asset # call'[r].asset
  PROVE  AssetsShow'
BY DEF AssetsShow, Shows, ShowsAfter

\* A change that touches no asset, no post and no share.
LEMMA AssetsUntouched ==
  ASSUME AssetsShow, UNCHANGED sharing,
         \A i \in Images : rows'[i] # None /\ rows'[i].urn # None => rows'[i] = rows[i]
  PROVE  AssetsShow'
BY MediaAssumption DEF AssetsShow, Shows, sharing

\* A change to one share alone, which leaves it with an asset it may have.
LEMMA OneShare ==
  ASSUME TypeOK, AssetsShow, NEW r \in Shares, UNCHANGED <<hosted, rows>>,
         \A q \in Shares : q # r => at'[q] = at[q] /\ call'[q] = call[q],
         at'[r] # "put",
         at'[r] \in {"ugc", "save"} => Shows(call'[r].asset, call'[r].image),
         \A p \in posts' : p \in posts \/ Shows(p.asset, p.image)
  PROVE  AssetsShow'
BY DEF AssetsShow, Shows

\* Every step of a share keeps assets, rows and posts in agreement.
LEMMA ShareShows ==
  ASSUME TypeOK, SharesHaveRows, AssetsShow, NEW r \in Shares, Share(r)
  PROVE  AssetsShow'
<1> USE MediaAssumption DEF Goto
<1>1. at[r] # "idle" => call[r] \in Calls /\ call[r].image \in Images
  BY DEF TypeOK, Calls
<1>2. hosted \in Seq(Assets) /\ Len(hosted) \in Nat
  BY DEF TypeOK
<1>3. ASSUME NEW m \in Members, NEW i \in Images, loadAsset(r, m, i) PROVE AssetsShow'
  <2>1. at'[r] = "ugc" => Shows(call'[r].asset, call'[r].image)
    BY <1>3 DEF loadAsset, AssetsShow, TypeOK
  <2>2. at'[r] \in {"read", "ugc"}
    BY <1>3 DEF loadAsset, TypeOK
  <2>3. QED
    BY <1>3, <2>1, <2>2, OneShare DEF loadAsset, TypeOK
<1>4. CASE readBytes(r)
  BY <1>4, OneShare DEF readBytes, TypeOK
<1>5. CASE registerLinkedInImageUpload(r)
  <2>1. /\ Len(hosted') = Len(hosted) + 1 /\ hosted'[Len(hosted) + 1].image = None
        /\ \A n \in 1..Len(hosted) : hosted'[n] = hosted[n]
    BY <1>2, <1>5 DEF registerLinkedInImageUpload
  <2>2. \A n, i : Shows(n, i) => ShowsAfter(n, i) /\ n # Len(hosted) + 1
    BY <1>2, <2>1 DEF Shows, ShowsAfter
  <2>3. /\ at' = [at EXCEPT ![r] = "put"] /\ UNCHANGED <<rows, posts>>
        /\ call'[r].asset = Len(hosted) + 1
        /\ \A q \in Shares : q # r => call'[q] = call[q]
    BY <1>1, <1>5 DEF registerLinkedInImageUpload, TypeOK, Calls
  <2>4. ShowsAfter(Len(hosted) + 1, None)
    BY <1>2, <2>1 DEF ShowsAfter
  <2>5. at'[r] = "put" /\ \A q \in Shares : q # r => at'[q] = at[q]
    BY <2>3 DEF TypeOK
  <2>6. \A q \in Shares : q # r /\ at[q] = "put" => call[q].asset # Len(hosted) + 1
    BY <2>2 DEF AssetsShow
  <2>7. /\ \A i \in Images : rows'[i] # None /\ rows'[i].urn # None => ShowsAfter(rows'[i].urn, i)
        /\ \A p \in posts' : ShowsAfter(p.asset, p.image)
        /\ \A q \in Shares : at'[q] \in {"ugc", "save"} => ShowsAfter(call'[q].asset, call'[q].image)
        /\ \A q \in Shares : at'[q] = "put" => ShowsAfter(call'[q].asset, None)
    BY <2>2, <2>3, <2>4, <2>5 DEF AssetsShow
  <2>8. \A p, q \in Shares : at'[p] = "put" /\ at'[q] = "put" /\ p # q => call'[p].asset # call'[q].asset
    BY <2>3, <2>5, <2>6 DEF AssetsShow
  <2>9. QED
    BY <2>7, <2>8, AssetsAfter
<1>6. CASE putLinkedInImage(r)
  <2> DEFINE n == call[r].asset
             i == call[r].image
  <2>1. at[r] = "put" /\ Shows(n, None) /\ i \in Images /\ i # None
    BY <1>1, <1>6 DEF putLinkedInImage, AssetsShow
  <2>2. /\ Len(hosted') = Len(hosted)
        /\ \A m \in 1..Len(hosted) : hosted'[m].image = IF m = n THEN i ELSE hosted[m].image
    BY <1>2, <1>6, <2>1, PutKeepsAssets DEF putLinkedInImage
  <2>3. \A m, j : Shows(m, j) /\ m # n => ShowsAfter(m, j)
    BY <2>2 DEF Shows, ShowsAfter
  <2>4. ShowsAfter(n, i)
    BY <2>1, <2>2 DEF Shows, ShowsAfter
  <2>5. \A m, j : Shows(m, j) /\ j \in Images => m # n
    BY <2>1 DEF Shows
  <2>6. /\ at' = [at EXCEPT ![r] = "ugc"] /\ UNCHANGED <<rows, call, posts>>
    BY <1>6 DEF putLinkedInImage
  <2>7. \A p \in posts : p.image \in Images
    BY DEF TypeOK, Posts
  <2>8. \A q \in Shares : at[q] # "idle" => call[q].image \in Images
    BY DEF TypeOK, Calls
  <2>9. at'[r] = "ugc" /\ \A q \in Shares : q # r => at'[q] = at[q]
    BY <2>6 DEF TypeOK
  <2>10. \A q \in Shares : q # r /\ at[q] = "put" => call[q].asset # n
    BY <2>1 DEF AssetsShow
  <2>11. n = call[r].asset /\ i = call[r].image
    OBVIOUS
  <2> HIDE DEF n, i
  <2>12. \A j \in Images : rows'[j] # None /\ rows'[j].urn # None => ShowsAfter(rows'[j].urn, j)
    BY <2>3, <2>5, <2>6 DEF AssetsShow
  <2>13. \A p \in posts' : ShowsAfter(p.asset, p.image)
    BY <2>3, <2>5, <2>6, <2>7 DEF AssetsShow
  <2>14. \A q \in Shares : at'[q] \in {"ugc", "save"} => ShowsAfter(call'[q].asset, call'[q].image)
    BY <2>3, <2>4, <2>5, <2>6, <2>8, <2>9, <2>11 DEF AssetsShow
  <2>15. \A q \in Shares : at'[q] = "put" => ShowsAfter(call'[q].asset, None)
    BY <2>3, <2>6, <2>9, <2>10 DEF AssetsShow
  <2>16. \A p, q \in Shares : at'[p] = "put" /\ at'[q] = "put" /\ p # q => call'[p].asset # call'[q].asset
    BY <2>6, <2>9 DEF AssetsShow
  <2>17. QED
    BY <2>12, <2>13, <2>14, <2>15, <2>16, AssetsAfter
<1>7. ASSUME NEW accepted \in BOOLEAN, createPost(r, accepted) PROVE AssetsShow'
  <2>1. Shows(call[r].asset, call[r].image)
    BY <1>7 DEF createPost, AssetsShow
  <2>2. \A p \in posts' : p \in posts \/ Shows(p.asset, p.image)
    BY <1>7, <2>1 DEF createPost
  <2>3. QED
    BY <1>7, <2>1, <2>2, OneShare DEF createPost, TypeOK
<1>8. CASE setMediaLinkedInAssetUrn(r)
  <2> DEFINE i == call[r].image
  <2>1. Shows(call[r].asset, i) /\ i \in Images /\ rows[i] \in Rows
    BY <1>1, <1>8 DEF setMediaLinkedInAssetUrn, AssetsShow, SharesHaveRows, TypeOK
  <2>2. \A j \in Images : rows'[j] # None /\ rows'[j].urn # None => Shows(rows'[j].urn, j)
    BY <1>8, <2>1 DEF setMediaLinkedInAssetUrn, AssetsShow, TypeOK, Rows
  <2>3. /\ at' = [at EXCEPT ![r] = "idle"] /\ UNCHANGED <<hosted, posts>>
        /\ \A q \in Shares : q # r => call'[q] = call[q]
    BY <1>8 DEF setMediaLinkedInAssetUrn, TypeOK
  <2>4. QED
    BY <2>2, <2>3 DEF AssetsShow, Shows, TypeOK
<1>9. CASE AbandonShare(r)
  BY <1>9, OneShare DEF AbandonShare, TypeOK
<1>10. QED
  BY <1>3, <1>4, <1>5, <1>6, <1>7, <1>8, <1>9 DEF Share

\* Every step keeps assets, rows and posts in agreement.
LEMMA AssetsStep ==
  ASSUME TypeOK, SharesHaveRows, AssetsShow, [Next]_vars
  PROVE  AssetsShow'
<1>1. CASE UNCHANGED <<rows, sharing>>
  BY <1>1, AssetsUntouched
<1>2. ASSUME NEW u \in Uploads, insertMediaAsset(u) PROVE AssetsShow'
  <2>1. \A i \in Images : rows'[i] # None /\ rows'[i].urn # None => rows'[i] = rows[i]
    BY <1>2 DEF insertMediaAsset, TypeOK
  <2>2. QED
    BY <1>2, <2>1, AssetsUntouched DEF insertMediaAsset
<1>3. ASSUME NEW r \in Shares, Share(r) PROVE AssetsShow'
  BY <1>3, ShareShows
<1>4. QED
  BY <1>1, <1>2, <1>3 DEF Next, vars, Upload, createMediaUploadGrant, StartUpload, FinishStream, RefuseStream,
                          AbandonUpload, Tick

-----------------------------------------------------------------------------
\* Theorems.

LEMMA InvInit == Init => Inv
<1> SUFFICES ASSUME Init PROVE Inv
  OBVIOUS
<1>1. TypeOK /\ SharesHaveRows
  BY TypedInit
<1>2. UploadsChecked /\ RowsHaveFiles /\ AssetsShow
  BY DEF Init, UploadsChecked, RowsHaveFiles, AssetsShow
<1>3. QED
  BY <1>1, <1>2 DEF Inv

LEMMA InvStep == Inv /\ [Next]_vars => Inv'
<1> SUFFICES ASSUME Inv, [Next]_vars PROVE Inv'
  OBVIOUS
<1>1. (TypeOK /\ SharesHaveRows)'
  <2>1. CASE UNCHANGED vars
    BY <2>1 DEF Inv, TypeOK, SharesHaveRows, vars, uploading, sharing
  <2>2. QED
    BY <2>1, UploadTyped, ShareTyped DEF Next, Inv
<1>2. Checked'
  BY CheckedStep DEF Inv, Checked
<1>3. AssetsShow'
  BY AssetsStep DEF Inv
<1>4. QED
  BY <1>1, <1>2, <1>3 DEF Inv, Checked

\* The inductive invariant holds in every reachable state.
LEMMA InvAlways == Spec => []Inv
BY InvInit, InvStep, PTL DEF Spec

\* In every reachable state the variables have their types, and a request holds
\* what it works on exactly while it is served.
THEOREM MediaTypes == Spec => []TypeOK
BY InvAlways, PTL DEF Inv

\* However uploads of one image overlap or break off, a row of media_assets has
\* its file, checked against a grant (routes/media.ts, store.ts).
THEOREM EveryRowHasItsFile == Spec => []RowsHaveFiles
BY InvAlways, PTL DEF Inv

\* However shares of one image race, every post, and every later post from a cached
\* URN, shows the image it was asked to (share-with-media.ts).
THEOREM PostsAreComplete == Spec => []PostsShowTheirImage
<1>1. Inv => PostsShowTheirImage
  BY DEF Inv, AssetsShow, Shows, PostsShowTheirImage
<1>2. QED
  BY <1>1, InvAlways, PTL

\* No step replaces or loses the URN cached with an image (media-store.ts:75).
THEOREM CachedUrnIsKept == Spec => CachedUrnStays
<1>1. ASSUME Inv, [Next]_vars, NEW i \in Images, rows[i] # None, rows[i].urn # None
      PROVE  rows'[i] = rows[i]
  <2>1. rows \in [Images -> Rows \cup {None}]
    BY <1>1 DEF Inv, TypeOK
  <2>2. ASSUME NEW u \in Uploads, insertMediaAsset(u) PROVE rows'[i] = rows[i]
    BY <1>1, <2>1, <2>2 DEF insertMediaAsset
  <2>3. ASSUME NEW r \in Shares, setMediaLinkedInAssetUrn(r) PROVE rows'[i] = rows[i]
    <3>1. CASE i = call[r].image
      <4>1. rows[i] \in Rows
        BY <1>1, <2>1
      <4>2. rows'[i] = [rows[i] EXCEPT !.urn = rows[i].urn]
        BY <1>1, <2>1, <2>3, <3>1 DEF setMediaLinkedInAssetUrn
      <4>3. QED
        BY <4>1, <4>2 DEF Rows
    <3>2. CASE i # call[r].image
      BY <2>1, <2>3, <3>2 DEF setMediaLinkedInAssetUrn
    <3>3. QED
      BY <3>1, <3>2
  <2>4. QED
    BY <1>1, <2>2, <2>3 DEF Next, vars, Upload, Share, createMediaUploadGrant, StartUpload, FinishStream,
       RefuseStream, AbandonUpload, Tick, loadAsset, readBytes, registerLinkedInImageUpload,
       putLinkedInImage, createPost, AbandonShare
<1>2. Inv /\ [Next]_vars =>
        [\A i \in Images : rows[i] # None /\ rows[i].urn # None => rows'[i] = rows[i]]_rows
  BY <1>1
<1>3. QED
  BY <1>2, InvAlways, PTL DEF Spec, CachedUrnStays
=============================================================================
