-------------------------- MODULE MemeUploadProofs --------------------------
(***************************************************************************)
(* Theorems about the memes and their files, for any number of requests,   *)
(* uploads, names, images, failures and crashes.                           *)
(***************************************************************************)
EXTENDS MemeUpload, FiniteSetTheorems, TLAPS

-----------------------------------------------------------------------------
(* The inductive invariant.  A meme keeps its files because of who may       *)
(* remove what: an upload in the hands of a request is that request's alone, *)
(* and the files of an upload that was recorded belong to one meme for ever, *)
(* so the request that replaced them there can remove them.                  *)

(* The requests that hold an upload no record shows yet, and those that     *)
(* know a meme by what they have read of it.                                *)
Uploading(q) == q.pc \in {"WRITE", "NAME", "SHA", "ADD", "REPLACE", "REMOVE_NEW"}
Referring(q) == q.pc \in {"REPLACE", "REMOVE_OLD", "WRITE_BACK"}

RequestIsSound(q) ==
  /\ q.pc = "IDLE" => q = Idle
  /\ q.pc = "WRITE_BACK" => q.upload = 0
  /\ Uploading(q) => /\ q.upload \in Upload /\ q.upload <= begun
                     /\ q.name \in Name /\ q.image \in Image
  /\ Referring(q) => /\ q.id \in Upload /\ q.id <= begun
                     /\ q.old \in Upload /\ q.old <= begun
                     /\ q.name \in Name /\ q.image \in Image

RequestsAreSound == \A r \in Request : RequestIsSound(req[r])

(* Of an upload that has not begun there is nothing. *)
NothingAhead ==
  /\ \A u \in Upload : u > begun => files[u] = 0 /\ meme[u] = None
  /\ \A m \in Memes : meme[m].upload <= begun

(* Nobody but its request knows of an upload in hand. *)
InHandAlone ==
  \A r \in Request : Uploading(req[r]) =>
    /\ meme[req[r].upload] = None
    /\ \A m \in Memes : meme[m].upload # req[r].upload
    /\ \A s \in Request : /\ Uploading(req[s]) /\ req[s].upload = req[r].upload => s = r
                          /\ Referring(req[s]) => /\ req[s].old # req[r].upload
                                                  /\ req[s].id # req[r].upload

FilesAreWritten ==
  \A r \in Request :
    /\ req[r].pc = "WRITE" => files[req[r].upload] < Files
    /\ req[r].pc \in {"NAME", "SHA", "ADD", "REPLACE"} => files[req[r].upload] = Files

(* Files are of one meme only, among the records and in what was read.      *)
OneHome ==
  /\ \A m, k \in Memes : meme[m].upload = meme[k].upload => m = k
  /\ \A r \in Request : Referring(req[r]) =>
       /\ \A m \in Memes : meme[m].upload = req[r].old => m = req[r].id
       /\ \A s \in Request : Referring(req[s]) /\ req[s].old = req[r].old => req[s].id = req[r].id

(* What is about to be removed is no longer shown. *)
OldIsReplaced ==
  \A r \in Request : req[r].pc = "REMOVE_OLD" /\ req[r].id \in Memes \ reverted =>
    meme[req[r].id].upload # req[r].old

UploadInv ==
  /\ TypeOK /\ RequestsAreSound /\ NothingAhead /\ InHandAlone /\ FilesAreWritten
  /\ OneHome /\ OldIsReplaced /\ MemesHaveFiles

-----------------------------------------------------------------------------
(* Facts about records and requests. *)

LEMMA RecordsAreMemes ==
  ASSUME TypeOK
  PROVE  /\ \A m \in Memes : m \in Upload /\ meme[m] \in Records
         /\ \A m \in Upload : meme[m] \in Records => m \in Memes
         /\ \A m \in Upload : m \notin Memes => meme[m] = None
         /\ \A u \in Upload : u \in Nat /\ u # 0 /\ u <= MaxUploads
BY NoneAssumption, BoundsAssumption DEF TypeOK, Memes, Upload

LEMMA IdleRequest ==
  /\ Idle \in Requests /\ ~Uploading(Idle) /\ ~Referring(Idle) /\ Idle.pc = "IDLE"
  /\ Idle.upload = 0 /\ Idle.old = 0
BY DEF Idle, Requests, Steps, Uploading, Referring

(* A request that ends leaves the others as they were. *)
LEMMA RequestDone ==
  ASSUME TypeOK, NEW r \in Request, Done(r)
  PROVE  /\ req' \in [Request -> Requests] /\ req'[r] = Idle
         /\ \A s \in Request : s # r => req'[s] = req[s]
BY IdleRequest DEF TypeOK, Done

LEMMA RequestMoves ==
  ASSUME TypeOK, NEW r \in Request, NEW pc \in Steps, Goto(r, pc)
  PROVE  /\ req' \in [Request -> Requests]
         /\ req'[r].pc = pc
         /\ req'[r].upload = req[r].upload /\ req'[r].name = req[r].name
         /\ req'[r].image = req[r].image /\ req'[r].id = req[r].id /\ req'[r].old = req[r].old
         /\ \A s \in Request : s # r => req'[s] = req[s]
BY DEF TypeOK, Goto, Requests

-----------------------------------------------------------------------------
(* The steps, by what they do to requests and records. *)

(* A request ends and leaves records and files as they are. *)
LEMMA EndKeepsInv ==
  ASSUME UploadInv, NEW r \in Request, Done(r),
         UNCHANGED <<files, meme, begun, reverted, raced>>,
         leaked' \subseteq Upload, trouble' \in Nat
  PROVE  UploadInv'
<1>1. /\ req' \in [Request -> Requests] /\ req'[r] = Idle
      /\ \A s \in Request : s # r => req'[s] = req[s]
  BY RequestDone DEF UploadInv
<1>2. \A s \in Request : req'[s] = Idle \/ req'[s] = req[s]
  BY <1>1
<1>3. TypeOK' /\ RequestsAreSound' /\ NothingAhead' /\ MemesHaveFiles' /\ Memes' = Memes
  BY <1>1, <1>2, IdleRequest
  DEF UploadInv, TypeOK, RequestsAreSound, RequestIsSound, NothingAhead, MemesHaveFiles, Memes
<1>4. InHandAlone'
  BY <1>2, <1>3, IdleRequest DEF UploadInv, InHandAlone
<1>5. FilesAreWritten' /\ OneHome' /\ OldIsReplaced'
  BY <1>2, <1>3, IdleRequest DEF UploadInv, FilesAreWritten, OneHome, OldIsReplaced
<1>. QED  BY <1>3, <1>4, <1>5 DEF UploadInv

(* A request goes on with the upload in its hands. *)
LEMMA GoOnKeepsInv ==
  ASSUME UploadInv, NEW r \in Request,
         NEW pc \in {"SHA", "ADD", "REMOVE_NEW"}, Goto(r, pc),
         Uploading(req[r]), req[r].pc # "WRITE",
         pc # "REMOVE_NEW" => req[r].pc # "REMOVE_NEW",
         UNCHANGED <<files, meme, begun, historyVars, trouble>>
  PROVE  UploadInv'
<1>1. /\ req' \in [Request -> Requests]
      /\ req'[r].pc = pc
      /\ req'[r].upload = req[r].upload /\ req'[r].name = req[r].name
      /\ req'[r].image = req[r].image
      /\ \A s \in Request : s # r => req'[s] = req[s]
  BY RequestMoves DEF UploadInv, Steps
<1>2. \A s \in Request :
        /\ Uploading(req'[s]) => Uploading(req[s]) /\ req'[s].upload = req[s].upload
        /\ Referring(req'[s]) => req'[s] = req[s]
        /\ req'[s].pc \in {"REMOVE_OLD", "WRITE"} => req'[s] = req[s]
  BY <1>1 DEF Uploading, Referring
<1>3. TypeOK' /\ NothingAhead' /\ MemesHaveFiles' /\ Memes' = Memes
  BY <1>1 DEF UploadInv, TypeOK, NothingAhead, MemesHaveFiles, Memes, historyVars
<1>4. RequestsAreSound'
  BY <1>1 DEF UploadInv, RequestsAreSound, RequestIsSound, Uploading, Referring
<1>5. InHandAlone'
  BY <1>2, <1>3 DEF UploadInv, InHandAlone
<1>6. OneHome' /\ OldIsReplaced'
  BY <1>2, <1>3 DEF UploadInv, OneHome, OldIsReplaced, historyVars
<1>7. FilesAreWritten'
  BY <1>1 DEF UploadInv, FilesAreWritten, Uploading
<1>. QED  BY <1>3, <1>4, <1>5, <1>6, <1>7 DEF UploadInv

LEMMA BeginKeepsInv ==
  ASSUME UploadInv, NEW r \in Request, Begin(r)
  PROVE  UploadInv'
<1> DEFINE u == begun + 1
<1>1. PICK n \in Name, i \in Image :
        req' = [req EXCEPT ![r] = [Idle EXCEPT !.pc = "WRITE", !.upload = u,
                                               !.name = n, !.image = i]]
  BY DEF Begin
<1>2. /\ u \in Upload /\ begun' = u /\ begun \in Nat /\ req[r] = Idle
      /\ UNCHANGED <<files, meme, historyVars, trouble>>
  BY BoundsAssumption DEF Begin, UploadInv, TypeOK, Upload
<1>3. /\ req' \in [Request -> Requests]
      /\ req'[r].pc = "WRITE" /\ req'[r].upload = u /\ req'[r].name = n /\ req'[r].image = i
      /\ \A s \in Request : s # r => req'[s] = req[s]
  BY <1>1, <1>2 DEF UploadInv, TypeOK, Requests, Steps, Idle
<1>4. files[u] = 0 /\ meme[u] = None /\ \A m \in Memes : meme[m].upload # u
  <2>1. u > begun /\ \A k \in Upload : k <= begun => k # u
    BY <1>2 DEF Upload
  <2>2. \A m \in Memes : meme[m].upload \in Upload /\ meme[m].upload <= begun
    BY RecordsAreMemes DEF UploadInv, NothingAhead, Records
  <2>. QED  BY <1>2, <2>1, <2>2 DEF UploadInv, NothingAhead
<1>5. \A s \in Request :
        /\ Uploading(req[s]) => req[s].upload # u
        /\ Referring(req[s]) => req[s].old # u /\ req[s].id # u
  <2>1. \A k \in Upload : k <= begun => k # u
    BY <1>2 DEF Upload
  <2>. QED  BY <2>1 DEF UploadInv, RequestsAreSound, RequestIsSound
<1>6. \A k \in Upload : (k <= begun => k <= u) /\ (k > u => k > begun)
  BY <1>2 DEF Upload
<1>. HIDE DEF u
<1>7. TypeOK' /\ NothingAhead' /\ MemesHaveFiles' /\ Memes' = Memes
  <2>1. Memes' = Memes /\ \A m \in Memes : meme[m].upload \in Upload
    BY <1>2, RecordsAreMemes DEF Memes, Records, UploadInv
  <2>2. u \in 0 .. MaxUploads /\ u <= u
    BY <1>2, BoundsAssumption DEF Upload
  <2>3. TypeOK'
    BY <1>2, <1>3, <2>2 DEF UploadInv, TypeOK, historyVars
  <2>4. MemesHaveFiles'
    BY <1>2, <2>1 DEF UploadInv, MemesHaveFiles, historyVars
  <2>5. NothingAhead'
    BY <1>2, <1>6, <2>1 DEF UploadInv, NothingAhead
  <2>. QED  BY <2>1, <2>3, <2>4, <2>5
<1>8. RequestsAreSound'
  <2>1. RequestIsSound(req[r])'
    <3>1. u <= u
      BY <1>2 DEF Upload
    <3>. QED  BY <1>2, <1>3, <3>1 DEF RequestIsSound, Uploading, Referring
  <2>2. ASSUME NEW s \in Request, s # r  PROVE RequestIsSound(req[s])'
    BY <1>2, <1>3, <1>6, <2>2 DEF UploadInv, RequestsAreSound, RequestIsSound
  <2>. QED  BY <2>1, <2>2 DEF RequestsAreSound
<1>9. InHandAlone'
  BY <1>2, <1>3, <1>4, <1>5, <1>7 DEF UploadInv, InHandAlone, Uploading, Referring
<1>10. FilesAreWritten'
  BY <1>2, <1>3, <1>4 DEF UploadInv, FilesAreWritten, Files
<1>11. OneHome' /\ OldIsReplaced'
  BY <1>2, <1>3, <1>7 DEF UploadInv, OneHome, OldIsReplaced, Referring, historyVars
<1>. QED  BY <1>7, <1>8, <1>9, <1>10, <1>11 DEF UploadInv

LEMMA WriteKeepsInv ==
  ASSUME UploadInv, NEW r \in Request, WriteAtomic(r)
  PROVE  UploadInv'
<1> DEFINE u == req[r].upload
<1>1. /\ req[r].pc = "WRITE" /\ Uploading(req[r]) /\ u \in Upload /\ u <= begun
      /\ files' = [files EXCEPT ![u] = @ + 1]
      /\ UNCHANGED <<meme, begun, historyVars, trouble>>
  BY DEF WriteAtomic, UploadInv, RequestsAreSound, RequestIsSound, Uploading
<1>2. /\ files[u] \in 0 .. 2 /\ files'[u] = files[u] + 1
      /\ files' \in [Upload -> 0 .. Files] /\ \A k \in Upload : k # u => files'[k] = files[k]
  BY <1>1 DEF UploadInv, TypeOK, FilesAreWritten, Files
<1>3. /\ req' \in [Request -> Requests]
      /\ req'[r].pc = IF files'[u] = Files THEN "NAME" ELSE "WRITE"
      /\ req'[r].upload = req[r].upload /\ req'[r].name = req[r].name
      /\ req'[r].image = req[r].image
      /\ \A s \in Request : s # r => req'[s] = req[s]
  <2>1. CASE files'[u] = Files
    BY <1>1, <2>1, RequestMoves DEF WriteAtomic, UploadInv, Steps
  <2>2. CASE files'[u] # Files
    BY <1>1, <2>2 DEF WriteAtomic, UploadInv, TypeOK
  <2>. QED  BY <2>1, <2>2
<1>4. \A s \in Request :
        /\ Uploading(req'[s]) => Uploading(req[s]) /\ req'[s].upload = req[s].upload
        /\ Referring(req'[s]) => req'[s] = req[s]
        /\ req'[s].pc = "REMOVE_OLD" => req'[s] = req[s]
  BY <1>1, <1>3 DEF Uploading, Referring
<1>5. Memes' = Memes /\ (\A m \in Memes : meme[m].upload # u)
      /\ \A s \in Request : s # r /\ Uploading(req[s]) => req[s].upload # u /\ req[s].upload \in Upload
  BY <1>1 DEF UploadInv, InHandAlone, Memes, RequestsAreSound, RequestIsSound
<1>. HIDE DEF u
<1>6. TypeOK'
  BY <1>1, <1>2, <1>3 DEF UploadInv, TypeOK, historyVars
<1>7. NothingAhead'
  <2>1. \A k \in Upload : k > begun => k # u
    BY <1>1 DEF Upload, UploadInv, TypeOK
  <2>. QED  BY <1>1, <1>2, <1>5, <2>1 DEF UploadInv, NothingAhead
<1>8. MemesHaveFiles'
  BY <1>1, <1>2, <1>5, RecordsAreMemes DEF UploadInv, MemesHaveFiles, historyVars, Records
<1>9. RequestsAreSound'
  BY <1>1, <1>3 DEF UploadInv, RequestsAreSound, RequestIsSound, Uploading, Referring
<1>10. InHandAlone'
  BY <1>1, <1>4, <1>5 DEF UploadInv, InHandAlone
<1>11. FilesAreWritten'
  <2>1. ASSUME NEW s \in Request, s # r
        PROVE  /\ req'[s].pc = "WRITE" => files'[req'[s].upload] < Files
               /\ req'[s].pc \in {"NAME", "SHA", "ADD", "REPLACE"} => files'[req'[s].upload] = Files
    <3>1. Uploading(req[s]) => files'[req[s].upload] = files[req[s].upload]
      BY <1>2, <1>5, <2>1
    <3>. QED  BY <1>3, <2>1, <3>1 DEF UploadInv, FilesAreWritten, Uploading
  <2>2. /\ req'[r].pc = "WRITE" => files'[req'[r].upload] < Files
        /\ req'[r].pc \in {"NAME", "SHA", "ADD", "REPLACE"} => files'[req'[r].upload] = Files
    BY <1>2, <1>3 DEF u, Files
  <2>. QED  BY <2>1, <2>2 DEF FilesAreWritten
<1>12. OneHome' /\ OldIsReplaced'
  BY <1>1, <1>4, <1>5 DEF UploadInv, OneHome, OldIsReplaced, historyVars
<1>. QED  BY <1>6, <1>7, <1>8, <1>9, <1>10, <1>11, <1>12 DEF UploadInv

(* A request finds a meme and remembers whose files it showed. *)
LEMMA LookUpKeepsInv ==
  ASSUME UploadInv, NEW r \in Request, NEW m \in Memes,
         req' \in [Request -> Requests],
         \A s \in Request : s # r => req'[s] = req[s],
         req'[r].id = m, req'[r].old = meme[m].upload,
         req'[r].name \in Name, req'[r].image \in Image,
         \/ req[r].pc = "NAME" /\ req'[r].pc = "REPLACE" /\ req'[r].upload = req[r].upload
         \/ req'[r].pc = "WRITE_BACK" /\ req'[r].upload = 0,
         UNCHANGED <<files, meme, begun, historyVars, trouble>>
  PROVE  UploadInv'
<1>1. /\ m \in Upload /\ meme[m] # None
      /\ meme[m].upload \in Upload /\ meme[m].upload <= begun
  BY RecordsAreMemes DEF UploadInv, NothingAhead, Records, Memes
<1>2. m <= begun
  <2>1. ~(m > begun) /\ begun \in Int /\ m \in Int
    BY <1>1, BoundsAssumption DEF UploadInv, NothingAhead, TypeOK, Upload
  <2>. QED  BY <2>1
<1>3. TypeOK' /\ NothingAhead' /\ MemesHaveFiles' /\ Memes' = Memes
  BY DEF UploadInv, TypeOK, NothingAhead, MemesHaveFiles, Memes, historyVars
<1>4. \A s \in Request :
        /\ Uploading(req'[s]) => Uploading(req[s]) /\ req'[s].upload = req[s].upload
        /\ req'[s].pc \in {"REMOVE_OLD", "WRITE"} => req'[s] = req[s]
  BY DEF Uploading
<1>5. \A s \in Request : Uploading(req[s]) => meme[m].upload # req[s].upload /\ m # req[s].upload
  BY <1>1 DEF UploadInv, InHandAlone
<1>6. RequestsAreSound'
  BY <1>1, <1>2 DEF UploadInv, RequestsAreSound, RequestIsSound, Uploading, Referring
<1>7. InHandAlone'
  <2>1. \A s, t \in Request : Uploading(req'[s]) /\ Referring(req'[t]) =>
                               req'[t].old # req'[s].upload /\ req'[t].id # req'[s].upload
    BY <1>4, <1>5 DEF UploadInv, InHandAlone
  <2>. QED  BY <1>3, <1>4, <2>1 DEF UploadInv, InHandAlone
<1>8. FilesAreWritten'
  BY <1>4 DEF UploadInv, FilesAreWritten
<1>9. OneHome'
  <2>1. \A k \in Memes : meme[k].upload = meme[m].upload => k = m
    BY DEF UploadInv, OneHome
  <2>2. \A s \in Request : Referring(req[s]) /\ req[s].old = meme[m].upload => req[s].id = m
    BY DEF UploadInv, OneHome
  <2>3. \A s \in Request : Referring(req'[s]) =>
          \A k \in Memes : meme[k].upload = req'[s].old => k = req'[s].id
    BY <2>1 DEF UploadInv, OneHome
  <2>4. \A s, t \in Request : Referring(req'[s]) /\ Referring(req'[t]) /\ req'[t].old = req'[s].old
                              => req'[t].id = req'[s].id
    BY <2>2 DEF UploadInv, OneHome
  <2>. QED  BY <1>3, <2>3, <2>4 DEF UploadInv, OneHome
<1>10. OldIsReplaced'
  BY <1>3, <1>4 DEF UploadInv, OldIsReplaced, historyVars
<1>. QED  BY <1>3, <1>6, <1>7, <1>8, <1>9, <1>10 DEF UploadInv

LEMMA FindNameKeepsInv ==
  ASSUME UploadInv, NEW r \in Request, FindName(r)
  PROVE  UploadInv'
<1>1. /\ req[r].pc = "NAME" /\ Uploading(req[r])
      /\ UNCHANGED <<files, meme, begun, historyVars, trouble>>
  BY DEF FindName, Uploading
<1>2. CASE Goto(r, "SHA")
  BY <1>1, <1>2, GoOnKeepsInv
<1>3. CASE \E m \in Named(req[r].name) :
             req' = [req EXCEPT ![r].pc = "REPLACE", ![r].id = m, ![r].old = meme[m].upload]
  <2>1. PICK m \in Memes :
          req' = [req EXCEPT ![r].pc = "REPLACE", ![r].id = m, ![r].old = meme[m].upload]
    BY <1>3 DEF Named
  <2>2. /\ req \in [Request -> Requests] /\ req[r].name \in Name /\ req[r].image \in Image
        /\ m \in Upload /\ meme[m].upload \in Upload
    BY <1>1, RecordsAreMemes DEF UploadInv, TypeOK, RequestsAreSound, RequestIsSound, Records
  <2>3. /\ req' \in [Request -> Requests] /\ \A s \in Request : s # r => req'[s] = req[s]
        /\ req'[r].pc = "REPLACE" /\ req'[r].id = m /\ req'[r].old = meme[m].upload
        /\ req'[r].upload = req[r].upload /\ req'[r].name = req[r].name
        /\ req'[r].image = req[r].image
    BY <2>1, <2>2 DEF Requests, Steps
  <2>. QED  BY <1>1, <2>2, <2>3, LookUpKeepsInv
<1>. QED  BY <1>2, <1>3 DEF FindName

LEMMA ReadKeepsInv ==
  ASSUME UploadInv, NEW r \in Request, ReadMeme(r)
  PROVE  UploadInv'
<1>1. PICK m \in Memes :
        req' = [req EXCEPT ![r] = [pc |-> "WRITE_BACK", upload |-> 0, name |-> meme[m].name,
                                   image |-> meme[m].image, id |-> m,
                                   old |-> meme[m].upload]]
  BY DEF ReadMeme
<1>2. /\ req \in [Request -> Requests] /\ m \in Upload /\ meme[m].upload \in Upload
      /\ meme[m].name \in Name /\ meme[m].image \in Image
      /\ UNCHANGED <<files, meme, begun, historyVars, trouble>>
  BY RecordsAreMemes DEF UploadInv, TypeOK, Records, ReadMeme
<1>3. /\ req' \in [Request -> Requests] /\ \A s \in Request : s # r => req'[s] = req[s]
      /\ req'[r].pc = "WRITE_BACK" /\ req'[r].id = m /\ req'[r].old = meme[m].upload
      /\ req'[r].upload = 0 /\ req'[r].name = meme[m].name /\ req'[r].image = meme[m].image
  BY <1>1, <1>2 DEF Requests, Steps
<1>. QED  BY <1>2, <1>3, LookUpKeepsInv

LEMMA FindImageKeepsInv ==
  ASSUME UploadInv, NEW r \in Request, FindImage(r)
  PROVE  UploadInv'
<1>1. /\ req[r].pc = "SHA" /\ Uploading(req[r])
      /\ UNCHANGED <<files, meme, begun, historyVars, trouble>>
      /\ Goto(r, "REMOVE_NEW") \/ Goto(r, "ADD")
  BY DEF FindImage, Uploading
<1>. QED  BY <1>1, GoOnKeepsInv

(* The record of a meme that is there gets the files of the upload in hand. *)
LEMMA ReplaceKeepsInv ==
  ASSUME UploadInv, NEW r \in Request, Replace(r)
  PROVE  UploadInv'
<1> DEFINE q == req[r]
           record == [upload |-> q.upload, name |-> q.name, image |-> q.image]
<1>1. /\ q.pc = "REPLACE" /\ Uploading(q) /\ Referring(q)
      /\ UNCHANGED <<files, begun, raced, trouble>>
      /\ q.upload \in Upload /\ q.upload <= begun /\ q.name \in Name /\ q.image \in Image
      /\ q.id \in Upload /\ q.id <= begun /\ q.old \in Upload
  BY DEF Replace, UploadInv, RequestsAreSound, RequestIsSound, Uploading, Referring
<1>2. CASE Goto(r, "REMOVE_NEW") /\ UNCHANGED <<meme, leaked, reverted>>
  BY <1>1, <1>2, GoOnKeepsInv DEF historyVars
<1>3. ASSUME Goto(r, "REMOVE_OLD"), reverted' = reverted \ {q.id},
             meme' = (IF q.id \in Memes THEN [meme EXCEPT ![q.id] = record] ELSE meme),
             leaked' \subseteq Upload
      PROVE  UploadInv'
  <2>1. /\ req' \in [Request -> Requests]
        /\ req'[r].pc = "REMOVE_OLD" /\ req'[r].id = q.id /\ req'[r].old = q.old
        /\ req'[r].name = q.name /\ req'[r].image = q.image
        /\ \A s \in Request : s # r => req'[s] = req[s]
    BY <1>3, RequestMoves DEF UploadInv, Steps
  <2>2. \A s \in Request :
          /\ Uploading(req'[s]) => s # r /\ req'[s] = req[s]
          /\ Referring(req'[s]) => /\ Referring(req[s])
                                   /\ req'[s].id = req[s].id /\ req'[s].old = req[s].old
          /\ req'[s].pc \in {"WRITE", "NAME", "SHA", "ADD", "REPLACE"} => req'[s] = req[s]
    BY <1>1, <2>1 DEF Uploading, Referring
  <2>3. /\ record \in Records /\ record # None /\ record.upload = q.upload
        /\ meme \in [Upload -> Records \cup {None}]
    BY <1>1, NoneAssumption DEF Records, UploadInv, TypeOK
  <2>. HIDE DEF record
  <2>4. /\ Memes' = Memes /\ meme' \in [Upload -> Records \cup {None}]
        /\ \A m \in Upload : m # q.id \/ m \notin Memes => meme'[m] = meme[m]
        /\ q.id \in Memes => meme'[q.id] = record
    BY <1>1, <1>3, <2>3 DEF Memes
  <2>5. /\ \A m \in Memes : m \in Upload /\ meme[m].upload # q.upload
        /\ \A s \in Request :
             /\ s # r /\ Uploading(req[s]) => req[s].upload # q.upload /\ q.id # req[s].upload
             /\ Referring(req[s]) => req[s].old # q.upload
        /\ files[q.upload] = Files
    BY <1>1 DEF UploadInv, InHandAlone, FilesAreWritten, Memes
  <2>. HIDE DEF q
  <2>6. TypeOK' /\ NothingAhead'
    <3>1. TypeOK'
      BY <1>1, <1>3, <2>1, <2>4 DEF UploadInv, TypeOK
    <3>2. \A u \in Upload : u > begun => meme'[u] = None
      BY <2>4 DEF UploadInv, NothingAhead, Memes
    <3>3. \A m \in Memes : meme'[m].upload <= begun
      BY <1>1, <2>3, <2>4, <2>5 DEF UploadInv, NothingAhead
    <3>. QED  BY <1>1, <2>4, <3>1, <3>2, <3>3 DEF UploadInv, NothingAhead
  <2>7. RequestsAreSound'
    <3>1. RequestIsSound(req[r])'
      BY <1>1, <2>1 DEF RequestIsSound, Uploading, UploadInv, RequestsAreSound, Referring, q
    <3>2. ASSUME NEW s \in Request, s # r  PROVE RequestIsSound(req[s])'
      BY <1>1, <2>1, <3>2 DEF UploadInv, RequestsAreSound, RequestIsSound
    <3>. QED  BY <3>1, <3>2 DEF RequestsAreSound
  <2>8. InHandAlone'
    <3>. SUFFICES ASSUME NEW s \in Request, s # r, Uploading(req[s]), req'[s] = req[s]
                  PROVE  /\ meme'[req[s].upload] = None
                         /\ \A m \in Memes : meme'[m].upload # req[s].upload
                         /\ \A t \in Request :
                              /\ Uploading(req'[t]) /\ req'[t].upload = req[s].upload => t = s
                              /\ Referring(req'[t]) => /\ req'[t].old # req[s].upload
                                                       /\ req'[t].id # req[s].upload
      BY <2>2, <2>4 DEF InHandAlone
    <3>1. meme'[req[s].upload] = None
      BY <2>4, <2>5 DEF UploadInv, InHandAlone, RequestsAreSound, RequestIsSound
    <3>2. \A m \in Memes : meme'[m].upload # req[s].upload
      BY <2>3, <2>4, <2>5 DEF UploadInv, InHandAlone
    <3>. QED  BY <2>2, <3>1, <3>2 DEF UploadInv, InHandAlone
  <2>9. FilesAreWritten'
    BY <1>1, <2>2 DEF UploadInv, FilesAreWritten
  <2>10. OneHome'
    <3>1. \A m, k \in Memes : meme'[m].upload = meme'[k].upload => m = k
      BY <2>3, <2>4, <2>5 DEF UploadInv, OneHome
    <3>2. \A s \in Request : Referring(req[s]) =>
            \A m \in Memes : meme'[m].upload = req[s].old => m = req[s].id
      BY <2>3, <2>4, <2>5 DEF UploadInv, OneHome
    <3>. QED  BY <2>2, <2>4, <3>1, <3>2 DEF UploadInv, OneHome
  <2>11. OldIsReplaced'
    <3>1. ASSUME NEW s \in Request, req'[s].pc = "REMOVE_OLD", req'[s].id \in Memes \ reverted'
          PROVE  meme'[req'[s].id].upload # req'[s].old
      <4>1. Referring(req'[s])
        BY <3>1 DEF Referring
      <4>2. CASE req[s].id = q.id
        BY <2>2, <2>3, <2>4, <2>5, <3>1, <4>1, <4>2
      <4>3. CASE req[s].id # q.id
        <5>1. s # r /\ req'[s] = req[s]
          BY <2>1, <4>3 DEF q
        <5>. QED  BY <1>3, <2>4, <2>5, <3>1, <4>3, <5>1 DEF UploadInv, OldIsReplaced
      <4>. QED  BY <4>2, <4>3
    <3>. QED  BY <2>4, <3>1 DEF OldIsReplaced
  <2>12. MemesHaveFiles'
    <3>1. \A m \in Memes \ reverted' : files[meme'[m].upload] = Files
      BY <1>3, <2>3, <2>4, <2>5 DEF UploadInv, MemesHaveFiles
    <3>. QED  BY <1>1, <2>4, <2>10, <3>1 DEF MemesHaveFiles, OneHome
  <2>. QED  BY <2>6, <2>7, <2>8, <2>9, <2>10, <2>11, <2>12 DEF UploadInv
<1>4. ASSUME NEW x \in Upload  PROVE leaked \cup {x} \subseteq Upload /\ leaked \subseteq Upload
  BY <1>4 DEF UploadInv, TypeOK
<1>5. q.id \in Memes => meme[q.id].upload \in Upload
  BY RecordsAreMemes DEF UploadInv, Records
<1>6. CASE ~(Goto(r, "REMOVE_NEW") /\ UNCHANGED <<meme, leaked, reverted>>)
  <2>1. leaked' \subseteq Upload
    <3>1. leaked' = leaked \cup (IF q.id \in Memes THEN {meme[q.id].upload} \ {q.old}
                                                   ELSE {q.upload})
      BY <1>6 DEF Replace
    <3>. QED  BY <1>1, <1>4, <1>5, <3>1
  <2>. QED  BY <1>3, <1>6, <2>1 DEF Replace
<1>. QED  BY <1>2, <1>6

(* The upload in hand becomes a meme, under its own id. *)
LEMMA AddKeepsInv ==
  ASSUME UploadInv, NEW r \in Request, AddMeme(r)
  PROVE  UploadInv'
<1> DEFINE q == req[r]
           record == [upload |-> q.upload, name |-> q.name, image |-> q.image]
<1>1. /\ q.pc = "ADD" /\ Uploading(q) /\ Done(r)
      /\ UNCHANGED <<files, begun, reverted, trouble>>
      /\ q.upload \in Upload /\ q.upload <= begun /\ q.name \in Name /\ q.image \in Image
  BY DEF AddMeme, UploadInv, RequestsAreSound, RequestIsSound, Uploading
<1>2. CASE leaked' = leaked \cup {q.upload} /\ UNCHANGED <<meme, raced>>
  <2>1. leaked' \subseteq Upload /\ trouble' \in Nat
    BY <1>1, <1>2 DEF UploadInv, TypeOK
  <2>. QED  BY <1>1, <1>2, <2>1, EndKeepsInv
<1>3. CASE /\ meme' = [meme EXCEPT ![q.upload] = record]
           /\ raced' = (IF FoundFreeBy(q.name) # {r} THEN raced \cup {q.name} ELSE raced)
           /\ UNCHANGED leaked
  <2>1. /\ req' \in [Request -> Requests] /\ req'[r] = Idle
        /\ \A s \in Request : s # r => req'[s] = req[s]
    BY <1>1, RequestDone DEF UploadInv
  <2>2. /\ record \in Records /\ record # None /\ record.upload = q.upload
        /\ meme \in [Upload -> Records \cup {None}]
    BY <1>1, NoneAssumption DEF Records, UploadInv, TypeOK
  <2>. HIDE DEF record
  <2>3. /\ Memes' = Memes \cup {q.upload} /\ q.upload \notin Memes
        /\ meme' \in [Upload -> Records \cup {None}] /\ meme'[q.upload] = record
        /\ \A m \in Upload : m # q.upload => meme'[m] = meme[m]
    BY <1>1, <1>3, <2>2 DEF Memes, UploadInv, InHandAlone
  <2>4. /\ \A m \in Memes : m \in Upload /\ m # q.upload /\ meme'[m] = meme[m]
                           /\ meme[m].upload # q.upload
        /\ \A s \in Request :
             /\ s # r /\ Uploading(req[s]) => req[s].upload # q.upload
             /\ Referring(req[s]) => req[s].old # q.upload /\ req[s].id # q.upload
        /\ files[q.upload] = Files
    BY <1>1, <2>3 DEF UploadInv, InHandAlone, FilesAreWritten, Memes
  <2>5. \A s \in Request : Uploading(req'[s]) \/ Referring(req'[s]) \/ req'[s].pc # "IDLE"
                           => s # r /\ req'[s] = req[s]
    BY <2>1, IdleRequest
  <2>6. /\ TypeOK' /\ NothingAhead'
    <3>1. raced' \subseteq Name
      BY <1>1, <1>3 DEF UploadInv, TypeOK
    <3>2. TypeOK'
      BY <1>1, <1>3, <2>1, <2>3, <3>1 DEF UploadInv, TypeOK
    <3>3. \A u \in Upload : u > begun => u # q.upload
      BY <1>1 DEF Upload, UploadInv, TypeOK
    <3>4. \A u \in Upload : u > begun => files[u] = 0 /\ meme'[u] = None
      BY <2>3, <3>3 DEF UploadInv, NothingAhead
    <3>5. \A m \in Memes' : meme'[m].upload <= begun
      BY <1>1, <2>2, <2>3, <2>4 DEF UploadInv, NothingAhead
    <3>. QED  BY <1>1, <3>2, <3>4, <3>5 DEF NothingAhead
  <2>7. RequestsAreSound'
    <3>1. \A s \in Request : req'[s] = Idle \/ req'[s] = req[s]
      BY <2>1
    <3>. QED  BY <1>1, <3>1, IdleRequest DEF UploadInv, RequestsAreSound, RequestIsSound
  <2>8. InHandAlone'
    <3>. SUFFICES ASSUME NEW s \in Request, s # r, Uploading(req[s]), req'[s] = req[s]
                  PROVE  /\ meme'[req[s].upload] = None
                         /\ \A m \in Memes' : meme'[m].upload # req[s].upload
                         /\ \A t \in Request :
                              /\ Uploading(req'[t]) /\ req'[t].upload = req[s].upload => t = s
                              /\ Referring(req'[t]) => /\ req'[t].old # req[s].upload
                                                       /\ req'[t].id # req[s].upload
      BY <2>5 DEF InHandAlone
    <3>1. meme'[req[s].upload] = None
      BY <2>3, <2>4 DEF UploadInv, InHandAlone, RequestsAreSound, RequestIsSound
    <3>2. \A m \in Memes' : meme'[m].upload # req[s].upload
      BY <2>2, <2>3, <2>4 DEF UploadInv, InHandAlone
    <3>. QED  BY <2>5, <3>1, <3>2 DEF UploadInv, InHandAlone
  <2>9. FilesAreWritten'
    BY <1>1, <2>5 DEF UploadInv, FilesAreWritten
  <2>10. OneHome'
    <3>1. \A m, k \in Memes' : meme'[m].upload = meme'[k].upload => m = k
      BY <2>2, <2>3, <2>4 DEF UploadInv, OneHome
    <3>2. \A s \in Request : Referring(req[s]) =>
            \A m \in Memes' : meme'[m].upload = req[s].old => m = req[s].id
      BY <2>2, <2>3, <2>4 DEF UploadInv, OneHome
    <3>. QED  BY <2>5, <3>1, <3>2 DEF UploadInv, OneHome
  <2>11. OldIsReplaced'
    <3>. SUFFICES ASSUME NEW s \in Request, req'[s].pc = "REMOVE_OLD", req'[s].id \in Memes' \ reverted'
                  PROVE  meme'[req'[s].id].upload # req'[s].old
      BY DEF OldIsReplaced
    <3>1. req'[s] = req[s] /\ req[s].id # q.upload
      BY <2>4, <2>5 DEF Referring
    <3>. QED  BY <1>1, <2>3, <2>4, <3>1 DEF UploadInv, OldIsReplaced
  <2>12. MemesHaveFiles'
    <3>1. \A m \in Memes' \ reverted' : files[meme'[m].upload] = Files
      BY <1>1, <2>2, <2>3, <2>4 DEF UploadInv, MemesHaveFiles
    <3>. QED  BY <1>1, <2>10, <3>1 DEF MemesHaveFiles, OneHome
  <2>. QED  BY <2>6, <2>7, <2>8, <2>9, <2>10, <2>11, <2>12 DEF UploadInv
<1>. QED  BY <1>2, <1>3 DEF AddMeme

(* Files are removed that no record shows, but of a reverted meme. *)
LEMMA RemoveKeepsInv ==
  ASSUME UploadInv, NEW r \in Request, RemoveResult(r)
  PROVE  UploadInv'
<1> DEFINE q == req[r]
           u == IF q.pc = "REMOVE_NEW" THEN q.upload ELSE q.old
<1>1. /\ q.pc \in {"REMOVE_NEW", "REMOVE_OLD"} /\ u \in Upload /\ Done(r)
      /\ files' = [files EXCEPT ![u] = 0]
      /\ UNCHANGED <<meme, begun, historyVars, trouble>>
  BY DEF RemoveResult, UploadInv, RequestsAreSound, RequestIsSound, Uploading, Referring
<1>2. \A m \in Memes \ reverted : meme[m].upload # u
  <2>1. CASE q.pc = "REMOVE_NEW"
    BY <2>1 DEF UploadInv, InHandAlone, Uploading
  <2>2. CASE q.pc = "REMOVE_OLD"
    <3>1. \A m \in Memes : meme[m].upload = q.old => m = q.id
      BY <2>2 DEF UploadInv, OneHome, Referring
    <3>. QED  BY <2>2, <3>1 DEF UploadInv, OldIsReplaced
  <2>. QED  BY <1>1, <2>1, <2>2
<1>3. \A s \in Request : s # r /\ Uploading(req[s]) => req[s].upload # u
  BY <1>1 DEF UploadInv, InHandAlone, Uploading, Referring
<1>4. /\ req' \in [Request -> Requests] /\ req'[r] = Idle
      /\ \A s \in Request : s # r => req'[s] = req[s]
  BY <1>1, RequestDone DEF UploadInv
<1>5. /\ files' \in [Upload -> 0 .. Files] /\ \A k \in Upload : k # u => files'[k] = files[k]
      /\ files'[u] = 0
  BY <1>1 DEF UploadInv, TypeOK, Files
<1>. HIDE DEF u
<1>6. TypeOK' /\ Memes' = Memes
  BY <1>1, <1>4, <1>5 DEF UploadInv, TypeOK, historyVars, Memes
<1>7. NothingAhead'
  BY <1>1, <1>5, <1>6 DEF UploadInv, NothingAhead
<1>8. \A s \in Request : req'[s] = Idle \/ (s # r /\ req'[s] = req[s])
  BY <1>4
<1>9. RequestsAreSound'
  BY <1>1, <1>8, IdleRequest DEF UploadInv, RequestsAreSound, RequestIsSound
<1>10. InHandAlone' /\ OneHome' /\ OldIsReplaced'
  <2>1. InHandAlone'
    BY <1>1, <1>6, <1>8, IdleRequest DEF UploadInv, InHandAlone
  <2>2. OneHome' /\ OldIsReplaced'
    BY <1>1, <1>6, <1>8, IdleRequest DEF UploadInv, OneHome, OldIsReplaced, historyVars
  <2>. QED  BY <2>1, <2>2
<1>11. FilesAreWritten'
  <2>. SUFFICES ASSUME NEW s \in Request, s # r, req'[s] = req[s]
                PROVE  /\ req[s].pc = "WRITE" => files'[req[s].upload] < Files
                       /\ req[s].pc \in {"NAME", "SHA", "ADD", "REPLACE"} => files'[req[s].upload] = Files
    BY <1>8, IdleRequest DEF FilesAreWritten
  <2>1. Uploading(req[s]) => files'[req[s].upload] = files[req[s].upload]
    BY <1>3, <1>5 DEF UploadInv, RequestsAreSound, RequestIsSound
  <2>. QED  BY <2>1 DEF UploadInv, FilesAreWritten, Uploading
<1>12. MemesHaveFiles'
  <2>1. \A m \in Memes \ reverted : files'[meme[m].upload] = files[meme[m].upload]
    BY <1>2, <1>5, RecordsAreMemes DEF UploadInv, Records
  <2>. QED  BY <1>1, <1>6, <2>1 DEF UploadInv, MemesHaveFiles, historyVars
<1>. QED  BY <1>6, <1>7, <1>9, <1>10, <1>11, <1>12 DEF UploadInv

(* A switch that read the meme before a replacement gives it back the files *)
(* it had then, and the meme counts as reverted.                            *)
LEMMA WriteBackKeepsInv ==
  ASSUME UploadInv, NEW r \in Request, WriteBack(r)
  PROVE  UploadInv'
<1> DEFINE q == req[r]
           record == [upload |-> q.old, name |-> q.name, image |-> q.image]
<1>1. /\ q.pc = "WRITE_BACK" /\ Referring(q) /\ Done(r)
      /\ UNCHANGED <<files, begun, raced, trouble>>
      /\ q.id \in Upload /\ q.old \in Upload /\ q.old <= begun
      /\ q.name \in Name /\ q.image \in Image
  BY DEF WriteBack, UploadInv, RequestsAreSound, RequestIsSound, Referring
<1>2. CASE UNCHANGED <<meme, leaked, reverted>>
  <2>1. leaked' \subseteq Upload /\ trouble' \in Nat
    BY <1>1, <1>2 DEF UploadInv, TypeOK
  <2>. QED  BY <1>1, <1>2, <2>1, EndKeepsInv
<1>3. CASE /\ q.id \in Memes
           /\ meme' = [meme EXCEPT ![q.id] = record]
           /\ leaked' = leaked \cup {meme[q.id].upload}
           /\ reverted' = reverted \cup {q.id}
  <2>1. /\ req' \in [Request -> Requests] /\ req'[r] = Idle
        /\ \A s \in Request : s # r => req'[s] = req[s]
    BY <1>1, RequestDone DEF UploadInv
  <2>2. /\ record \in Records /\ record # None /\ record.upload = q.old
        /\ meme \in [Upload -> Records \cup {None}]
    BY <1>1, NoneAssumption DEF Records, UploadInv, TypeOK
  <2>. HIDE DEF record
  <2>3. /\ Memes' = Memes /\ meme' \in [Upload -> Records \cup {None}]
        /\ meme'[q.id] = record /\ \A m \in Upload : m # q.id => meme'[m] = meme[m]
        /\ Memes \subseteq Upload
    BY <1>1, <1>3, <2>2 DEF Memes
  <2>4. /\ \A m \in Memes : meme[m].upload = q.old => m = q.id
        /\ \A s \in Request :
             /\ Uploading(req[s]) => q.old # req[s].upload /\ q.id # req[s].upload
             /\ Referring(req[s]) /\ req[s].old = q.old => req[s].id = q.id
    BY <1>1 DEF UploadInv, InHandAlone, OneHome
  <2>5. \A s \in Request : req'[s] = Idle \/ (s # r /\ req'[s] = req[s])
    BY <2>1
  <2>6. TypeOK'
    <3>1. meme[q.id].upload \in Upload
      BY <1>3, RecordsAreMemes DEF UploadInv, Records
    <3>. QED  BY <1>1, <1>3, <2>1, <2>3, <3>1 DEF UploadInv, TypeOK
  <2>7. NothingAhead'
    <3>1. \A u \in Upload : u > begun => meme'[u] = None
      BY <1>3, <2>3 DEF UploadInv, NothingAhead, Memes
    <3>2. \A m \in Memes : meme'[m].upload <= begun
      BY <1>1, <2>2, <2>3 DEF UploadInv, NothingAhead
    <3>. QED  BY <1>1, <2>3, <3>1, <3>2 DEF UploadInv, NothingAhead
  <2>8. RequestsAreSound'
    BY <1>1, <2>5, IdleRequest DEF UploadInv, RequestsAreSound, RequestIsSound
  <2>9. InHandAlone'
    <3>. SUFFICES ASSUME NEW s \in Request, s # r, Uploading(req[s]), req'[s] = req[s]
                  PROVE  /\ meme'[req[s].upload] = None
                         /\ \A m \in Memes : meme'[m].upload # req[s].upload
                         /\ \A t \in Request :
                              /\ Uploading(req'[t]) /\ req'[t].upload = req[s].upload => t = s
                              /\ Referring(req'[t]) => /\ req'[t].old # req[s].upload
                                                       /\ req'[t].id # req[s].upload
      BY <2>3, <2>5, IdleRequest DEF InHandAlone
    <3>1. meme'[req[s].upload] = None
      BY <2>3, <2>4 DEF UploadInv, InHandAlone, RequestsAreSound, RequestIsSound
    <3>2. \A m \in Memes : meme'[m].upload # req[s].upload
      BY <2>2, <2>3, <2>4 DEF UploadInv, InHandAlone
    <3>. QED  BY <2>5, <3>1, <3>2, IdleRequest DEF UploadInv, InHandAlone
  <2>10. FilesAreWritten'
    BY <1>1, <2>5, IdleRequest DEF UploadInv, FilesAreWritten
  <2>11. OneHome'
    <3>1. \A m, k \in Memes : meme'[m].upload = meme'[k].upload => m = k
      BY <2>2, <2>3, <2>4 DEF UploadInv, OneHome
    <3>2. \A s \in Request : Referring(req[s]) =>
            \A m \in Memes : meme'[m].upload = req[s].old => m = req[s].id
      BY <2>2, <2>3, <2>4 DEF UploadInv, OneHome
    <3>. QED  BY <2>3, <2>5, <3>1, <3>2, IdleRequest DEF UploadInv, OneHome
  <2>12. OldIsReplaced'
    BY <1>3, <2>3, <2>5, IdleRequest DEF UploadInv, OldIsReplaced
  <2>13. MemesHaveFiles'
    BY <1>1, <1>3, <2>3 DEF UploadInv, MemesHaveFiles
  <2>. QED  BY <2>6, <2>7, <2>8, <2>9, <2>10, <2>11, <2>12, <2>13 DEF UploadInv
<1>. QED  BY <1>2, <1>3 DEF WriteBack

LEMMA DeleteKeepsInv ==
  ASSUME UploadInv, DeleteMeme
  PROVE  UploadInv'
<1>1. PICK d \in Memes : /\ meme' = [meme EXCEPT ![d] = None]
                         /\ leaked' = leaked \cup {meme[d].upload}
  BY DEF DeleteMeme
<1>2. /\ UNCHANGED <<files, begun, req, reverted, raced, trouble>>
      /\ d \in Upload /\ meme[d].upload \in Upload /\ meme \in [Upload -> Records \cup {None}]
  BY RecordsAreMemes DEF DeleteMeme, UploadInv, Records, TypeOK
<1>3. Memes' = Memes \ {d} /\ \A m \in Upload : meme'[m] \in {meme[m], None}
  BY <1>1, <1>2 DEF Memes
<1>4. \A m \in Memes' : meme'[m] = meme[m] /\ m \in Memes
  BY <1>1, <1>2, <1>3 DEF Memes
<1>5. TypeOK' /\ RequestsAreSound'
  BY <1>1, <1>2 DEF UploadInv, TypeOK, RequestsAreSound, RequestIsSound
<1>6. NothingAhead' /\ MemesHaveFiles'
  BY <1>2, <1>3, <1>4 DEF UploadInv, NothingAhead, MemesHaveFiles
<1>7. InHandAlone'
  BY <1>2, <1>3, <1>4 DEF UploadInv, InHandAlone, RequestsAreSound, RequestIsSound
<1>8. FilesAreWritten' /\ OneHome' /\ OldIsReplaced'
  BY <1>2, <1>4 DEF UploadInv, FilesAreWritten, OneHome, OldIsReplaced
<1>. QED  BY <1>5, <1>6, <1>7, <1>8 DEF UploadInv

LEMMA CrashKeepsInv ==
  ASSUME UploadInv, Crash
  PROVE  UploadInv'
<1>1. /\ req' = [r \in Request |-> Idle] /\ UNCHANGED <<files, meme, begun, reverted, raced>>
      /\ leaked' \subseteq Upload /\ trouble' \in Nat
  BY DEF Crash, UploadInv, TypeOK
<1>2. TypeOK' /\ NothingAhead' /\ MemesHaveFiles' /\ RequestsAreSound'
  BY <1>1, IdleRequest
  DEF UploadInv, TypeOK, NothingAhead, MemesHaveFiles, RequestsAreSound, RequestIsSound, Memes
<1>3. InHandAlone' /\ FilesAreWritten' /\ OneHome' /\ OldIsReplaced'
  BY <1>1, IdleRequest
  DEF UploadInv, InHandAlone, FilesAreWritten, OneHome, OldIsReplaced, Memes
<1>. QED  BY <1>2, <1>3 DEF UploadInv

LEMMA FailureKeepsInv ==
  ASSUME UploadInv, NEW r \in Request, WriteFails(r) \/ AddFails(r)
  PROVE  UploadInv'
<1>1. /\ Done(r) /\ UNCHANGED <<files, meme, begun, reverted, raced>>
      /\ leaked' = leaked \cup {req[r].upload} /\ trouble' = trouble + 1
      /\ Uploading(req[r])
  BY DEF WriteFails, AddFails, Uploading
<1>2. leaked' \subseteq Upload /\ trouble' \in Nat
  BY <1>1 DEF UploadInv, TypeOK, RequestsAreSound, RequestIsSound
<1>. QED  BY <1>1, <1>2, EndKeepsInv

LEMMA UploadStep == UploadInv /\ [Next]_vars => UploadInv'
<1>. SUFFICES ASSUME UploadInv, [Next]_vars  PROVE UploadInv'
  OBVIOUS
<1>1. CASE UNCHANGED vars
  BY <1>1
  DEF vars, historyVars, UploadInv, TypeOK, RequestsAreSound, RequestIsSound, NothingAhead,
      InHandAlone, FilesAreWritten, OneHome, OldIsReplaced, MemesHaveFiles, Memes
<1>. QED
  BY <1>1, BeginKeepsInv, WriteKeepsInv, FailureKeepsInv, FindNameKeepsInv, ReplaceKeepsInv,
     FindImageKeepsInv, AddKeepsInv, RemoveKeepsInv, ReadKeepsInv, WriteBackKeepsInv,
     DeleteKeepsInv, CrashKeepsInv
  DEF Next

LEMMA UploadInit == Init => UploadInv
<1>. SUFFICES ASSUME Init  PROVE UploadInv
  OBVIOUS
<1>1. Memes = {} /\ \A r \in Request : req[r] = Idle
  BY DEF Init, Memes
<1>2. TypeOK
  BY IdleRequest, BoundsAssumption DEF Init, TypeOK, Files
<1>3. RequestsAreSound /\ NothingAhead /\ InHandAlone /\ FilesAreWritten
  BY <1>1, IdleRequest
  DEF Init, RequestsAreSound, RequestIsSound, NothingAhead, InHandAlone, FilesAreWritten
<1>4. OneHome /\ OldIsReplaced /\ MemesHaveFiles
  BY <1>1, IdleRequest DEF OneHome, OldIsReplaced, MemesHaveFiles
<1>. QED  BY <1>2, <1>3, <1>4 DEF UploadInv

THEOREM UploadInvariant == Spec => []UploadInv
BY UploadInit, UploadStep, PTL DEF Spec

(* Whatever uploads, replacements, deletions, failures and crashes overlap,  *)
(* a meme has its three files to itself, unless a switch that had read it    *)
(* before a replacement has given it back the files of then.                 *)
THEOREM UploadMemesHaveFiles == Spec => []MemesHaveFiles
BY UploadInvariant, PTL DEF UploadInv

-----------------------------------------------------------------------------
(* Orphans.  Being accounted for passes from the request that wrote a file   *)
(* to the record it makes, to the request that replaces that record, and to  *)
(* the list of known causes whenever neither takes it.                       *)

Accounted(u) ==
  \/ u \in leaked
  \/ \E m \in Memes : meme[m].upload = u
  \/ \E r \in Request : u = InHand(r)

(* A step of one request, seen from an upload: nobody else lets go of it. *)
LEMMA AccountedFor ==
  ASSUME OrphansHaveCauses, NEW r,
         \A s \in Request : s # r => req'[s] = req[s],
         \A u \in Upload : files'[u] > 0 => files[u] > 0 \/ Accounted(u)',
         leaked \subseteq leaked',
         \A m \in Memes, u \in Upload : meme[m].upload = u => Accounted(u)',
         \A u \in Upload : u = InHand(r) /\ files'[u] > 0 => Accounted(u)'
  PROVE  OrphansHaveCauses'
<1>. SUFFICES ASSUME NEW u \in Upload, files'[u] > 0  PROVE Accounted(u)'
  BY DEF OrphansHaveCauses, Accounted
<1>1. CASE Accounted(u)
  <2>1. ASSUME NEW s \in Request, s # r, u = InHand(s)  PROVE Accounted(u)'
    BY <2>1 DEF Accounted, InHand
  <2>2. ASSUME NEW m \in Memes, meme[m].upload = u  PROVE Accounted(u)'
    BY <2>2
  <2>3. u \in leaked => Accounted(u)'
    BY DEF Accounted
  <2>. QED  BY <1>1, <2>1, <2>2, <2>3 DEF Accounted
<1>. QED  BY <1>1 DEF OrphansHaveCauses, Accounted

(* The records stay, and so does what they account for. *)
LEMMA RecordsAccount ==
  ASSUME UNCHANGED meme
  PROVE  \A m \in Memes, u \in Upload : meme[m].upload = u => Accounted(u)'
BY DEF Accounted, Memes

(* A request ends without a record, and its files are known to stay. *)
LEMMA EndAccounts ==
  ASSUME UploadInv, OrphansHaveCauses, NEW r \in Request, Done(r),
         UNCHANGED <<files, meme>>, leaked \subseteq leaked',
         InHand(r) \in Upload => InHand(r) \in leaked'
  PROVE  OrphansHaveCauses'
<1>1. \A s \in Request : s # r => req'[s] = req[s]
  BY RequestDone DEF UploadInv
<1>2. \A u \in Upload : u = InHand(r) => Accounted(u)'
  BY DEF Accounted
<1>. QED  BY <1>1, <1>2, RecordsAccount, AccountedFor

(* A request goes on with its upload, and files are written for it alone. *)
LEMMA HoldingAccounts ==
  ASSUME OrphansHaveCauses, NEW r \in Request,
         \A s \in Request : s # r => req'[s] = req[s],
         InHand(r)' = InHand(r), UNCHANGED <<meme, leaked>>,
         \A u \in Upload : u # InHand(r) => files'[u] = files[u]
  PROVE  OrphansHaveCauses'
<1>1. \A u \in Upload : u = InHand(r) => Accounted(u)'
  BY DEF Accounted
<1>. QED  BY <1>1, RecordsAccount, AccountedFor

LEMMA ReplaceAccounts ==
  ASSUME UploadInv, OrphansHaveCauses, NEW r \in Request, Replace(r)
  PROVE  OrphansHaveCauses'
<1> DEFINE q == req[r]
<1>1. /\ q.pc = "REPLACE" /\ InHand(r) = q.upload /\ UNCHANGED files
      /\ q.upload \in Upload /\ q.name \in Name /\ q.image \in Image /\ q.id \in Upload
  BY DEF Replace, UploadInv, RequestsAreSound, RequestIsSound, Uploading, Referring, InHand
<1>2. CASE Goto(r, "REMOVE_NEW") /\ UNCHANGED <<meme, leaked>>
  <2>1. (\A s \in Request : s # r => req'[s] = req[s]) /\ InHand(r)' = InHand(r)
    BY <1>1, <1>2, RequestMoves DEF UploadInv, Steps, InHand
  <2>. QED  BY <1>1, <1>2, <2>1, HoldingAccounts
<1>3. CASE /\ Goto(r, "REMOVE_OLD")
           /\ meme' = IF q.id \in Memes
                      THEN [meme EXCEPT ![q.id] = [upload |-> q.upload, name |-> q.name,
                                                   image |-> q.image]]
                      ELSE meme
           /\ leaked' = leaked \cup (IF q.id \in Memes THEN {meme[q.id].upload} \ {q.old}
                                                       ELSE {q.upload})
  <2>1. (\A s \in Request : s # r => req'[s] = req[s]) /\ InHand(r)' = q.old
    BY <1>3, RequestMoves DEF UploadInv, Steps, InHand
  <2>2. ASSUME NEW u \in Upload, u = q.upload  PROVE Accounted(u)'
    <3>1. CASE q.id \in Memes
      <4> DEFINE record == [upload |-> q.upload, name |-> q.name, image |-> q.image]
      <4>1. record \in Records /\ record.upload = u /\ meme'[q.id] = record
        BY <1>1, <1>3, <2>2, <3>1 DEF Records, UploadInv, TypeOK
      <4>2. record # None
        BY <4>1, NoneAssumption
      <4>. HIDE DEF record
      <4>3. q.id \in Memes' /\ meme'[q.id].upload = u
        BY <1>1, <4>1, <4>2 DEF Memes
      <4>. QED  BY <4>3 DEF Accounted
    <3>2. CASE q.id \notin Memes
      <4>1. u \in leaked'
        BY <1>3, <2>2, <3>2
      <4>. QED  BY <4>1 DEF Accounted
    <3>. QED  BY <3>1, <3>2
  <2>3. ASSUME NEW m \in Memes, NEW u \in Upload, meme[m].upload = u  PROVE Accounted(u)'
    <3>1. CASE m = q.id
      <4>1. u = InHand(r)' \/ u \in leaked'
        BY <1>3, <2>1, <2>3, <3>1
      <4>. QED  BY <4>1 DEF Accounted
    <3>2. CASE m # q.id
      <4>1. m \in Memes' /\ meme'[m] = meme[m]
        BY <1>3, <3>2 DEF Memes, UploadInv, TypeOK
      <4>. QED  BY <2>3, <4>1 DEF Accounted
    <3>. QED  BY <3>1, <3>2
  <2>4. \A u \in Upload : u = InHand(r) => Accounted(u)'
    BY <1>1, <2>2
  <2>5. leaked \subseteq leaked' /\ \A u \in Upload : files'[u] > 0 => files[u] > 0
    BY <1>1, <1>3
  <2>. QED  BY <2>1, <2>3, <2>4, <2>5, AccountedFor
<1>. QED  BY <1>2, <1>3 DEF Replace

LEMMA AddAccounts ==
  ASSUME UploadInv, OrphansHaveCauses, NEW r \in Request, AddMeme(r)
  PROVE  OrphansHaveCauses'
<1> DEFINE q == req[r]
           record == [upload |-> q.upload, name |-> q.name, image |-> q.image]
<1>1. /\ q.pc = "ADD" /\ InHand(r) = q.upload /\ UNCHANGED files /\ Done(r)
      /\ q.upload \in Upload /\ q.name \in Name /\ q.image \in Image
      /\ meme[q.upload] = None /\ meme \in [Upload -> Records \cup {None}]
  BY DEF AddMeme, UploadInv, TypeOK, RequestsAreSound, RequestIsSound, Uploading, InHandAlone,
         InHand
<1>2. CASE leaked' = leaked \cup {q.upload} /\ UNCHANGED meme
  BY <1>1, <1>2, EndAccounts
<1>3. CASE meme' = [meme EXCEPT ![q.upload] = record] /\ UNCHANGED leaked
  <2>1. \A s \in Request : s # r => req'[s] = req[s]
    BY <1>1, RequestDone DEF UploadInv
  <2>2. record \in Records /\ record.upload = q.upload /\ meme'[q.upload] = record
    BY <1>1, <1>3 DEF Records
  <2>3. record # None
    BY <2>2, NoneAssumption
  <2>. HIDE DEF record
  <2>4. \A u \in Upload : u = InHand(r) => Accounted(u)'
    BY <1>1, <2>2, <2>3 DEF Accounted, Memes
  <2>5. \A m \in Memes : m \in Memes' /\ meme'[m] = meme[m]
    BY <1>1, <1>3 DEF Memes
  <2>6. \A m \in Memes, u \in Upload : meme[m].upload = u => Accounted(u)'
    BY <2>5 DEF Accounted
  <2>. QED  BY <1>1, <1>3, <2>1, <2>4, <2>6, AccountedFor
<1>. QED  BY <1>2, <1>3 DEF AddMeme

LEMMA WriteBackAccounts ==
  ASSUME UploadInv, OrphansHaveCauses, NEW r \in Request, WriteBack(r)
  PROVE  OrphansHaveCauses'
<1> DEFINE q == req[r]
<1>1. /\ q.pc = "WRITE_BACK" /\ UNCHANGED files /\ Done(r)
      /\ InHand(r) = 0 /\ 0 \notin Upload /\ q.id \in Upload
  BY DEF WriteBack, UploadInv, RequestsAreSound, RequestIsSound, Referring, InHand, Upload
<1>2. CASE UNCHANGED <<meme, leaked>>
  BY <1>1, <1>2, EndAccounts
<1>3. CASE /\ meme' = [meme EXCEPT ![q.id] = [upload |-> q.old, name |-> q.name,
                                              image |-> q.image]]
           /\ leaked' = leaked \cup {meme[q.id].upload}
  <2>1. \A s \in Request : s # r => req'[s] = req[s]
    BY <1>1, RequestDone DEF UploadInv
  <2>2. ASSUME NEW m \in Memes, NEW u \in Upload, meme[m].upload = u  PROVE Accounted(u)'
    <3>1. CASE m = q.id
      BY <1>3, <2>2, <3>1 DEF Accounted
    <3>2. CASE m # q.id
      <4>1. m \in Memes' /\ meme'[m] = meme[m]
        BY <1>3, <3>2 DEF Memes, UploadInv, TypeOK
      <4>. QED  BY <2>2, <4>1 DEF Accounted
    <3>. QED  BY <3>1, <3>2
  <2>. QED  BY <1>1, <1>3, <2>1, <2>2, AccountedFor
<1>. QED  BY <1>2, <1>3 DEF WriteBack

LEMMA RemoveAccounts ==
  ASSUME UploadInv, OrphansHaveCauses, NEW r \in Request, RemoveResult(r)
  PROVE  OrphansHaveCauses'
<1>1. /\ Done(r) /\ UNCHANGED <<meme, leaked>>
      /\ InHand(r) \in Upload /\ files' = [files EXCEPT ![InHand(r)] = 0]
      /\ files \in [Upload -> 0 .. Files]
  <2>1. req[r].pc \in {"REMOVE_NEW", "REMOVE_OLD"} /\ Done(r) /\ UNCHANGED <<meme, leaked>>
    BY DEF RemoveResult, historyVars
  <2>2. InHand(r) = IF req[r].pc = "REMOVE_NEW" THEN req[r].upload ELSE req[r].old
    BY <2>1 DEF InHand
  <2>3. InHand(r) \in Upload
    BY <2>1, <2>2 DEF UploadInv, RequestsAreSound, RequestIsSound, Uploading, Referring
  <2>. QED  BY <2>1, <2>2, <2>3 DEF RemoveResult, UploadInv, TypeOK
<1>2. \A s \in Request : s # r => req'[s] = req[s]
  BY <1>1, RequestDone DEF UploadInv
<1>3. \A u \in Upload : files'[u] = IF u = InHand(r) THEN 0 ELSE files[u]
  BY <1>1
<1>. QED  BY <1>1, <1>2, <1>3, RecordsAccount, AccountedFor

(* The requests that begin with nothing in their hands, or end with nothing. *)
LEMMA BeginAccounts ==
  ASSUME UploadInv, OrphansHaveCauses, NEW r \in Request, Begin(r) \/ ReadMeme(r)
  PROVE  OrphansHaveCauses'
<1>1. req[r] = Idle /\ UNCHANGED <<files, meme, leaked>>
  BY DEF Begin, ReadMeme, historyVars
<1>2. \A s \in Request : s # r => req'[s] = req[s]
  BY DEF Begin, ReadMeme, UploadInv, TypeOK
<1>3. InHand(r) \notin Upload
  BY <1>1, IdleRequest DEF InHand, Upload
<1>. QED  BY <1>1, <1>2, <1>3, RecordsAccount, AccountedFor

LEMMA LookUpAccounts ==
  ASSUME UploadInv, OrphansHaveCauses, NEW r \in Request, FindName(r) \/ FindImage(r) \/ WriteAtomic(r)
  PROVE  OrphansHaveCauses'
<1>1. /\ req \in [Request -> Requests] /\ UNCHANGED <<meme, leaked>>
      /\ req[r].pc \in {"NAME", "SHA", "WRITE"}
  BY DEF FindName, FindImage, WriteAtomic, historyVars, UploadInv, TypeOK
<1>2. ASSUME NEW pc \in {"SHA", "ADD", "REMOVE_NEW", "NAME"}, Goto(r, pc)
      PROVE  (\A s \in Request : s # r => req'[s] = req[s]) /\ InHand(r)' = InHand(r)
  BY <1>1, <1>2, RequestMoves DEF UploadInv, Steps, InHand
<1>3. ASSUME NEW m, req' = [req EXCEPT ![r].pc = "REPLACE", ![r].id = m, ![r].old = meme[m].upload]
      PROVE  (\A s \in Request : s # r => req'[s] = req[s]) /\ InHand(r)' = InHand(r)
  BY <1>1, <1>3 DEF InHand, Requests
<1>4. (\A s \in Request : s # r => req'[s] = req[s]) /\ InHand(r)' = InHand(r)
  <2>1. CASE UNCHANGED req
    BY <2>1 DEF InHand
  <2>. QED  BY <1>2, <1>3, <2>1 DEF FindName, FindImage, WriteAtomic
<1>5. \A u \in Upload : u # InHand(r) => files'[u] = files[u]
  BY <1>1 DEF FindName, FindImage, WriteAtomic, InHand, UploadInv, TypeOK
<1>. QED  BY <1>1, <1>4, <1>5, HoldingAccounts

LEMMA DeleteAccounts ==
  ASSUME UploadInv, OrphansHaveCauses, DeleteMeme
  PROVE  OrphansHaveCauses'
<1>1. PICK d \in Memes : /\ meme' = [meme EXCEPT ![d] = None]
                         /\ leaked' = leaked \cup {meme[d].upload}
  BY DEF DeleteMeme
<1>2. UNCHANGED <<files, req>>
  BY DEF DeleteMeme
<1>3. \A m \in Memes : m # d => m \in Memes' /\ meme'[m] = meme[m]
  BY <1>1 DEF Memes, UploadInv, TypeOK
<1>. SUFFICES ASSUME NEW u \in Upload, files[u] > 0  PROVE Accounted(u)'
  BY <1>2 DEF OrphansHaveCauses, Accounted
<1>4. CASE \E r \in Request : u = InHand(r)
  BY <1>2, <1>4 DEF Accounted, InHand
<1>5. CASE \E m \in Memes : meme[m].upload = u
  BY <1>1, <1>3, <1>5 DEF Accounted
<1>6. CASE u \in leaked
  BY <1>1, <1>6 DEF Accounted
<1>. QED  BY <1>4, <1>5, <1>6 DEF OrphansHaveCauses

LEMMA CrashAccounts ==
  ASSUME OrphansHaveCauses, Crash
  PROVE  OrphansHaveCauses'
BY DEF OrphansHaveCauses, Crash, Memes

LEMMA OrphanStep == UploadInv /\ OrphansHaveCauses /\ [Next]_vars => OrphansHaveCauses'
<1>. SUFFICES ASSUME UploadInv, OrphansHaveCauses, [Next]_vars  PROVE OrphansHaveCauses'
  OBVIOUS
<1>1. ASSUME NEW r \in Request, WriteFails(r) \/ AddFails(r)  PROVE OrphansHaveCauses'
  <2>1. /\ Done(r) /\ UNCHANGED <<files, meme>> /\ InHand(r) = req[r].upload
        /\ leaked' = leaked \cup {req[r].upload}
    BY <1>1 DEF WriteFails, AddFails, InHand
  <2>. QED  BY <2>1, EndAccounts
<1>2. CASE UNCHANGED vars
  BY <1>2 DEF vars, historyVars, OrphansHaveCauses, Memes, InHand
<1>. QED
  BY <1>1, <1>2, BeginAccounts, LookUpAccounts, ReplaceAccounts, AddAccounts, RemoveAccounts,
     WriteBackAccounts, DeleteAccounts, CrashAccounts
  DEF Next

(* Files that no meme refers to are being worked on or were left behind for *)
(* one of the known causes: duplicates and replaced images leave none.      *)
THEOREM UploadOrphansHaveCauses == Spec => []OrphansHaveCauses
<1>1. Init => OrphansHaveCauses
  BY DEF Init, OrphansHaveCauses
<1>. QED  BY <1>1, UploadInvariant, OrphanStep, PTL DEF Spec

-----------------------------------------------------------------------------
(* Names.  A meme keeps the name it was added with, since a replacement and  *)
(* a switch write back the name they have read; so the one way to a second   *)
(* meme of a name is to find the name free, and two that did so race.        *)

NamesAreKept ==
  \A r \in Request : req[r].pc \in {"REPLACE", "WRITE_BACK"} /\ req[r].id \in Memes =>
    meme[req[r].id].name = req[r].name

FreeNames ==
  \A r \in Request : req[r].pc \in {"SHA", "ADD"} /\ req[r].name \notin raced =>
    \A m \in Memes : meme[m].name # req[r].name

NamesApart ==
  \A m, k \in Memes : meme[m].name = meme[k].name /\ meme[m].name \notin raced => m = k

NameInv == NamesAreKept /\ FreeNames /\ NamesApart

(* No meme is added and none changes its name. *)
LEMMA NamesStay ==
  ASSUME NameInv, NEW r \in Request, \A s \in Request : s # r => req'[s] = req[s],
         \A m \in Memes' : m \in Memes /\ meme'[m].name = meme[m].name,
         UNCHANGED raced,
         req'[r].pc \in {"REPLACE", "WRITE_BACK"} /\ req'[r].id \in Memes' =>
           meme'[req'[r].id].name = req'[r].name,
         req'[r].pc \in {"SHA", "ADD"} /\ req'[r].name \notin raced' =>
           \A m \in Memes' : meme'[m].name # req'[r].name
  PROVE  NameInv'
<1>1. NamesAreKept'
  BY DEF NameInv, NamesAreKept
<1>2. FreeNames'
  BY DEF NameInv, FreeNames
<1>3. NamesApart'
  BY DEF NameInv, NamesApart
<1>. QED  BY <1>1, <1>2, <1>3 DEF NameInv

(* A request that ends knows no name any more. *)
LEMMA EndNames ==
  ASSUME UploadInv, NameInv, NEW r \in Request, Done(r), UNCHANGED <<meme, raced>>
  PROVE  NameInv'
<1>1. /\ req'[r].pc = "IDLE" /\ \A s \in Request : s # r => req'[s] = req[s]
  BY RequestDone, IdleRequest DEF UploadInv
<1>2. Memes' = Memes
  BY DEF Memes
<1>. QED  BY <1>1, <1>2, NamesStay

LEMMA MoveNames ==
  ASSUME UploadInv, NameInv, NEW r \in Request, UNCHANGED <<meme, raced>>,
         Begin(r) \/ WriteAtomic(r) \/ FindName(r) \/ FindImage(r) \/ ReadMeme(r)
  PROVE  NameInv'
<1>1. Memes' = Memes /\ req \in [Request -> Requests]
  BY DEF Memes, UploadInv, TypeOK
<1>2. CASE Begin(r)
  <2>1. req'[r].pc = "WRITE" /\ \A s \in Request : s # r => req'[s] = req[s]
    BY <1>1, <1>2 DEF Begin, Idle
  <2>. QED  BY <1>1, <2>1, NamesStay
<1>3. CASE WriteAtomic(r)
  <2>1. req'[r].pc \in {"WRITE", "NAME"} /\ \A s \in Request : s # r => req'[s] = req[s]
    <3>1. CASE Goto(r, "NAME")
      BY <3>1, RequestMoves DEF UploadInv, Steps
    <3>2. CASE UNCHANGED req
      BY <1>3, <3>2 DEF WriteAtomic
    <3>. QED  BY <1>3, <3>1, <3>2 DEF WriteAtomic
  <2>. QED  BY <1>1, <2>1, NamesStay
<1>4. CASE FindName(r)
  <2>1. CASE Named(req[r].name) = {} /\ Goto(r, "SHA")
    <3>1. /\ req'[r].pc = "SHA" /\ req'[r].name = req[r].name
          /\ \A s \in Request : s # r => req'[s] = req[s]
      BY <2>1, RequestMoves DEF UploadInv, Steps
    <3>2. \A m \in Memes : meme[m].name # req[r].name
      BY <2>1 DEF Named
    <3>. QED  BY <1>1, <3>1, <3>2, NamesStay
  <2>2. CASE \E m \in Named(req[r].name) :
               req' = [req EXCEPT ![r].pc = "REPLACE", ![r].id = m, ![r].old = meme[m].upload]
    <3>1. PICK m \in Memes :
            /\ meme[m].name = req[r].name
            /\ req' = [req EXCEPT ![r].pc = "REPLACE", ![r].id = m, ![r].old = meme[m].upload]
      BY <2>2 DEF Named
    <3>2. /\ req'[r].pc = "REPLACE" /\ req'[r].id = m /\ req'[r].name = req[r].name
          /\ \A s \in Request : s # r => req'[s] = req[s]
      BY <1>1, <3>1 DEF Requests
    <3>. QED  BY <1>1, <3>1, <3>2, NamesStay
  <2>. QED  BY <1>4, <2>1, <2>2 DEF FindName
<1>5. CASE FindImage(r)
  <2>1. /\ req[r].pc = "SHA" /\ req'[r].pc \in {"REMOVE_NEW", "ADD"} /\ req'[r].name = req[r].name
        /\ \A s \in Request : s # r => req'[s] = req[s]
    BY <1>5, RequestMoves DEF FindImage, UploadInv, Steps
  <2>2. req[r].name \notin raced => \A m \in Memes : meme[m].name # req[r].name
    BY <2>1 DEF NameInv, FreeNames
  <2>. QED  BY <1>1, <2>1, <2>2, NamesStay
<1>6. CASE ReadMeme(r)
  <2>1. PICK m \in Memes :
          req' = [req EXCEPT ![r] = [pc |-> "WRITE_BACK", upload |-> 0, name |-> meme[m].name,
                                     image |-> meme[m].image, id |-> m,
                                     old |-> meme[m].upload]]
    BY <1>6 DEF ReadMeme
  <2>2. /\ req'[r].pc = "WRITE_BACK" /\ req'[r].id = m /\ req'[r].name = meme[m].name
        /\ \A s \in Request : s # r => req'[s] = req[s]
    BY <1>1, <2>1
  <2>. QED  BY <1>1, <2>2, NamesStay
<1>. QED  BY <1>2, <1>3, <1>4, <1>5, <1>6

(* The record that a replacement or a switch writes has the name read before. *)
LEMMA RewriteNames ==
  ASSUME UploadInv, NameInv, NEW r \in Request, Replace(r) \/ WriteBack(r)
  PROVE  NameInv'
<1> DEFINE q == req[r]
<1>1. /\ q.pc \in {"REPLACE", "WRITE_BACK"} /\ UNCHANGED raced
      /\ q.id \in Upload /\ q.upload \in Upload \cup {0} /\ q.old \in Upload
      /\ q.name \in Name /\ q.image \in Image
      /\ meme \in [Upload -> Records \cup {None}]
  BY DEF Replace, WriteBack, UploadInv, TypeOK, Requests, RequestsAreSound, RequestIsSound, Referring
<1>2. \A m \in Memes' : m \in Memes /\ meme'[m].name = meme[m].name
  <2>1. CASE UNCHANGED meme
    BY <2>1 DEF Memes
  <2>2. ASSUME NEW u, q.id \in Memes,
               meme' = [meme EXCEPT ![q.id] = [upload |-> u, name |-> q.name, image |-> q.image]]
        PROVE  \A m \in Memes' : m \in Memes /\ meme'[m].name = meme[m].name
    <3>1. meme[q.id].name = q.name
      BY <1>1, <2>2 DEF NameInv, NamesAreKept
    <3>2. meme'[q.id].name = q.name /\ \A m \in Upload : m # q.id => meme'[m] = meme[m]
      BY <1>1, <2>2
    <3>3. \A m \in Memes' : m \in Upload /\ m \in Memes
      BY <2>2, <3>2 DEF Memes
    <3>. QED  BY <3>1, <3>2, <3>3
  <2>. QED  BY <2>1, <2>2 DEF Replace, WriteBack
<1>3. \A s \in Request : s # r => req'[s] = req[s]
  BY RequestMoves, RequestDone DEF Replace, WriteBack, UploadInv, Steps
<1>4. req'[r].pc \in {"REMOVE_NEW", "REMOVE_OLD", "IDLE"}
  BY RequestMoves, RequestDone, IdleRequest DEF Replace, WriteBack, UploadInv, Steps
<1>. QED  BY <1>1, <1>2, <1>3, <1>4, NamesStay

(* A meme is added under a name that nobody has, or whose race is recorded. *)
LEMMA AddNames ==
  ASSUME UploadInv, NameInv, NEW r \in Request, AddMeme(r)
  PROVE  NameInv'
<1> DEFINE q == req[r]
           record == [upload |-> q.upload, name |-> q.name, image |-> q.image]
<1>1. /\ q.pc = "ADD" /\ Done(r) /\ Uploading(q)
      /\ q.upload \in Upload /\ q.name \in Name /\ q.image \in Image
      /\ meme \in [Upload -> Records \cup {None}]
  BY DEF AddMeme, UploadInv, TypeOK, RequestsAreSound, RequestIsSound, Uploading
<1>2. CASE UNCHANGED <<meme, raced>>
  BY <1>1, <1>2, EndNames
<1>3. CASE /\ meme' = [meme EXCEPT ![q.upload] = record]
           /\ raced' = (IF FoundFreeBy(q.name) # {r} THEN raced \cup {q.name} ELSE raced)
  <2>1. \A s \in Request : req'[s].pc = "IDLE" \/ (s # r /\ req'[s] = req[s])
    BY <1>1, RequestDone, IdleRequest DEF UploadInv
  <2>2. record \in Records /\ record.name = q.name /\ meme'[q.upload] = record
    BY <1>1, <1>3 DEF Records
  <2>. HIDE DEF record
  <2>3. /\ Memes' \subseteq Memes \cup {q.upload}
        /\ \A m \in Memes : m # q.upload /\ meme'[m] = meme[m]
    BY <1>1, <1>3 DEF Memes, UploadInv, InHandAlone
  <2>4. q.name \notin raced' => /\ \A m \in Memes : meme[m].name # q.name
                                /\ \A s \in Request : s # r /\ req[s].pc \in {"SHA", "ADD"} =>
                                                       req[s].name # q.name
    <3>1. \A m \in Memes : q.name \notin raced => meme[m].name # q.name
      BY <1>1 DEF NameInv, FreeNames
    <3>2. FoundFreeBy(q.name) = {r} =>
            \A s \in Request : s # r /\ req[s].pc \in {"SHA", "ADD"} => req[s].name # q.name
      BY DEF FoundFreeBy
    <3>. QED  BY <1>3, <3>1, <3>2
  <2>5. raced \subseteq raced'
    BY <1>3
  <2>6. NamesAreKept'
    <3>1. \A s \in Request : req[s].pc \in {"REPLACE", "WRITE_BACK"} => req[s].id # q.upload
      BY <1>1 DEF UploadInv, InHandAlone, Referring
    <3>. QED  BY <2>1, <2>3, <3>1 DEF NameInv, NamesAreKept
  <2>7. FreeNames'
    BY <2>1, <2>2, <2>3, <2>4, <2>5 DEF NameInv, FreeNames
  <2>8. NamesApart'
    BY <2>2, <2>3, <2>4, <2>5 DEF NameInv, NamesApart
  <2>. QED  BY <2>6, <2>7, <2>8 DEF NameInv
<1>. QED  BY <1>2, <1>3 DEF AddMeme

LEMMA DeleteNames ==
  ASSUME UploadInv, NameInv, DeleteMeme \/ Crash
  PROVE  NameInv'
<1>1. \A m \in Memes' : m \in Memes /\ meme'[m] = meme[m]
  BY DEF DeleteMeme, Crash, Memes, UploadInv, TypeOK
<1>2. UNCHANGED raced /\ \A r \in Request : req'[r] = req[r] \/ req'[r].pc = "IDLE"
  BY IdleRequest DEF DeleteMeme, Crash
<1>. QED  BY <1>1, <1>2 DEF NameInv, NamesAreKept, FreeNames, NamesApart

LEMMA NameStep == UploadInv /\ NameInv /\ [Next]_vars => NameInv'
<1>. SUFFICES ASSUME UploadInv, NameInv, [Next]_vars  PROVE NameInv'
  OBVIOUS
<1>1. ASSUME NEW r \in Request, WriteFails(r) \/ AddFails(r) \/ RemoveResult(r)
      PROVE  NameInv'
  BY <1>1, EndNames DEF WriteFails, AddFails, RemoveResult, historyVars
<1>2. ASSUME NEW r \in Request,
             Begin(r) \/ WriteAtomic(r) \/ FindName(r) \/ FindImage(r) \/ ReadMeme(r)
      PROVE  NameInv'
  <2>1. UNCHANGED <<meme, raced>>
    BY <1>2 DEF Begin, WriteAtomic, FindName, FindImage, ReadMeme, historyVars
  <2>. QED  BY <1>2, <2>1, MoveNames
<1>3. CASE UNCHANGED vars
  BY <1>3 DEF vars, historyVars, NameInv, NamesAreKept, FreeNames, NamesApart, Memes
<1>. QED
  BY <1>1, <1>2, <1>3, RewriteNames, AddNames, DeleteNames DEF Next

(* A name belongs to one meme, unless two uploads found it free at once. *)
THEOREM UploadNamesAreUnique == Spec => []NamesAreUnique
<1>1. Init => NameInv
  BY IdleRequest DEF Init, NameInv, NamesAreKept, FreeNames, NamesApart, Memes
<1>2. NamesApart => NamesAreUnique
  <2>. SUFFICES ASSUME NamesApart, NEW n \in Name \ raced
                PROVE  Cardinality(Named(n)) <= 1
    BY DEF NamesAreUnique
  <2>1. \A m, k \in Named(n) : m = k
    BY DEF NamesApart, Named
  <2>2. CASE Named(n) = {}
    BY <2>2, FS_EmptySet
  <2>3. CASE Named(n) # {}
    <3>1. PICK m \in Named(n) : Named(n) = {m}
      BY <2>1, <2>3
    <3>2. Cardinality({m}) = 1
      BY FS_Singleton
    <3>3. Cardinality(Named(n)) = 1
      BY <3>1, <3>2
    <3>. QED  BY <3>3
  <2>. QED  BY <2>2, <2>3
<1>. QED  BY <1>1, <1>2, UploadInvariant, NameStep, PTL DEF Spec, NameInv

=============================================================================
