----------------------------- MODULE MemeUpload -----------------------------
(***************************************************************************)
(* The memes and their files: uploads, which write three files each and    *)
(* then a record or none, the meme switch and deletions, running           *)
(* concurrently (internal/media, handleCreateMeme, handleUpdateMeme,       *)
(* handleDeleteMeme of internal/transport/http), and crashes.              *)
(*                                                                         *)
(* A statement is one step and so is the removal of an upload's files.     *)
(* A temporary file that a crash leaves behind counts with the upload's    *)
(* other files.  GameEngine is what the switch does to the games.          *)
(***************************************************************************)
EXTENDS Integers, FiniteSets, FiniteSetsExt

CONSTANTS
  Name,         \* the names images are uploaded under
  Image,        \* the images, by SHA-256
  Request,      \* bound: the requests that run at the same time
  MaxUploads,   \* bound: uploads ever begun
  MaxTrouble,   \* bound: failures of the disk or of a connection
  None          \* no record, name or image

Upload == 1 .. MaxUploads     \* also the ids of the memes they create
Files == 3                    \* original, screen and thumbnail
Records == [upload : Upload, name : Name, image : Image]

(* Where a request stands in its handler. *)
Steps == {"IDLE", "WRITE", "NAME", "SHA", "ADD", "REPLACE", "REMOVE_NEW", "REMOVE_OLD",
          "WRITE_BACK"}
Requests == [pc : Steps, upload : Upload \cup {0}, name : Name \cup {None},
             image : Image \cup {None}, id : Upload \cup {0}, old : Upload \cup {0}]

ASSUME BoundsAssumption ==
  /\ IsFiniteSet(Name) /\ IsFiniteSet(Request)
  /\ MaxUploads \in Nat /\ MaxTrouble \in Nat

ASSUME NoneAssumption ==
  None \notin Name /\ None \notin Image /\ None \notin Records

VARIABLES
  files,        \* how many files of each upload there are
  meme,         \* the memes table: the upload its files are of, name, image
  begun,        \* how many uploads have begun
  req,          \* the requests the server is working on
  leaked,       \* history: uploads whose files were left for a known cause
  reverted,     \* history: memes that a switch has given their old files back
  raced,        \* history: names that two uploads have found free
  trouble

historyVars == <<leaked, reverted, raced>>
vars == <<files, meme, begun, req, historyVars, trouble>>

Idle == [pc |-> "IDLE", upload |-> 0, name |-> None, image |-> None, id |-> 0, old |-> 0]

Goto(r, pc) == req' = [req EXCEPT ![r].pc = pc]
Done(r) == req' = [req EXCEPT ![r] = Idle]

(* The upload whose files a request has still to record or to remove. *)
InHand(r) == IF req[r].pc = "REMOVE_OLD" THEN req[r].old ELSE req[r].upload

Memes == {m \in Upload : meme[m] # None}
Named(n) == {m \in Memes : meme[m].name = n}
Showing(i) == {m \in Memes : meme[m].image = i}

(* memes.sha256 is UNIQUE. *)
Unique(m, i) == Showing(i) \subseteq {m}

-----------------------------------------------------------------------------
(* ProcessUpload: three files, each written and renamed.                   *)

Begin(r) ==
  /\ req[r] = Idle /\ begun < MaxUploads
  /\ begun' = begun + 1
  /\ \E n \in Name, i \in Image :
       req' = [req EXCEPT ![r] = [Idle EXCEPT !.pc = "WRITE", !.upload = begun + 1,
                                              !.name = n, !.image = i]]
  /\ UNCHANGED <<files, meme, historyVars, trouble>>

WriteAtomic(r) ==
  LET u == req[r].upload IN
  /\ req[r].pc = "WRITE"
  /\ files' = [files EXCEPT ![u] = @ + 1]
  /\ IF files'[u] = Files THEN Goto(r, "NAME") ELSE UNCHANGED req
  /\ UNCHANGED <<meme, begun, historyVars, trouble>>

(* The files written before the one that fails stay. *)
WriteFails(r) ==
  /\ req[r].pc = "WRITE" /\ trouble < MaxTrouble
  /\ trouble' = trouble + 1
  /\ leaked' = leaked \cup {req[r].upload}
  /\ Done(r)
  /\ UNCHANGED <<files, meme, begun, reverted, raced>>

-----------------------------------------------------------------------------
(* handleCreateMeme.  A name that is taken replaces its meme's image...    *)

(* Mutant: names are not looked up. *)
FindNameNever(r) ==
  /\ req[r].pc = "NAME"
  /\ Goto(r, "SHA")
  /\ UNCHANGED <<files, meme, begun, historyVars, trouble>>

FindName(r) ==
  /\ req[r].pc = "NAME"
  /\ IF Named(req[r].name) = {}
     THEN Goto(r, "SHA")
     ELSE \E m \in Named(req[r].name) :
            req' = [req EXCEPT ![r].pc = "REPLACE", ![r].id = m,
                               ![r].old = meme[m].upload]
  /\ UNCHANGED <<files, meme, begun, historyVars, trouble>>

(* Mutant: the old files are removed before the record is written. *)
ReplaceRemovingFirst(r) ==
  LET q == req[r]
      fits == Unique(q.id, q.image) IN
  /\ q.pc = "REPLACE"
  /\ files' = [files EXCEPT ![q.old] = 0]
  /\ meme' = IF fits /\ q.id \in Memes
             THEN [meme EXCEPT ![q.id] = [upload |-> q.upload, name |-> q.name,
                                          image |-> q.image]]
             ELSE meme
  /\ Done(r)
  /\ UNCHANGED <<begun, historyVars, trouble>>

(* ...unless another meme has the image.  A record deleted meanwhile is not *)
(* missed; one replaced meanwhile loses its files to nobody.                *)
Replace(r) ==
  LET q == req[r] IN
  /\ q.pc = "REPLACE"
  /\ \/ /\ ~Unique(q.id, q.image)
        /\ Goto(r, "REMOVE_NEW")
        /\ UNCHANGED <<meme, leaked, reverted>>
     \/ /\ Unique(q.id, q.image)
        /\ meme' = IF q.id \in Memes
                   THEN [meme EXCEPT ![q.id] = [upload |-> q.upload, name |-> q.name,
                                                image |-> q.image]]
                   ELSE meme
        /\ leaked' = leaked \cup (IF q.id \in Memes THEN {meme[q.id].upload} \ {q.old}
                                                    ELSE {q.upload})
        /\ reverted' = reverted \ {q.id}
        /\ Goto(r, "REMOVE_OLD")
  /\ UNCHANGED <<files, begun, raced, trouble>>

(* Mutant: the files of a duplicate stay. *)
FindImageKeeping(r) ==
  /\ req[r].pc = "SHA"
  /\ IF Showing(req[r].image) # {} THEN Done(r) ELSE Goto(r, "ADD")
  /\ UNCHANGED <<files, meme, begun, historyVars, trouble>>

(* Under a new name, an image that is known already is refused...           *)
FindImage(r) ==
  /\ req[r].pc = "SHA"
  /\ Goto(r, IF Showing(req[r].image) # {} THEN "REMOVE_NEW" ELSE "ADD")
  /\ UNCHANGED <<files, meme, begun, historyVars, trouble>>

(* The uploads that have found a name free. *)
FoundFreeBy(n) == {r \in Request : req[r].pc \in {"SHA", "ADD"} /\ req[r].name = n}

(* ...and one that is not becomes a meme.  An image that another upload has *)
(* added since fails, and its files stay.                                   *)
AddMeme(r) ==
  LET q == req[r] IN
  /\ q.pc = "ADD"
  /\ IF Showing(q.image) = {}
     THEN /\ meme' = [meme EXCEPT ![q.upload] = [upload |-> q.upload, name |-> q.name,
                                                image |-> q.image]]
          /\ raced' = IF FoundFreeBy(q.name) # {r} THEN raced \cup {q.name} ELSE raced
          /\ UNCHANGED leaked
     ELSE /\ leaked' = leaked \cup {q.upload}
          /\ UNCHANGED <<meme, raced>>
  /\ Done(r)
  /\ UNCHANGED <<files, begun, reverted, trouble>>

(* The browser has gone, and with it the request's context. *)
AddFails(r) ==
  /\ req[r].pc = "ADD" /\ trouble < MaxTrouble
  /\ trouble' = trouble + 1
  /\ leaked' = leaked \cup {req[r].upload}
  /\ Done(r)
  /\ UNCHANGED <<files, meme, begun, reverted, raced>>

(* RemoveResult. *)
RemoveResult(r) ==
  /\ req[r].pc \in {"REMOVE_NEW", "REMOVE_OLD"}
  /\ files' = [files EXCEPT ![IF req[r].pc = "REMOVE_NEW" THEN req[r].upload
                              ELSE req[r].old] = 0]
  /\ Done(r)
  /\ UNCHANGED <<meme, begun, historyVars, trouble>>

-----------------------------------------------------------------------------
(* handleUpdateMeme reads the meme with the whole list, and writes all of   *)
(* it back; the switch itself is GameEngine's.                              *)

ReadMeme(r) ==
  /\ req[r] = Idle
  /\ \E m \in Memes :
       req' = [req EXCEPT ![r] = [pc |-> "WRITE_BACK", upload |-> 0, name |-> meme[m].name,
                                  image |-> meme[m].image, id |-> m,
                                  old |-> meme[m].upload]]
  /\ UNCHANGED <<files, meme, begun, historyVars, trouble>>

(* The files of an image that has replaced the one read are lost to it.     *)
WriteBack(r) ==
  LET q == req[r]
      newer == q.id \in Memes /\ meme[q.id].upload # q.old
      fits == Unique(q.id, q.image) IN
  /\ q.pc = "WRITE_BACK"
  /\ IF fits /\ newer
     THEN /\ meme' = [meme EXCEPT ![q.id] = [upload |-> q.old, name |-> q.name,
                                             image |-> q.image]]
          /\ leaked' = leaked \cup {meme[q.id].upload}
          /\ reverted' = reverted \cup {q.id}
     ELSE UNCHANGED <<meme, leaked, reverted>>
  /\ Done(r)
  /\ UNCHANGED <<files, begun, raced, trouble>>

(* A meme that no game refers to can be deleted; nobody removes its files.  *)
DeleteMeme ==
  /\ \E m \in Memes :
       /\ meme' = [meme EXCEPT ![m] = None]
       /\ leaked' = leaked \cup {meme[m].upload}
  /\ UNCHANGED <<files, begun, req, reverted, raced, trouble>>

(* What the requests were about to record or remove stays.                  *)
Crash ==
  /\ \E r \in Request : req[r] # Idle
  /\ trouble < MaxTrouble
  /\ trouble' = trouble + 1
  /\ req' = [r \in Request |-> Idle]
  /\ leaked' = leaked \cup {u \in Upload : \E r \in Request : u = InHand(r)}
  /\ UNCHANGED <<files, meme, begun, reverted, raced>>

-----------------------------------------------------------------------------
Init ==
  /\ files = [u \in Upload |-> 0]
  /\ meme = [m \in Upload |-> None]
  /\ begun = 0
  /\ req = [r \in Request |-> Idle]
  /\ leaked = {} /\ reverted = {} /\ raced = {}
  /\ trouble = 0

Next ==
  \/ DeleteMeme \/ Crash
  \/ \E r \in Request :
       \/ Begin(r) \/ WriteAtomic(r) \/ WriteFails(r)
       \/ FindName(r) \/ Replace(r) \/ FindImage(r) \/ AddMeme(r) \/ AddFails(r)
       \/ RemoveResult(r) \/ ReadMeme(r) \/ WriteBack(r)

Spec == Init /\ [][Next]_vars

-----------------------------------------------------------------------------
(* Properties.                                                              *)

TypeOK ==
  /\ files \in [Upload -> 0 .. Files]
  /\ meme \in [Upload -> Records \cup {None}]
  /\ begun \in 0 .. MaxUploads
  /\ req \in [Request -> Requests]
  /\ leaked \subseteq Upload /\ reverted \subseteq Upload /\ raced \subseteq Name
  /\ trouble \in Nat

(* Every meme has its three files, whatever uploads, replacements, failures  *)
(* and crashes overlap, and no two memes share them.  Only a switch that had *)
(* read the meme before a replacement can give it back the files that the    *)
(* replacement removes (handleCreateMeme, handleUpdateMeme).                 *)
MemesHaveFiles ==
  /\ \A m \in Memes \ reverted : files[meme[m].upload] = Files
  /\ \A m, k \in Memes \ reverted : meme[m].upload = meme[k].upload => m = k

(* Files do not pile up: what no meme refers to is being worked on, or was   *)
(* left behind for one of the known causes - a failure, a crash, a deletion, *)
(* a lost race for the image or the name, a switch.  Duplicates and replaced *)
(* images leave none ("Avoid orphaned files on duplicate upload").           *)
OrphansHaveCauses ==
  \A u \in Upload :
    files[u] > 0 =>
      \/ u \in leaked
      \/ \E m \in Memes : meme[m].upload = u
      \/ \E r \in Request : u = InHand(r)

(* A name belongs to one meme, which uploads under it replace, unless two    *)
(* uploads found the name free at the same time (handleCreateMeme looks it   *)
(* up and inserts in two steps, and the column is not UNIQUE).               *)
NamesAreUnique ==
  \A n \in Name \ raced : Cardinality(Named(n)) <= 1
=============================================================================
