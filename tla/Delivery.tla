------------------------------- MODULE Delivery -------------------------------
(***************************************************************************)
(* What the reader of a book asks for: the URL of book.mp3 or of a clip,   *)
(* the manifest, the marks of a chunk.  Each request reads the book row,   *)
(* then the chunk row if it is about a chunk, then the object, by a call   *)
(* each; the URL of an object is signed unseen, and the browser uses it    *)
(* later.                                                                  *)
(***************************************************************************)
EXTENDS Stitching

CONSTANT Readers   \* clients that read

VARIABLES
  readPc,    \* what each request does next
  wanted     \* what it asks for: <<kind, chunk>>

readVars == <<readPc, wanted>>

BookWishes  == {<<"audio", 0>>, <<"manifest", 0>>}
ChunkWishes == {"chunkAudio", "marks"} \X Chunks
NoWish      == <<"none", 0>>

ReadTypeOK ==
  /\ readPc \in [Readers -> {"idle", "chunk", "fetch"}]
  /\ wanted \in [Readers -> BookWishes \cup ChunkWishes \cup {NoWish}]

ReadInit ==
  /\ readPc = [r \in Readers |-> "idle"]
  /\ wanted = [r \in Readers |-> NoWish]

-----------------------------------------------------------------------------
\* The row carries the key of the output.
Advertised(wish) ==
  CASE wish[1] = "audio"    -> book.audioKey
    [] wish[1] = "manifest" -> book.manifestKey
    [] OTHER                -> chunk[wish[2]] = "DONE"

\* The object behind the key is in its bucket.
Stored(wish) ==
  CASE wish[1] = "audio"      -> bookMp3.exists
    [] wish[1] = "manifest"   -> manifest.exists
    [] wish[1] = "chunkAudio" -> wish[2] \in clips
    [] OTHER                  -> wish[2] \in markDocs

\* 404 or 409, or the object itself: nothing is changed by a request.
Answered(r) ==
  /\ readPc' = [readPc EXCEPT ![r] = "idle"]
  /\ wanted' = [wanted EXCEPT ![r] = NoWish]

\* _load_owned_book, with the key of a request about the whole book.
ReadBook(r) ==
  /\ readPc[r] = "idle"
  /\ book.status # Absent
  /\ \/ \E wish \in BookWishes :
          Advertised(wish) /\ wanted' = [wanted EXCEPT ![r] = wish] /\ readPc' = [readPc EXCEPT ![r] = "fetch"]
     \/ \E wish \in ChunkWishes :
          wanted' = [wanted EXCEPT ![r] = wish] /\ readPc' = [readPc EXCEPT ![r] = "chunk"]

ReadChunkRow(r) ==
  /\ readPc[r] = "chunk"
  /\ IF Advertised(wanted[r])
     THEN readPc' = [readPc EXCEPT ![r] = "fetch"] /\ UNCHANGED wanted
     ELSE Answered(r)

\* get_bytes, or the browser's own GET with the signed URL.
Fetch(r) == readPc[r] = "fetch" /\ Answered(r)

ReadNext == \E r \in Readers : ReadBook(r) \/ ReadChunkRow(r) \/ Fetch(r)
=============================================================================
