----------------------------- MODULE HeaderHash -----------------------------
(***************************************************************************)
(* The header hash that stands for a post in the manifest: a running       *)
(* multiply-and-add over the bytes of one header field after the other,    *)
(* with nothing between two fields.  The module follows one post through   *)
(* edits and builds: a build is told of a header edit only by this hash.   *)
(***************************************************************************)
EXTENDS Naturals, Sequences

CONSTANTS
    Texts,     \* the texts a header field may hold: sequences of bytes
    HashSize   \* the number of values of an unsigned long

ASSUME TextsAssumption == Texts \subseteq Seq(1 .. 255)

(* A power of two above 256: 33, which is odd, has an inverse.             *)
ASSUME HashSizeAssumption ==
    /\ HashSize \in Nat /\ HashSize > 256
    /\ \E inverse \in 1 .. HashSize - 1 : (33 * inverse) % HashSize = 1

(* validate_post refuses a post without a title.  The date and category,   *)
(* between title and summary (site.c:130-131), are left out: they are two  *)
(* more texts, hashed like the others.                                     *)
FieldTexts(f) == IF f = "title" THEN Texts \ {<<>>} ELSE Texts
Headers == [title : FieldTexts("title"), summary : Texts, tags : Texts]

VARIABLES header,    \* the header of the source file
          recorded,  \* the hash in BUILD.DAT
          rendered,  \* history: the header the outputs were rendered from
          built      \* history: the last step was a build
hashVars == <<header, recorded, rendered, built>>

(* A wrong version: the shift without the addition. *)
HashByteEven(hash, ch) == (hash * 32 + ch) % HashSize

HashByte(hash, ch) == (hash * 33 + ch) % HashSize

(* The hash after each byte of the text, and after the last one. *)
HashesOf(hash, text) ==
    LET after[n \in 0 .. Len(text)] ==
            IF n = 0 THEN hash ELSE HashByte(after[n - 1], text[n])
    IN  after
HashText(hash, text) == HashesOf(hash, text)[Len(text)]

(* The fields in the order of compute_post_meta_hash; the fields an edit   *)
(* of the header leaves alone (slug, date, category, names) are left out.  *)
HeaderHash(h) == HashText(HashText(HashText(5381 % HashSize, h.title), h.summary), h.tags)

HashInit == /\ header \in Headers
            /\ recorded = HeaderHash(header) /\ rendered = header /\ built = TRUE

Edit(f, text) == /\ header' = [header EXCEPT ![f] = text]
                 /\ built' = FALSE
                 /\ UNCHANGED <<recorded, rendered>>

(* A build renders the site anew when the hashes differ, and else keeps    *)
(* the outputs.                                                            *)
Build == /\ rendered' = IF HeaderHash(header) # recorded THEN header ELSE rendered
         /\ recorded' = HeaderHash(header) /\ built' = TRUE
         /\ UNCHANGED header

HashNext == Build \/ \E f \in DOMAIN header : \E t \in FieldTexts(f) : Edit(f, t)
HashSpec == HashInit /\ [][HashNext]_hashVars

-----------------------------------------------------------------------------
(* One field edited, in one byte. *)
OneByteApart(h, g) ==
    \E f \in DOMAIN h :
        /\ \A e \in DOMAIN h \ {f} : h[e] = g[e]
        /\ Len(h[f]) = Len(g[f])
        /\ \E i \in DOMAIN h[f] :
              /\ h[f][i] # g[f][i]
              /\ \A j \in DOMAIN h[f] \ {i} : h[f][j] = g[f][j]

(* A build after the correction of one character of a header renders the   *)
(* site anew: 33 is odd, so that a difference of two bytes survives every  *)
(* later multiplication of hash_text.                                      *)
OneByteEditIsSeen ==
    built => ~OneByteApart(header, rendered)
=============================================================================
