------------------------------- MODULE Match -------------------------------
(***************************************************************************)
(* The two matchers of names: _pattern_match() of directory.c, for the     *)
(* pattern of an OPENDIRX, and gitignore_glob_match() of match.c, for the  *)
(* lines of a .ignore file and for the pattern of a traversal. Both return *)
(* whether a text matches, compared here with what the pattern means.      *)
(*                                                                         *)
(* A text is a sequence of characters. A pattern is a sequence of Star and *)
(* of sets of characters: a letter is the set of its upper and lower case, *)
(* a '?' or [...] the set of all it accepts, a '/' the set of the slash.   *)
(***************************************************************************)
EXTENDS Naturals, FiniteSetsExt, SequencesExt

CONSTANTS Star

Slash == "/"
Slashes == {Slash}

(* Star is no set of characters.                                           *)
ASSUME StarIsNoSet == Star # {} /\ Star # Slashes

TokenAt(p, k) == IF k \in DOMAIN p THEN p[k] ELSE {}

-----------------------------------------------------------------------------
(* _pattern_match(): lookup[<<i, j>>] is whether the first i characters    *)
(* match the first j of the pattern.                                       *)
pattern_match(text, p) ==
    LET lookup[at \in (0 .. Len(text)) \X (0 .. Len(p))] ==
            LET i == at[1]
                j == at[2]
            IN  IF j = 0 THEN i = 0
                ELSE IF p[j] = Star
                THEN lookup[<<i, j - 1>>] \/ (i > 0 /\ lookup[<<i - 1, j>>])
                ELSE i > 0 /\ text[i] \in p[j] /\ lookup[<<i - 1, j - 1>>]
    IN  lookup[<<Len(text), Len(p)>>]

(* Two places to go on from, one in the text and one in the pattern;       *)
(* <<0, 0>> is NULL.                                                       *)
Place == Nat \X Nat

(* Mutated form: a * goes on across the end of a folder's name. *)
CanStretchAny(text, star) == star # <<0, 0>>

(* The * may take one more character.                                      *)
CanStretch(text, star) == star # <<0, 0>> /\ text[star[1]] # Slash

Advance(back) == <<back[1] + 1, back[2]>>

(* The loop of gitignore_glob_match(), from the place t of the text and g  *)
(* of the pattern. star and dirs are where to go on from when that fails:  *)
(* after the last *, and after the last of the **.                         *)
GlobLoop(text, p) ==
    LET loop[at \in Nat \X Nat \X Place \X Place] ==
            LET t == at[1]
                g == at[2]
                star == at[3]
                dirs == at[4]
            IN  IF t > Len(text) THEN \A k \in g .. Len(p) : p[k] = Star
                ELSE IF TokenAt(p, g) = Star /\ TokenAt(p, g + 1) = Star THEN
                    IF g + 1 = Len(p) THEN TRUE
                    ELSE TokenAt(p, g + 2) = Slashes
                         /\ loop[<<t, g + 3, <<0, 0>>, <<t, g + 3>>>>]
                ELSE IF TokenAt(p, g) = Star
                    THEN loop[<<t, g + 1, <<t, g + 1>>, dirs>>]
                ELSE IF text[t] \in TokenAt(p, g)
                    THEN loop[<<t + 1, g + 1, star, dirs>>]
                ELSE IF CanStretch(text, star)
                    THEN loop[<<star[1] + 1, star[2], Advance(star), dirs>>]
                ELSE IF dirs # <<0, 0>>
                    THEN loop[<<dirs[1] + 1, dirs[2], star, Advance(dirs)>>]
                ELSE FALSE
    IN  loop[<<1, 1, <<0, 0>>, <<0, 0>>>>]

BaseName(text) ==
    SubSeq(text, Max({0} \cup {k \in DOMAIN text : text[k] = Slash}) + 1, Len(text))

WithoutSlash(text) == IF TokenAt(text, 1) = Slash THEN Tail(text) ELSE text

(* gitignore_glob_match(): a pattern that begins with a / is for the whole *)
(* path, one without any for the last name of the path. The callers have   *)
(* no paths that begin with "./".                                          *)
gitignore_glob_match(text, p) ==
    IF TokenAt(p, 1) = Slashes
    THEN GlobLoop(WithoutSlash(text), Tail(p))
    ELSE IF Slashes \notin Range(p)
    THEN GlobLoop(BaseName(text), p)
    ELSE GlobLoop(text, p)

-----------------------------------------------------------------------------
(* The patterns of .ignore that have a meaning: a '?' or [...] accepts no  *)
(* slash, and two stars are only at the start or after a slash, before a   *)
(* slash or at the end.                                                    *)
WellFormed(p) ==
    /\ \A k \in DOMAIN p : p[k] = Star \/ p[k] = Slashes \/ Slash \notin p[k]
    /\ \A k \in 1 .. Len(p) - 1 :
          p[k] = Star /\ p[k + 1] = Star =>
              /\ k = 1 \/ p[k - 1] = Slashes
              /\ k + 1 = Len(p) \/ p[k + 2] = Slashes

(* What the patterns mean: the text can be cut into one piece for each     *)
(* place of the pattern. Accepts(piece, k) says what place k may stand for. *)
Cuttable(text, n, Accepts(_, _)) ==
    \E cut \in [0 .. n -> 0 .. Len(text)] :
        /\ cut[0] = 0 /\ cut[n] = Len(text)
        /\ \A k \in 1 .. n :
              cut[k - 1] <= cut[k] /\ Accepts(SubSeq(text, cut[k - 1] + 1, cut[k]), k)

OneOf(piece, S) == Len(piece) = 1 /\ piece[1] \in S

(* A pattern of OPENDIRX: * is any text.                                   *)
MatchesWildcard(text, p) ==
    LET Accepts(piece, k) == p[k] = Star \/ OneOf(piece, p[k])
    IN  Cuttable(text, Len(p), Accepts)

(* A line of .ignore, as the loop takes it: * is any text without a slash. *)
(* Two stars at the end of the pattern are any text, and so are two stars  *)
(* with the slash after them, even one that ends inside a name (match.c:55 *)
(* has them stand for folders: see StarsAreDirectories of MCListing).      *)
MatchesGlob(text, p) ==
    LET Second(k) == TokenAt(p, k) = Star /\ TokenAt(p, k - 1) = Star
        Accepts(piece, k) ==
            IF Second(k) THEN TRUE
            ELSE IF Second(k + 1) THEN piece = <<>>
            ELSE IF Second(k - 1) THEN piece = <<>>
            ELSE IF p[k] = Star THEN Slash \notin Range(piece)
            ELSE OneOf(piece, p[k])
    IN  Cuttable(text, Len(p), Accepts)

MatchesPath(text, p) ==
    IF TokenAt(p, 1) = Slashes THEN MatchesGlob(WithoutSlash(text), Tail(p))
    ELSE IF Slashes \notin Range(p) THEN MatchesGlob(BaseName(text), p)
    ELSE MatchesGlob(text, p)
=============================================================================
