----------------------------- MODULE MCListing -----------------------------
(***************************************************************************)
(* Listing for TLC: directories of up to three entries, of which one is in *)
(* a subfolder; every pattern of up to three places, every option with     *)
(* one pattern, and every order. And what the documents and comments say   *)
(* of listings that the code does not do.                                  *)
(***************************************************************************)
EXTENDS Listing, TLC

Plain == [path |-> <<"a">>, folder |-> FALSE, hidden |-> FALSE, special |-> FALSE,
          gone |-> FALSE, size |-> 0, mtime |-> 2]

(* Two folders and four files, one of them in a folder and of a size too   *)
(* far from the others'; a hidden one, a special one, and one that is gone. *)
Entries ==
    {Plain,
     [Plain EXCEPT !.path = <<"B">>, !.size = 1, !.mtime = 1],
     [Plain EXCEPT !.path = <<"b", "a">>, !.mtime = 0, !.hidden = TRUE],
     [Plain EXCEPT !.path = <<"d">>, !.folder = TRUE],
     [Plain EXCEPT !.path = <<"d", "/", "a">>, !.size = 3],
     [Plain EXCEPT !.path = <<"A", "b">>, !.folder = TRUE, !.special = TRUE],
     [Plain EXCEPT !.path = <<"A">>, !.gone = TRUE]}

(* nftw() gives what is in a folder before the folder.                     *)
InDepth(t) ==
    \A i \in DOMAIN t : t[i].path = <<"d", "/", "a">> =>
        \E j \in DOMAIN t : j > i /\ t[j].path = <<"d">>

MCTrees == {t \in UNION {[1 .. n -> Entries] : n \in 0 .. 3} : IsInjective(t) /\ InDepth(t)}

MCCode == "/" :> 0 @@ "A" :> 1 @@ "B" :> 2 @@ "a" :> 3 @@ "b" :> 4 @@ "d" :> 5
MCCaseless == "/" :> 0 @@ "A" :> 3 @@ "B" :> 4 @@ "a" :> 3 @@ "b" :> 4 @@ "d" :> 5

A == {"a", "A"}
B == {"b", "B"}
D == {"d"}
AnyChar == DOMAIN MCCode \ Slashes

Patterns == {p \in UNION {[1 .. n -> {Star, A, AnyChar, Slashes}] : n \in 1 .. 3} : WellFormed(p)}

MCIgnores == {{}, {<<Slashes, Star, A>>, <<Star, Star, Slashes, B>>}}

EveryPattern == [diropts : {{}, {"TRAVERSE"}}, sort : {{}}, maxresults : {0},
                 pattern : Patterns]

Options == {"NO_FOLDERSFIRST", "NO_SKIPHIDDEN", "NO_SKIPSPECIAL", "DIR_PATTERN", "NO_FOLDERS",
            "TRAVERSE"}
OptionSets == {{o} : o \in Options} \cup {{"TRAVERSE", o} : o \in Options}
              \cup {Options \ {"NO_FOLDERS", "TRAVERSE"}}

EveryOption == [diropts : OptionSets, sort : {{}}, maxresults : {0, 2}, pattern : {<<Star, A>>}]

EverySort ==
    [diropts : {{}, {"NO_FOLDERSFIRST", "NO_SKIPHIDDEN"}}, maxresults : {0, 2}, pattern : {<<>>},
     sort : {{}, {"NONE"}, {"CASE"}, {"DESCENDING"}, {"SIZE"}, {"MODIFIED", "DESCENDING"}}]

MCRequests == EveryPattern \cup EveryOption \cup EverySort

MCFailing == {[diropts |-> {"TRAVERSE"}, sort |-> {}, maxresults |-> 0, pattern |-> <<>>]}

(* A traversal with a pattern, and one in the order of the sizes.          *)
MCTraversal == [diropts : {{"TRAVERSE"}}, sort : {{}}, maxresults : {0}, pattern : {<<Star, A>>}]

MCBySize == [diropts : {{"TRAVERSE"}}, sort : {{"SIZE"}}, maxresults : {0}, pattern : {<<>>}]

-----------------------------------------------------------------------------
(* What is listed when nothing but the pattern and .ignore can leave it out *)
(* and does not.                                                           *)
ListedUnless(e, out) ==
    Seen(e, request) /\ ~ e.gone /\ ~ Unasked(e, request) /\ ~ out => e \in Range(list)

(* "Wildcard pattern does not apply to directories" (tnfs-protocol.md:330), *)
(* by default: a folder is listed whatever its name and the pattern.       *)
WildcardSparesFolders ==
    request # NoRequest /\ request.maxresults = 0 /\ ~ Has(request, "DIR_PATTERN") =>
        \A e \in Range(tree) : e.folder => ListedUnless(e, Ignored(e, request))

(* "** followed by a / match zero or more directories" (match.c:55): what  *)
(* the two stars and the slash stand for is nothing or ends with a slash.  *)
PassesDirectories(text, p) ==
    LET Second(k) == TokenAt(p, k) = Star /\ TokenAt(p, k - 1) = Star
        Accepts(piece, k) ==
            IF Second(k) THEN k = Len(p) \/ piece = <<>> \/ Last(piece) = Slash
            ELSE IF Second(k + 1) \/ Second(k - 1) THEN piece = <<>>
            ELSE IF p[k] = Star THEN Slash \notin Range(piece)
            ELSE OneOf(piece, p[k])
    IN  Cuttable(text, Len(p), Accepts)

(* A line of .ignore that begins with two stars and a slash takes out of a *)
(* listing what it so matches, and nothing else.                           *)
StarsAreDirectories ==
    request # NoRequest /\ request.maxresults = 0 /\ ~ Has(request, "TRAVERSE") =>
        \A e \in Range(tree) :
            ListedUnless(e,
                \/ Patterned(e, request) /\ ~ Matching(e, request)
                \/ \E p \in ignore : IF TokenAt(p, 1) = Star THEN PassesDirectories(e.path, p)
                                     ELSE MatchesPath(e.path, p))

(* "Sort by the file's size instead of name" (tnfs-protocol.md:359): the   *)
(* files come in the order of their sizes, however large these are.        *)
SizesInOrder ==
    request # NoRequest /\ "SIZE" \in request.sort =>
        \A i, j \in DOMAIN list :
            i < j /\ ~ list[i].folder /\ ~ list[j].folder
                => InOrder(list[i], list[j], request.sort)
=============================================================================
