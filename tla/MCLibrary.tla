----------------------------- MODULE MCLibrary -----------------------------
(* A film in a folder without a year and one in a folder with its year, a   *)
(* remake that may appear, a second root that may get a copy of a file, and *)
(* the folders the renames make of them.                                    *)
EXTENDS Library, TLC

MCRoots == <<"movies", "more">>
MCTitles == {"alpha", "beta", "alphaunknownyear", "betaunknownyear"}
MCYears == {2018, 2026}

\* A directory a rename made is the pair of its title and year; the others
\* have names of their own.
Made == {"alpha", "beta"} \X (MCYears \cup {None})
Given == {<<"alpha.mkv", 0>>, <<"alpha.2018", 0>>, <<"alpha.2026", 0>>}
MCDirs == Given \cup Made
MCYearIn == [d \in MCDirs |->
  IF d \in Made THEN d[2]
  ELSE IF d[1] = "alpha.2018" THEN 2018 ELSE IF d[1] = "alpha.2026" THEN 2026 ELSE None]
MCTitleIn == [d \in MCDirs |->
  IF d \notin Made THEN "alpha"
  ELSE IF d[2] # None THEN d[1]
  ELSE IF d[1] = "alpha" THEN "alphaunknownyear" ELSE "betaunknownyear"]
MCDirFor == [t \in {"alpha", "beta"} |-> [y \in MCYears \cup {None} |-> <<t, y>>]]
MCFound == [root : {"movies"}, dir : Given] \cup [root : {"more"}, dir : {<<"alpha.2018", 0>>}]
MCTmdbYear == [t \in {"alpha", "beta"} |-> IF t = "beta" THEN 2018 ELSE None]
MCRawNames == {<<"a", 0>>}

File(r, d) == [folder |-> [root |-> r, dir |-> <<d, 0>>], name |-> <<<<"a", 0>>, 0>>]
MCInitialFiles ==
  (File("movies", "alpha.mkv") :> "c1") @@ (File("movies", "alpha.2018") :> "c2")
=============================================================================
