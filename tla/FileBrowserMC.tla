---------------------------- MODULE FileBrowserMC ----------------------------
EXTENDS FileBrowser

\* In the order of the last names: Movie is a file and a directory, Movie 2 begins like
\* it, show is Show to LIKE.
MCPathOrder ==
  << <<"Movie">>, <<"Movie", "a">>, <<"Movie 2", "b">>, <<"Show", "S1", "e">>, <<"show", "e">>,
     <<"Movie", "n">> >>

Row(i, s) == [item |-> i, size |-> s]

\* The item of Movie/a has a larger file of another type, Movie/n, and one, in another
\* directory, that may be the larger of the two.
MCRowsAt ==
  [p \in ToSet(MCPathOrder) |->
     CASE p = <<"Movie">> -> {Row(1, 0)}
       [] p = <<"Movie", "a">> -> {Row(2, 1), Row(2, 3)}
       [] p = <<"Movie", "n">> -> {Row(2, 4)}
       [] p = <<"Movie 2", "b">> -> {Row(2, 2)}
       [] p = <<"Show", "S1", "e">> -> {Row(3, 2)}
       [] p = <<"show", "e">> -> {Row(3, 2)}]

MCLikeWhole == {<<"Show", "show">>, <<"show", "Show">>}
MCLikePrefix == MCLikeWhole \cup {<<"Movie", "Movie 2">>}
MCRest == [pair \in {<<"Movie", "Movie 2">>} |-> " 2"]

\* One virtual path: everything but show, the n files and all but the largest.
MCMounts == {"films"}
MCInclude == [m \in MCMounts |-> {"Movie", "Movie 2", "Show", "show"}]
MCExclude == [m \in MCMounts |-> {"show"}]
MCFileRegex == [m \in MCMounts |-> {<<"Movie">>, <<"a">>, <<"b">>, <<"e">>, <<"S1", "e">>}]
MCLargest == [m \in MCMounts |-> TRUE]

MCStarts == {<<"__all__">>, <<"films">>, <<"Movie">>}
MCHeaders == {FromTo(1, 1), From(0), LastBytes(1)}
=============================================================================
