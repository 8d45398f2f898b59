-------------------------------- MODULE MCBuild --------------------------------
(* A small project for Build, with assets whose names get in each other's  *)
(* way in the cache or in dist.                                            *)
EXTENDS Build

Asset(name, public, tue) == [name |-> name, public |-> public, tue |-> tue]
MCAssets ==
  ("logo.png" :> Asset(<<"logo.png", 0>>, FALSE, FALSE))
    @@ ("icons/logo.png" :> Asset(<<"logo.png", 0>>, FALSE, FALSE))
    @@ ("public/assets/logo.1.png" :> Asset(<<"logo.png", 1>>, TRUE, FALSE))
    @@ ("public/index.html" :> Asset(<<"index.html", 0>>, TRUE, FALSE))
    @@ ("public/Extra.tue" :> Asset(<<"Extra.tue", 0>>, TRUE, TRUE))

Relative(path) == [path |-> path, rooted |-> FALSE]
Rooted(path) == [path |-> path, rooted |-> TRUE]
Version(verdict, template, style) == [verdict |-> verdict, template |-> template, style |-> style]
MCSources ==
  <<Version("good", <<Relative("logo.png"), Rooted("public/Extra.tue")>>, <<Relative("logo.png")>>),
    Version("good", <<Relative("logo.png")>>, <<Relative("icons/logo.png"), Relative("logo.png")>>),
    Version("good", <<Relative("public/assets/logo.1.png")>>, <<Rooted("public/assets/logo.1.png")>>),
    Version("rejected", <<>>, <<>>),
    Version("ungenerable", <<Relative("logo.png")>>, <<>>),
    Version("unbuildable", <<>>, <<>>)>>
=============================================================================
