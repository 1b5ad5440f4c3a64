------------------------------- MODULE MCWeb -------------------------------
(* Small instances of the parts of Web for TLC.                               *)
EXTENDS Web

CONSTANTS p1, p2, p3, film, other, show

mc_Kind == p1 :> "download" @@ p2 :> "plain" @@ p3 :> "form"
mc_QualityOf == p1 :> "1080p" @@ p2 :> "none" @@ p3 :> "none"
mc_Priority == p1 :> 0 @@ p2 :> 2 @@ p3 :> 1
mc_HostOf == [u \in {"f", "q", "q2", "g", "x"} |->
                CASE u = "f" -> "file" [] u \in {"q", "q2"} -> "quick" [] u = "g" -> "gdflix"
                  [] OTHER -> "elsewhere"]
mc_SeasonOf == film :> 0 @@ other :> 0 @@ show :> 1
mc_Listings == {[season |-> 1, episode |-> 1, pack |-> FALSE],
                [season |-> 1, episode |-> 0, pack |-> TRUE],
                [season |-> 2, episode |-> 0, pack |-> TRUE]}
mc_Targets == [q \in {"1080p", "all"} |-> IF q = "all" THEN <<"720p", "1080p">> ELSE <<q>>]
Request(candidate, failover, quality, episode, season) ==
  [type |-> "generic", candidate |-> candidate, failover |-> failover, quality |-> quality,
   episode |-> episode, episodeSeason |-> 1, season |-> season]
\* The episode of the same number of the season after.
NextSeason(request) == [request EXCEPT !.episodeSeason = 2]
mc_Requests ==
  {Request(film, <<show, other>>, "1080p", 0, 0), Request(film, <<other>>, "1080p", 0, 1),
   Request(show, <<other>>, "1080p", 1, 0), NextSeason(Request(show, <<>>, "1080p", 1, 0)),
   Request(show, <<>>, "1080p", 0, 1),
   Request(show, <<>>, "1080p", 0, 2), Request(other, <<>>, "all", 0, 0),
   [type |-> "adapter", quality |-> "1080p"], [type |-> "adapter", quality |-> "all"],
   [type |-> "custom"]}

Offer(source, content, variant) ==
  [content |-> content, variant |-> variant, source |-> source, url |-> content]
mc_RowsOf ==
  [s \in {"site", "catalog", "adapter"} |->
     CASE s = "site" -> {<<>>, <<Offer(s, "film", "1080p")>>}
       [] s = "catalog" -> {<<>>, <<Offer(s, "show", "720p")>>}
       [] OTHER -> {<<Offer(s, "film", "720p")>>}]
\* The library knows both titles by one id.
mc_Libraries == {[label \in Labels |-> "id"]}
mc_Sites == <<"site">>
mc_Adapters == <<"adapter">>
=============================================================================
