--------------------------------- MODULE MCRl ---------------------------------
(***************************************************************************)
(* RlReward with one training episode that has a hypothesis and one that   *)
(* has none; a third run draws the first again. The judge may approve of   *)
(* any answer, which covers the scorers that approve of all or of none.    *)
(***************************************************************************)
EXTENDS RlReward

MCEpisodes == <<TRUE, FALSE>>
MCScorers == <<"judge", "sql">>
=============================================================================
