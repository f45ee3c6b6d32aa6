---------------------------- MODULE MCFeedRefresh ----------------------------
(* Two feeds, one of them paged, with three documents between them. *)
EXTENDS FeedRefresh

MCFeedOrder == <<"kev", "nvd">>
MCDocsOf == [kev |-> <<"k">>, nvd |-> <<"n1", "n2">>]
MCOneFeed == <<"kev">>
MCOneDoc == [kev |-> <<"k">>]
=============================================================================
