---------------------------- MODULE MCSession --------------------------------
(***************************************************************************)
(* Lines that nest what the short ones cannot: pipelines of three, blocks  *)
(* in a pipeline, backgrounds in a block, words set apart by spaces.       *)
(***************************************************************************)
EXTENDS Session

MCLonger ==
    {<<"a", "|", "a", "|", "a">>,
     <<"(", "a", "&", ")", "|", "a">>,
     <<"a", "|", "(", "a", "&", ")">>,
     <<"(", "a", ";", "a", ")", "|", "a">>,
     <<"a", "|", "a", ";", "a", "&">>,
     <<"a", "|", "a", "|", "a", "&">>,
     <<"a", "<", "a", ">", ">", "a", "|", "a">>,
     <<"(", "(", "a", "|", "a", ")", "&", ")", ";", "a">>,
     <<" ", "a", " ", "a", " ", "|", " ", "a">>,
     <<"a", " ", "a", ">", "a", " ", "a">>}
=============================================================================
