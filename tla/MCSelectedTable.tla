---------------------------- MODULE MCSelectedTable ----------------------------
(* SelectedOutputTable with one option, one heading of an inverse model and      *)
(* USER_PUNCH headings that may repeat each other or the option.                 *)
EXTENDS SelectedOutputTable

MCKeys == {"pH", "resid", "a", "b", "no_heading_1"}
MCStandard == {"pH"}
MCModelKeys == {"resid"}
MCHeadingLists == {<<>>, <<"a">>, <<"a", "b">>, <<"b", "b">>, <<"pH", "a">>}
MCNoHeading == <<"no_heading_1">>

================================================================================
