----------------------------- MODULE MCAdapter -----------------------------
(* Status lines for the adapter. *)
EXTENDS WsgiAdapter

GoodStatus == <<"digit", "space", "other">>

GoodStatuses == {GoodStatus}

(* No message, no number, nothing at all; a blank before the message only,
   which passes for a number. *)
AllStatuses ==
  {GoodStatus, <<"space", "other">>, <<"digit">>, <<"digit", "space">>,
   <<"digit", "other", "space", "other">>, <<>>}
=============================================================================
