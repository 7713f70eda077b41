--------------------------- MODULE MCDocumentLoad ---------------------------
(* The documents of small instances of DocumentLoad. *)
EXTENDS DocumentLoad

(* A sheet before a script, scripts set aside, and resources nothing stops for. *)
Pages ==
  {<<"sheet", "inline">>, <<"module", "defer">>, <<"async", "image">>, <<"blocking">>}
=============================================================================
