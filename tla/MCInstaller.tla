---------------------------- MODULE MCInstaller -----------------------------
(* Two versions of DCS with an anchor, which differ in the text behind it,    *)
(* and a third one without an anchor, which install refuses.                  *)
EXTENDS BridgeInstaller

MCGameTexts ==
  << <<"head", Anchor, "nl", "old">>, <<"head", Anchor, "nl", "nl", "new">>, <<"other">> >>
=============================================================================
