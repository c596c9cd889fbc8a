------------------------- MODULE MCGenerationStage -------------------------
(* Small instances of GenerationStage for TLC. *)
EXTENDS GenerationStage

AllThere   == {}
SomeGone   == {<<ImageTrack, 1>>, <<1, 0>>}
=============================================================================
