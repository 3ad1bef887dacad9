--------------------------- MODULE MCMediaPlayer ---------------------------
(* Instances of MediaPlayer for TLC. *)
EXTENDS MediaPlayer, TLC

CONSTANTS film, clip

MCFiles == {film, clip}
============================================================================
