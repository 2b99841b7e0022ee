--------------------------- MODULE MCStartLights ---------------------------
(* StartLights on two panels and a display; a tick is a step of the lights. *)
EXTENDS StartLights

\* The tab of panel 1 and the display's are in the background.
Background == {1, Display}
=============================================================================
