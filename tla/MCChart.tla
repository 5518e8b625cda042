------------------------------- MODULE MCChart -------------------------------
(* Small instances of RenderLoop.                                          *)
EXTENDS RenderLoop

StoredSeries == {{}, {1, 2, 3}}
CanvasWidths == {2, 4}
=============================================================================
