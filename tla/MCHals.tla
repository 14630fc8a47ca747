------------------------------- MODULE MCHals --------------------------------
(***************************************************************************)
(* The two HAL modules of the board that keep state.  They share none, so  *)
(* a behaviour is one of the audio HAL or one of the graphics allocator:   *)
(* their interleavings would add nothing.                                  *)
(*                                                                         *)
(* Audio: two threads on two streams of one port, with a buffer of one     *)
(* write.  Graphics: two handle addresses, two bos, a plain and a planar   *)
(* shape.                                                                  *)
(***************************************************************************)
EXTENDS AudioOut, Gralloc, TLC

VARIABLE hal

Shape(format, usage) == [format |-> format, w |-> 4, h |-> 2, usage |-> usage]

MCShapes == {Shape("RGBA", {"hw_render"}), Shape("RGBA", {"sw_read", "hw_render"}),
             Shape("YV12", {"sw_read", "hw_render"})}
MCLockUsages == {{"hw_render"}, {"sw_read", "hw_render"}}

\* The whole buffer, and a corner of it.
MCRegions == {[x |-> 0, y |-> 0, w |-> 4, h |-> 2], [x |-> 2, y |-> 1, w |-> 2, h |-> 1]}

HalsInit ==
  /\ Init /\ GrallocInit
  /\ \/ hal = "audio"    /\ careful
     \/ hal = "graphics" /\ client = {}

HalsNext ==
  \/ hal = "audio"    /\ Next        /\ UNCHANGED <<hal, grallocVars>>
  \/ hal = "graphics" /\ GrallocNext /\ UNCHANGED <<hal, vars>>

HalsSpec == HalsInit /\ [][HalsNext]_<<hal, vars, grallocVars>>

Symmetry == Permutations(Threads) \union Permutations(Streams)
=============================================================================
