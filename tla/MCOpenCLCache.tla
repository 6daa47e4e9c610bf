--------------------------- MODULE MCOpenCLCache ----------------------------
(* Two processes, and two pairs of devices of which one device is the same. *)
EXTENDS OpenCLCache, TLC

MCDeviceLists == {<<"a", "b">>, <<"a", "c">>}

Symmetry == Permutations(Processes)
=============================================================================
