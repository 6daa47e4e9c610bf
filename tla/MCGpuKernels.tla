---------------------------- MODULE MCGpuKernels ----------------------------
(* Up to two whole blocks of support vectors and points, with and without a *)
(* rest; as many features as devices, fewer and more.                      *)
EXTENDS GpuKernels

Call(operation, by, kernel_type, sizes, has_w, pole) ==
    [operation |-> operation, backend |-> by, kernel_type |-> kernel_type,
     num_support_vectors |-> sizes[1], num_predict_points |-> sizes[2], num_features |-> sizes[3],
     has_w |-> has_w, pole |-> pole]

LinearSizes == {<<3, 1, 1>>, <<2, 2, 2>>, <<4, 1, 3>>}
OtherSizes == {<<2, 1, 1>>, <<3, 3, 2>>, <<5, 2, 1>>}

MCCalls ==
    {Call("predict", by, "linear", s, has_w, FALSE) : by \in Backends, s \in LinearSizes, has_w \in BOOLEAN}
    \cup {Call("predict", by, k, s, FALSE, pole) :
            by \in Backends, k \in {"polynomial", "rbf"}, s \in OtherSizes, pole \in BOOLEAN}
    \cup {Call("q", by, "linear", s, FALSE, FALSE) : by \in Backends, s \in LinearSizes}
    \cup {Call("q", by, k, s, FALSE, FALSE) : by \in Backends, k \in {"polynomial", "rbf"}, s \in OtherSizes}
=============================================================================
