----------------------------- MODULE ModelFile ------------------------------
(***************************************************************************)
(* The header of a LIBSVM model file: a sequence of entries, in any order, *)
(* up to the line SV.  Only the parameters that a kernel uses are written, *)
(* and only they may be read.                                              *)
(*                                                                         *)
(* degree and coef0 have their defaults; rho and the names of the labels   *)
(* are left as they are.                                                   *)
(***************************************************************************)
EXTENDS Integers, SequencesExt, FiniteSetsExt

Entry(key, value) == [key |-> key, value |-> value]
Error == [is |-> "error"]

Total(counts) ==
    LET sum[k \in 0..Len(counts)] == IF k = 0 THEN 0 ELSE sum[k - 1] + counts[k]
    IN  sum[Len(counts)]

----------------------------------------------------------------------------
(* write_libsvm_model_header.  There are counts[c] support vectors of class *)
(* labels[c].                                                               *)

ParameterEntries(kernel_type, gamma) ==
    CASE kernel_type = "linear" -> <<>>
      [] kernel_type = "polynomial" ->
            <<Entry("degree", 3), Entry("gamma", gamma), Entry("coef0", 0)>>
      [] OTHER -> <<Entry("gamma", gamma)>>

WriteHeader(kernel_type, gamma, labels, counts) ==
    <<Entry("svm_type", "c_svc"), Entry("kernel_type", kernel_type)>>
    \o ParameterEntries(kernel_type, gamma)
    \o <<Entry("nr_class", Len(labels)), Entry("label", labels),
         Entry("total_sv", Total(counts)), Entry("nr_sv", counts), Entry("rho", "rho")>>

----------------------------------------------------------------------------
(* parse_libsvm_model_header.                                              *)

Required == {"svm_type", "kernel_type", "nr_class", "total_sv", "rho", "label", "nr_sv"}
Optional == {"degree", "gamma", "coef0"}

Keys(header) == {header[k].key : k \in DOMAIN header}

\* Of several entries the last one counts.
Value(header, key) ==
    header[Max({k \in DOMAIN header : header[k].key = key})].value

EntryRefused(e) ==
    CASE e.key = "svm_type" -> e.value # "c_svc"
      [] e.key = "kernel_type" -> e.value \notin {"linear", "polynomial", "rbf"}
      [] e.key = "total_sv" -> e.value = 0
      [] e.key = "label" -> Len(e.value) < 2 \/ ~IsInjective(e.value)
      [] e.key = "nr_sv" -> Len(e.value) < 2
      [] OTHER -> e.key \notin Required \cup Optional

\* The parameters a kernel does not use.
Unused(kernel_type) ==
    CASE kernel_type = "linear" -> Optional
      [] kernel_type = "polynomial" -> {}
      [] OTHER -> {"degree", "coef0"}

Consistent(header) ==
    LET nr_class == Value(header, "nr_class")
        nr_sv == Value(header, "nr_sv")
    IN  /\ Keys(header) \cap Unused(Value(header, "kernel_type")) = {}
        /\ nr_class = Len(Value(header, "label")) /\ nr_class = Len(nr_sv)
        /\ nr_class = 2
        /\ Value(header, "total_sv") = Total(nr_sv)

\* Support vectors have their labels by their place: first those of the first
\* label, and so on.
DataLabels(labels, nr_sv) ==
    LET class[k \in 1..Total(nr_sv)] ==
            CHOOSE c \in DOMAIN nr_sv : /\ k <= Total(SubSeq(nr_sv, 1, c))
                                       /\ k > Total(SubSeq(nr_sv, 1, c - 1))
    IN  [k \in 1..Total(nr_sv) |-> labels[class[k]]]

\* default is the gamma of a header without one.
ParseHeader(header, default) ==
    IF /\ \A k \in DOMAIN header : ~EntryRefused(header[k])
       /\ Required \subseteq Keys(header)
       /\ Consistent(header)
    THEN [kernel_type |-> Value(header, "kernel_type"),
          gamma |-> IF "gamma" \in Keys(header) THEN Value(header, "gamma") ELSE default,
          labels |-> DataLabels(Value(header, "label"), Value(header, "nr_sv"))]
    ELSE Error
=============================================================================
