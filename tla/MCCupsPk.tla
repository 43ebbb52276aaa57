------------------------------ MODULE MCCupsPk ------------------------------
(***************************************************************************)
(* A small instance of CupsPk for TLC.  The entries have the keys          *)
(* device-uri:0, device-info:0, device-uri:1, device-info:1, one with a    *)
(* field the client does not know, and one whose key ends in no number.    *)
(***************************************************************************)
EXTENDS CupsPk, TLC

Entry(field, index) == [field |-> field, index |-> index, value |-> "value"]

AllEntries ==
    {Entry("uri", 0), Entry("info", 0), Entry("uri", 1), Entry("info", 1),
     Entry("class", 0), Entry("uri", None)}

Scans == SUBSET AllEntries

Interchangeable == Permutations(Callers)
=============================================================================
