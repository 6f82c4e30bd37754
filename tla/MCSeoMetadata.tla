---------------------------- MODULE MCSeoMetadata ----------------------------
(* Small instances of SeoMetadata for TLC.                                 *)
EXTENDS SeoMetadata, TLC

(* Updates and materials are interchangeable, and so are the SEO fields.   *)
UpdateSymmetry ==
    Permutations(Requests) \cup Permutations(Materials) \cup Permutations(SeoFields)
=============================================================================
