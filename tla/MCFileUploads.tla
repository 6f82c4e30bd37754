---------------------------- MODULE MCFileUploads ----------------------------
(* Instances of FileUploads for TLC.                                       *)
EXTENDS FileUploads, TLC

Buffer(at0, at4, at8, head) ==
    [short |-> FALSE, at0 |-> at0, at4 |-> at4, at8 |-> at8, head |-> head]
Jpeg == Buffer("ffd8ff", "other", "other", "other")
Avif == Buffer("other", "ftyp", "avif", "other")
Text == Buffer("other", "other", "other", "other")
JpegOrAvif == {Jpeg, Avif}
SomeKinds == {Jpeg, Avif, Text}

Part(field, ext, bytes) == [field |-> field, stem |-> "a", ext |-> ext, bytes |-> bytes]
(* Topic images called a.jpg with either kind of bytes, and one for a post. *)
MixedParts == {Part("topic", "jpg", Jpeg), Part("topic", "jpg", Avif), Part("post", "jpeg", Text)}
Symmetry == Permutations(Requests) \cup Permutations(RandomStems)
=============================================================================
