----------------------------- MODULE MCSerializer -----------------------------
(***************************************************************************)
(* Serializer on the declarations of MCDeserializer.                       *)
(***************************************************************************)
EXTENDS Serializer, MCDeserializer

MCObjects == {"only", "first", "show", "album", "both"}
MCRecordIds == {2, 3}
=============================================================================
