------------------------------- MODULE MCRecords -------------------------------
(***************************************************************************)
(* Instances of Records with a byte of 4 bits, so that the numbers have 12 *)
(* bits and their boundaries are near.                                     *)
(***************************************************************************)
EXTENDS Records

MCMemories == {Growing, Fixed(7)}

MCSymmetry == Permutations(Handles)

(* Every class, and the numbers on both sides of a boundary; of what is    *)
(* beyond, ReadsWhatWasWritten says nothing and SurplusBitsCutOff does.    *)
MCPlain ==
    {Record("varint", 1, <<n>>) : n \in {4, -MaxVarInt, MaxVarInt + 1}}
    \cup {Record("varuint", 1, <<n>>) : n \in {0, MaxVarUInt, MaxVarUInt + 1}}
    \cup {Record("bool", 0, <<1>>), Record("bool", InvalidID - 1, <<0>>),
          Record("uint32", 2, <<1, 2, 3, 4>>), Record("raw128", 1, <<5, 6>>),
          Record("enum", 1, <<0, 0, 0, 1>>), Record("bool", InvalidID, <<0>>)}

MCApp == Makes(RT_APPBLOB_MIN, "appblob", <<>>) @@ Makes(RT_APP_NOSIZE_MIN, "enum", <<>>)
MCRegistries == {register_defaults, Registry(MCApp, TRUE), Registry(MCApp, FALSE)}

MCForeign == UNION {[1..n -> Byte] : n \in 0..2}
             \cup {<<2, 0, b>> : b \in Byte} \cup {<<3, b, 15>> : b \in Byte}
=============================================================================
