---------------------------- MODULE MCDeserializer ----------------------------
(***************************************************************************)
(* Deserializer on a small set of declarations: a struct with a member, an *)
(* array, a sequence, a wrapper and a record, deserialized on its own, by  *)
(* only and within a sequence.                                             *)
(***************************************************************************)
EXTENDS Deserializer, TLC

MCDecl ==
    [ value  |-> [kind |-> "value", ids |-> <<1>>],
      point  |-> [kind |-> "struct", ids |-> <<1>>, members |-> <<"value">>],
      exact  |-> [kind |-> "array", ids |-> <<2>>, members |-> <<"point">>,
                  count |-> 1, all |-> TRUE, strict |-> TRUE],
      loose  |-> [kind |-> "array", ids |-> <<3>>, members |-> <<"value">>,
                  count |-> 1, all |-> FALSE, strict |-> FALSE],
      list   |-> [kind |-> "seq", ids |-> <<3>>, members |-> <<"exact">>],
      wrap   |-> [kind |-> "wrap", ids |-> <<1>>, members |-> <<"exact">>],
      photo  |-> [kind |-> "record", ids |-> <<4, 2>>],
      person |-> [kind |-> "struct", ids |-> <<1>>,
                  members |-> <<"value", "exact", "loose", "wrap", "photo">>],
      only   |-> [kind |-> "only", members |-> <<"person">>, strict |-> FALSE],
      first  |-> [kind |-> "only", members |-> <<"list">>, strict |-> TRUE],
      example |-> [kind |-> "only", members |-> <<"point">>, strict |-> TRUE],
      \* records that may be missing where one is required
      frame  |-> [kind |-> "wrap", ids |-> <<1>>, members |-> <<"photo">>],
      pair   |-> [kind |-> "array", ids |-> <<2>>, members |-> <<"photo">>,
                  count |-> 2, all |-> TRUE, strict |-> TRUE],
      wall   |-> [kind |-> "struct", ids |-> <<1>>, members |-> <<"frame", "pair">>],
      show   |-> [kind |-> "only", members |-> <<"wall">>, strict |-> FALSE],
      album  |-> [kind |-> "only", members |-> <<"photo">>, strict |-> FALSE],
      \* two members that the same id selects
      twins  |-> [kind |-> "struct", ids |-> <<1>>, members |-> <<"exact", "points">>],
      points |-> [kind |-> "seq", ids |-> <<2, 3>>, members |-> <<"point">>],
      both   |-> [kind |-> "only", members |-> <<"twins">>, strict |-> FALSE] ]

MCDecls == DOMAIN MCDecl
\* the declaration of examples/person.cpp
MCExample == {"example"}
MCRoots == {"person", "only", "first", "list", "loose"}
MCNodes == [id: 1..4, cont: BOOLEAN]
=============================================================================
