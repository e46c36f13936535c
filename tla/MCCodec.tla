------------------------------- MODULE MCCodec ------------------------------
(* Instances of Codec for TLC. *)
EXTENDS Codec

\* Topics shorter than the field, as long as it, and longer; the last two are the same topic.
MCWords   == {<<9>>, <<8>>, <<8, 9>>, <<8, 9, 8>>}
MCNames   == {<<8>>, <<8, 9>>}
\* Ids of one character, of the longest length, and one that is too long.
MCIdWords == {<<8>>, <<9, 8>>, <<8, 8, 8>>}

\* Numbers whose digits differ, of both signs, and a string with a 0 in it.
MCContents ==
  {[type |-> DATA_TYPE_INT, value |-> <<1234>>], [type |-> DATA_TYPE_INT, value |-> <<-507>>],
   [type |-> DATA_TYPE_SHORT_REAL, value |-> <<230>> ],
   [type |-> DATA_TYPE_FLOAT, value |-> <<-42, 3>>], [type |-> DATA_TYPE_FLOAT, value |-> <<1701, 0>>],
   [type |-> DATA_TYPE_STRING, value |-> <<8, 0, 9>>], [type |-> DATA_TYPE_STRING, value |-> <<>>],
   [type |-> DATA_TYPE_OTHER, value |-> <<8>>]}

=============================================================================
