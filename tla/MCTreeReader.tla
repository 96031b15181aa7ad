---------------------------- MODULE MCTreeReader ----------------------------
(* Archives of files, directories and links around two names, with paths   *)
(* that are not normalised, too long or too deep.                          *)
EXTENDS TreeReader

D(path)             == [type |-> "d", path |-> path, data |-> "", link |-> <<>>]
F(type, path, data) == [type |-> type, path |-> path, data |-> data, link |-> <<>>]
H(path, link)       == [type |-> "h", path |-> path, data |-> "", link |-> link]

AnItem == {
  D(<<".">>), D(<<"a">>), D(<<"a", "", "b">>),
  F("r", <<"a">>, "one"), F("x", <<"b">>, "two"), F("r", <<"a", "b">>, "one"),
  F("s", <<".", "b", "a">>, "two"),
  F("r", <<"a", "b", "a">>, "one"), F("x", <<"a", "b", "a", "..", "..">>, "one"),
  F("r", <<"long">>, "two"), F("s", <<"..">>, "one"),
  H(<<"a">>, <<"b">>), H(<<"b">>, <<"b", "..", "a">>), H(<<"a", "a">>, <<"b", ".", "a">>),
  H(<<"b">>, <<"long">>)}

NameSeq == <<"a", "b">>
APath == {<<>>, <<"a">>, <<"b", "a">>, <<"a", "..", "a", "b">>, <<"a", "b", "a">>}
=============================================================================
