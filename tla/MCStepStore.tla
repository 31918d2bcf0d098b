----------------------------- MODULE MCStepStore -----------------------------
(***************************************************************************)
(* Two values that overlap themselves and each other, over two characters. *)
(***************************************************************************)
EXTENDS StepStore

SomeNeedles == {<<"a", "b", "a">>, <<"b", "b">>}
SomeChars   == {"a", "b"}
==============================================================================
