----------------------------- MODULE MCEngine -----------------------------
(***************************************************************************)
(* Instances of Engine for TLC: two layers and four tokens, of which the   *)
(* policy lets two through: 2 is denied and 3 is out of its range.         *)
(***************************************************************************)
EXTENDS Engine

\* An ordinary prompt, one that ends in a run, one that fills the context, and
\* those generate does not check: empty, out of the vocabulary, too long.
AllPrompts == {<<0>>, <<0, 0>>, <<1, 0, 1, 0>>, <<>>, <<7>>, <<0, 1, 0, 1, 0>>}
SomePrompts == {<<0>>, <<1, 1, 0>>}
OnePrompt == {<<0>>}
RunPrompt == {<<0, 0>>}

Denied == {2}
AllTensors == TensorKinds
SoundOrDeviant == {"sound", "deviant"}
SoundOrUnbounded == {"sound", "unbounded"}
SoundOrNonfinite == {"sound", "nonfinite"}
=============================================================================
