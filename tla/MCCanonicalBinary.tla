-------------------------- MODULE MCCanonicalBinary --------------------------
(***************************************************************************)
(* Three byte values and integers of one byte: a letter, the mark, and a   *)
(* byte that is not UTF-8.  MaxBytes lets arbitrary inputs reach to a      *)
(* record with a time, or with two labels; the bindings an engine writes   *)
(* have up to three labels, in every order and with repetitions.           *)
(***************************************************************************)
EXTENDS CanonicalBinary

MCMagic == <<1>>
MCStray == {2}

MCTimes == {None} \cup [seconds : {-1, 1}, nanos : {0, 1, 2}]
MCTexts == {<<>>, <<0>>, <<1>>, <<0, 1>>, <<0, 0, 1>>}

MCBindings ==
  [candidate_id : {<<>>, <<1>>, <<0, 0, 1>>}, raw_path : {<<>>, <<2>>},
   logical_bytes : {2}, observed_at : MCTimes, activity : {1}, coverage : {0},
   labels : UNION {[1..n -> MCTexts] : n \in 0..3}]
=============================================================================
