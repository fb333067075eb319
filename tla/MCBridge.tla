------------------------------- MODULE MCBridge -------------------------------
(***************************************************************************)
(* Values for SerialBridge: powers on both sides of every limit of         *)
(* setTxPower(), and frequencies, one of them with the octets 'W' and 'R'. *)
(***************************************************************************)
EXTENDS SerialBridge

SomePowers == {<<-128, FALSE>>, <<20, FALSE>>, <<21, FALSE>>, <<127, FALSE>>,
               <<-2, TRUE>>, <<15, TRUE>>}

SomeFrequencies == {7110656, 7100242}

=============================================================================
