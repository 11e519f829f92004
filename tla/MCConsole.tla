------------------------------ MODULE MCConsole ------------------------------
(* Console for TLC: a buffer that a few characters fill.                     *)
EXTENDS Console

SmallPrompt == <<">">>
SmallMessage == <<"T", "newline">>
SmallOutputs == {<<"o", "newline">>}
=============================================================================
